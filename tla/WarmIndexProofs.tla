-------------------------- MODULE WarmIndexProofs ---------------------------
(***************************************************************************)
(* Proofs about WarmIndex.  The limit of a request and the age of what is  *)
(* handed over need only what the steps record and in which order (IInv).  *)
(* That the short cut answers as a cold run would needs to know, besides,  *)
(* what a refresh has in hand as long as the sources still are what its    *)
(* sweep saw (ColdInv), and that no file goes unnoticed.                   *)
(***************************************************************************)
EXTENDS WarmIndex, FiniteSetTheorems, SequenceTheorems, TLAPS

-----------------------------------------------------------------------------
Tags == Tag \cup {NoTag}

(* What is written down never lies in the future. *)
Past(p) == p # Unprinted => /\ p \in Stamps /\ p.root <= now
                            /\ \A f \in DOMAIN p.files : p.files[f] <= now

DiskType ==
  /\ disk \in [File -> [stamp : Nat, tag : Tags]]
  /\ rootfile \in [stamp : Nat, theories : SUBSET File]
  /\ now \in Stamp /\ rootfile.stamp <= now
  /\ \A f \in File : disk[f].stamp <= now

(* A section has the text of its key or a newer one, and if its key is that *)
(* of the file as it is saved now, it has that text.                        *)
Sound(sections) ==
  /\ DOMAIN sections \subseteq File
  /\ \A f \in DOMAIN sections :
       /\ sections[f].key.stamp \in Nat /\ sections[f].text \in Nat
       /\ sections[f].key.stamp <= sections[f].text /\ sections[f].text <= now
       /\ sections[f].key.stamp = disk[f].stamp /\ disk[f].stamp > 0
            => sections[f].text = disk[f].stamp

Younger(p, sections) ==
  \A f \in DOMAIN sections :
    f \in DOMAIN p.files /\ sections[f].key.stamp > 0 => p.files[f] <= sections[f].text

Recorded == /\ step \in {"idle", "stat", "plan", "parse"}
            /\ limit \in Nat /\ todo \subseteq File
            /\ Past(print) /\ Past(seen)
            /\ seen = Unprinted <=> step = "idle"
            /\ Sound(parsed) /\ Sound(built)
            /\ print = Unprinted => DOMAIN parsed = {}
            /\ Younger(print, parsed)

(* What was seen or claimed of a file is not newer than the file. *)
Behind == /\ step # "idle" =>
               \A f \in DOMAIN seen.files : disk[f].stamp = 0 \/ seen.files[f] <= disk[f].stamp
          /\ \A f \in DOMAIN keys : /\ keys[f] \in Nat /\ keys[f] <= now
                                    /\ disk[f].stamp = 0 \/ keys[f] <= disk[f].stamp

Working == /\ own = [f \in DOMAIN own |-> own[f]]
           /\ DOMAIN own \subseteq File /\ DOMAIN keys \subseteq DOMAIN own
           /\ step \in {"idle", "stat"} => DOMAIN own = {}
           /\ step # "parse" => DOMAIN keys = {} /\ DOMAIN built = {}
           /\ step = "stat" => /\ DOMAIN parsed \subseteq DOMAIN seen.files \cup todo
                               /\ DOMAIN seen.files \cap todo = {}
           /\ step = "parse" =>
                /\ todo \subseteq DOMAIN own /\ DOMAIN built \subseteq DOMAIN keys
                /\ ~TooMany(DOMAIN own)
                /\ Younger(seen, built)
                /\ \A f \in DOMAIN keys :
                     f \in DOMAIN seen.files => keys[f] = 0 \/ seen.files[f] <= keys[f]

IInv == DiskType /\ Recorded /\ Behind /\ Working

-----------------------------------------------------------------------------
LEMMA WithDomain ==
  ASSUME NEW fun, NEW f, NEW v
  PROVE  DOMAIN With(fun, f, v) = DOMAIN fun \cup {f}
BY DEF With

LEMMA WithNew ==
  ASSUME NEW fun, NEW f, NEW v
  PROVE  With(fun, f, v)[f] = v
BY DEF With

LEMMA WithOld ==
  ASSUME NEW fun, NEW f, NEW v, NEW g \in DOMAIN fun, g # f
  PROVE  With(fun, f, v)[g] = fun[g]
BY DEF With

LEMMA WithFun ==
  ASSUME NEW fun, NEW f, NEW v
  PROVE  With(fun, f, v) = [g \in DOMAIN With(fun, f, v) |-> With(fun, f, v)[g]]
BY DEF With

LEMMA EmptyIs == DOMAIN Empty = {} /\ Empty = [f \in {} |-> 0]
BY DEF Empty

(* A fingerprint with one file more is a fingerprint, and none yet is not.  *)
LEMMA NewPrint ==
  ASSUME NEW r \in Stamp
  PROVE  /\ [root |-> r, files |-> Empty] \in Stamps
         /\ [root |-> r, files |-> Empty] # Unprinted
<1>1. Empty \in [{} -> Stamp]
  BY DEF Empty
<1>2. Empty \in PartialTo(Stamp)
  BY <1>1 DEF PartialTo
<1> QED BY <1>2, UnprintedAssumption DEF Stamps

LEMMA LongerPrint ==
  ASSUME NEW p \in Stamps, NEW f \in File, NEW s \in Stamp
  PROVE  LET q == [p EXCEPT !.files = With(@, f, s)]
         IN  /\ q \in Stamps /\ q # Unprinted
             /\ q.root = p.root /\ q.files = With(p.files, f, s)
<1>1. PICK F \in SUBSET File : p.files \in [F -> Stamp]
  BY DEF Stamps, PartialTo
<1>2. With(p.files, f, s) \in [F \cup {f} -> Stamp]
  BY <1>1 DEF With
<1>3. With(p.files, f, s) \in PartialTo(Stamp)
  BY <1>2 DEF PartialTo
<1> QED BY <1>3, UnprintedAssumption DEF Stamps

LEMMA PrintIs ==
  ASSUME NEW p \in Stamps
  PROVE  /\ p.root \in Nat /\ DOMAIN p.files \subseteq File
         /\ \A f \in DOMAIN p.files : p.files[f] \in Nat
<1>1. PICK F \in SUBSET File : p.files \in [F -> Stamp]
  BY DEF Stamps, PartialTo
<1> QED BY <1>1, LimitAssumption DEF Stamps, Stamp

-----------------------------------------------------------------------------
LEMMA Initially == Init => IInv
<1> SUFFICES ASSUME Init PROVE IInv
  OBVIOUS
<1>1. DiskType
  BY LimitAssumption DEF Init, DiskType, Tags, Stamp
<1>2. Recorded
  BY EmptyIs, <1>1 DEF Init, Recorded, Past, Sound, Younger
<1>3. Behind
  BY EmptyIs DEF Init, Behind
<1>4. Working
  BY EmptyIs DEF Init, Working
<1> QED BY <1>1, <1>2, <1>3, <1>4 DEF IInv

-----------------------------------------------------------------------------
(* What an editor may do to one file: nothing, a deletion, a new stamp.     *)
LEMMA EditEffect ==
  ASSUME IInv, Edit
  PROVE  /\ DiskType' /\ now <= now'
         /\ \A f \in File : \/ disk'[f] = disk[f]
                            \/ disk'[f].stamp = 0
                            \/ disk'[f].stamp > now
         /\ UNCHANGED <<index, step, limit, local>>
<1> DEFINE Steady == \A f \in File : \/ disk'[f] = disk[f]
                                     \/ disk'[f].stamp = 0
                                     \/ disk'[f].stamp > now
           Rest == UNCHANGED <<index, step, limit, local>>
<1> USE DEF IInv, DiskType, Tags, Stamp
<1>1. ASSUME NEW f \in File, NEW tag \in Tags, Save(f, tag)
      PROVE  DiskType' /\ now <= now' /\ Steady /\ Rest
  <2>1. now + 1 \in Stamp /\ now' = now + 1
    BY <1>1, LimitAssumption DEF Save
  <2>2. [stamp |-> now + 1, tag |-> tag] \in [stamp : Nat, tag : Tags]
    BY <2>1
  <2>3. disk' = [disk EXCEPT ![f] = [stamp |-> now + 1, tag |-> tag]]
    BY <1>1 DEF Save
  <2> QED BY <1>1, <2>1, <2>2, <2>3 DEF Save
<1>2. ASSUME NEW f \in File, Delete(f)
      PROVE  DiskType' /\ now <= now' /\ Steady /\ Rest
  <2>1. [stamp |-> 0, tag |-> NoTag] \in [stamp : Nat, tag : Tags]
    OBVIOUS
  <2>2. disk' = [disk EXCEPT ![f] = [stamp |-> 0, tag |-> NoTag]]
    BY <1>2 DEF Delete
  <2> QED BY <1>2, <2>1, <2>2 DEF Delete
<1>3. ASSUME NEW theories \in SUBSET File, SaveRoot(theories)
      PROVE  DiskType' /\ now <= now' /\ Steady /\ Rest
  BY <1>3, LimitAssumption DEF SaveRoot
<1>4. ASSUME DeleteRoot
      PROVE  DiskType' /\ now <= now' /\ Steady /\ Rest
  BY <1>4 DEF DeleteRoot
<1> QED BY <1>1, <1>2, <1>3, <1>4 DEF Edit

LEMMA EditKeeps == ASSUME IInv, Edit PROVE IInv'
<1>1. /\ DiskType' /\ now <= now'
      /\ \A f \in File : \/ disk'[f] = disk[f]
                         \/ disk'[f].stamp = 0
                         \/ disk'[f].stamp > now
  BY EditEffect
<1>2. /\ step' = step /\ limit' = limit /\ print' = print /\ parsed' = parsed /\ seen' = seen
      /\ own' = own /\ keys' = keys /\ built' = built /\ todo' = todo
  BY EditEffect DEF index, local
<1>3. now \in Nat /\ now' \in Nat /\ \A f \in File : disk[f].stamp \in Nat /\ disk'[f].stamp \in Nat
  BY <1>1 DEF IInv, DiskType, Stamp
<1> DEFINE Fine(s, f) == /\ f \in File
                         /\ s[f].key.stamp \in Nat /\ s[f].text \in Nat
                         /\ s[f].key.stamp <= s[f].text /\ s[f].text <= now'
                         /\ s[f].key.stamp = disk'[f].stamp /\ disk'[f].stamp > 0
                              => s[f].text = disk'[f].stamp
<1>4. ASSUME NEW s, Sound(s), NEW f \in DOMAIN s
      PROVE  Fine(s, f)
  <2> DEFINE k == s[f].key.stamp
             t == s[f].text
  <2>2. f \in File /\ k \in Nat /\ t \in Nat /\ k <= t /\ t <= now
    BY <1>4 DEF Sound
  <2>3. k = disk[f].stamp /\ disk[f].stamp > 0 => t = disk[f].stamp
    BY <1>4 DEF Sound
  <2> HIDE DEF k, t
  <2>4. k = disk'[f].stamp /\ disk'[f].stamp > 0 => t = disk'[f].stamp
    BY <1>1, <1>3, <2>2, <2>3
  <2>5. t <= now'
    BY <1>1, <1>3, <2>2
  <2> QED BY <2>2, <2>4, <2>5 DEF k, t
<1>5. ASSUME NEW p, Past(p)
      PROVE  p # Unprinted => /\ p \in Stamps /\ p.root <= now'
                              /\ \A f \in DOMAIN p.files : p.files[f] <= now'
  BY <1>1, <1>3, <1>5, PrintIs DEF Past
<1>6. Recorded'
  <2>1. Past(print)' /\ Past(seen)'
    BY <1>2, <1>5 DEF IInv, Recorded, Past
  <2>2. Sound(parsed)' /\ Sound(built)'
    BY <1>2, <1>4 DEF IInv, Recorded, Sound
  <2> QED BY <1>2, <2>1, <2>2 DEF IInv, Recorded, Younger
<1>7. Behind'
  <2>1. step # "idle" => seen \in Stamps /\ \A f \in DOMAIN seen.files : seen.files[f] <= now
    BY DEF IInv, Recorded, Past
  <2>2. step # "idle" => \A f \in DOMAIN seen.files : f \in File /\ seen.files[f] \in Nat
    BY <2>1, PrintIs
  <2>3. \A f \in DOMAIN keys : f \in File
    BY DEF IInv, Working
  <2> QED BY <1>1, <1>2, <1>3, <2>1, <2>2, <2>3 DEF IInv, Behind
<1>8. Working'
  BY <1>2 DEF IInv, Working, TooMany, Younger
<1> QED BY <1>1, <1>6, <1>7, <1>8 DEF IInv

-----------------------------------------------------------------------------
(* The sweep: Begin, a file at a time, and its three ends.                  *)
LEMMA BeginKeeps == ASSUME IInv, NEW n \in Limit, Begin(n) PROVE IInv'
<1> USE DEF Begin, sources, index
<1>1. seen' = [root |-> rootfile.stamp, files |-> Empty]
  OBVIOUS
<1>2. rootfile.stamp \in Stamp
  BY LimitAssumption DEF IInv, DiskType, Stamp
<1>3. seen' \in Stamps /\ seen' # Unprinted
  BY <1>1, <1>2, NewPrint
<1>4. DOMAIN seen'.files = {} /\ seen'.root = rootfile.stamp
  BY <1>1, EmptyIs
<1>5. Watched \subseteq File /\ DOMAIN parsed \subseteq Watched
  BY DEF Watched, Inside, Present, IInv, Recorded, Sound
<1>6. DiskType'
  BY DEF IInv, DiskType
<1>7. Recorded'
  <2>1. Past(print)' /\ Sound(parsed)' /\ Sound(built)' /\ Younger(print, parsed)'
    BY DEF IInv, Recorded, Past, Sound, Younger
  <2>2. Past(seen)'
    BY <1>3, <1>4 DEF IInv, DiskType, Past
  <2> QED BY <1>3, <1>5, <2>1, <2>2, LimitAssumption DEF IInv, Recorded
<1>8. Behind'
  BY <1>4 DEF IInv, Behind
<1>9. Working'
  BY <1>4, <1>5 DEF IInv, Working
<1> QED BY <1>6, <1>7, <1>8, <1>9 DEF IInv

LEMMA StatKeeps == ASSUME IInv, NEW f \in File, Stat(f) PROVE IInv'
<1> USE DEF Stat, sources, index
<1>1. seen \in Stamps /\ seen # Unprinted
  BY DEF IInv, Recorded, Past
<1>2. disk[f].stamp \in Stamp
  BY LimitAssumption DEF IInv, DiskType, Stamp
<1>3. /\ seen' \in Stamps /\ seen' # Unprinted
      /\ seen'.root = seen.root /\ seen'.files = With(seen.files, f, disk[f].stamp)
  BY <1>1, <1>2, LongerPrint
<1>4. /\ DOMAIN seen'.files = DOMAIN seen.files \cup {f}
      /\ \A g \in DOMAIN seen'.files :
           \/ g = f /\ seen'.files[g] = disk[f].stamp
           \/ g \in DOMAIN seen.files /\ seen'.files[g] = seen.files[g]
  <2> DEFINE X == With(seen.files, f, disk[f].stamp)
  <2>1. seen'.files = X
    BY <1>3
  <2> HIDE DEF Stat
  <2>2. DOMAIN X = DOMAIN seen.files \cup {f}
    BY WithDomain
  <2>3. \A g \in DOMAIN X : \/ g = f /\ X[g] = disk[f].stamp
                            \/ g \in DOMAIN seen.files /\ X[g] = seen.files[g]
    <3> SUFFICES ASSUME NEW g \in DOMAIN X
                 PROVE  \/ g = f /\ X[g] = disk[f].stamp
                        \/ g \in DOMAIN seen.files /\ X[g] = seen.files[g]
      OBVIOUS
    <3>1. CASE g = f
      BY <3>1, WithNew
    <3>2. CASE g # f
      <4>1. g \in DOMAIN seen.files
        BY <2>2, <3>2
      <4> QED BY <3>2, <4>1, WithOld
    <3> QED BY <3>1, <3>2
  <2> HIDE DEF X
  <2> QED BY <2>1, <2>2, <2>3
<1>5. DiskType'
  BY DEF IInv, DiskType
<1>6. Recorded'
  <2>1. Past(print)' /\ Sound(parsed)' /\ Sound(built)' /\ Younger(print, parsed)'
    BY DEF IInv, Recorded, Past, Sound, Younger
  <2>2. Past(seen)'
    BY <1>1, <1>3, <1>4 DEF IInv, DiskType, Recorded, Past
  <2> QED BY <1>3, <2>1, <2>2 DEF IInv, Recorded
<1>7. Behind'
  <2>1. \A g \in DOMAIN seen'.files : disk[g].stamp = 0 \/ seen'.files[g] <= disk[g].stamp
    BY <1>2, <1>4 DEF IInv, Behind, Stamp
  <2> QED BY <2>1 DEF IInv, Behind
<1>8. Working'
  BY <1>4 DEF IInv, Working
<1> QED BY <1>5, <1>6, <1>7, <1>8 DEF IInv

LEMMA ClearKeeps ==
  ASSUME IInv, Clear, step' = "idle", UNCHANGED <<sources, limit>>,
         Past(print)', Sound(parsed)', Younger(print, parsed)',
         print' = Unprinted => DOMAIN parsed' = {}
  PROVE  IInv'
<1> USE EmptyIs DEF Clear, sources
<1>1. DiskType'
  BY DEF IInv, DiskType
<1>2. Recorded'
  BY DEF IInv, Recorded, Past, Sound
<1>3. Behind'
  BY DEF Behind
<1>4. Working'
  BY DEF Working
<1> QED BY <1>1, <1>2, <1>3, <1>4 DEF IInv

LEMMA RefuseKeeps == ASSUME IInv, Refuse PROVE IInv'
<1>1. Past(print)' /\ Sound(parsed)' /\ Younger(print, parsed)' /\ DOMAIN parsed' = {}
  BY EmptyIs DEF Refuse, Past, Sound, Younger
<1> QED BY <1>1, ClearKeeps DEF Refuse

LEMMA ShortCutKeeps == ASSUME IInv, ShortCut PROVE IInv'
<1>1. Past(print)' /\ Sound(parsed)' /\ Younger(print, parsed)'
  BY DEF ShortCut, IInv, Recorded, Past, Sound, Younger, sources, index
<1> QED BY <1>1, ClearKeeps DEF ShortCut, IInv, Recorded, sources, index

LEMMA DiscoverKeeps == ASSUME IInv, Discover PROVE IInv'
<1> USE DEF Discover, sources, index
<1>1. Declared \subseteq File
  BY DEF Declared, Inside, IInv, DiskType
<1>2. DiskType' /\ Behind'
  BY DEF IInv, DiskType, Behind, Swept
<1>3. Recorded'
  BY <1>1 DEF IInv, Recorded, Past, Sound, Younger, Swept
<1>4. Working'
  BY DEF IInv, Working, Swept
<1> QED BY <1>2, <1>3, <1>4 DEF IInv

-----------------------------------------------------------------------------
(* Discovery and the headers.                                               *)
LEMMA HeaderKeeps == ASSUME IInv, NEW f \in File, Header(f) PROVE IInv'
<1> USE DEF Header, sources, index
<1>1. /\ own' = [g \in DOMAIN own' |-> own'[g]]
      /\ DOMAIN own' \subseteq File /\ DOMAIN own \subseteq DOMAIN own'
  <2>1. CASE f \in Present
    <3>1. own' = With(own, f, disk[f].tag)
      BY <2>1
    <3> HIDE DEF Header
    <3>2. DOMAIN own' = DOMAIN own \cup {f}
      BY <3>1, WithDomain
    <3>3. own' = [g \in DOMAIN own' |-> own'[g]]
      BY <3>1, WithFun
    <3> HIDE DEF Header
    <3> QED BY <3>2, <3>3 DEF IInv, Working
  <2>2. CASE f \notin Present
    BY <2>2 DEF IInv, Working
  <2> QED BY <2>1, <2>2
<1>2. DiskType' /\ Behind'
  BY DEF IInv, DiskType, Behind
<1>3. Recorded'
  BY DEF IInv, Recorded, Past, Sound, Younger
<1>4. Working'
  BY <1>1 DEF IInv, Working
<1> QED BY <1>2, <1>3, <1>4 DEF IInv

LEMMA StartParseKeeps == ASSUME IInv, StartParse PROVE IInv'
<1> USE DEF StartParse, Planned, sources, index
<1>1. DiskType' /\ Behind'
  BY DEF IInv, DiskType, Behind
<1>2. Recorded'
  BY DEF IInv, Recorded, Working, Past, Sound, Younger
<1>3. Working'
  BY DEF IInv, Working, TooMany, Younger
<1> QED BY <1>1, <1>2, <1>3 DEF IInv

(* The workers.                                                             *)
LEMMA ClaimKeeps == ASSUME IInv, NEW f \in File, Claim(f) PROVE IInv'
<1> USE DEF Claim, sources, index
<1>1. /\ DOMAIN keys' = DOMAIN keys \cup {f}
      /\ \A g \in DOMAIN keys' : \/ g = f /\ keys'[g] = disk[f].stamp
                                 \/ g \in DOMAIN keys /\ keys'[g] = keys[g]
  <2> DEFINE X == With(keys, f, disk[f].stamp)
  <2>1. keys' = X
    OBVIOUS
  <2> HIDE DEF Claim
  <2>2. DOMAIN X = DOMAIN keys \cup {f}
    BY WithDomain
  <2>3. \A g \in DOMAIN X : \/ g = f /\ X[g] = disk[f].stamp
                            \/ g \in DOMAIN keys /\ X[g] = keys[g]
    <3> SUFFICES ASSUME NEW g \in DOMAIN X
                 PROVE  \/ g = f /\ X[g] = disk[f].stamp
                        \/ g \in DOMAIN keys /\ X[g] = keys[g]
      OBVIOUS
    <3>1. CASE g = f
      BY <3>1, WithNew
    <3>2. CASE g # f
      <4>1. g \in DOMAIN keys
        BY <2>2, <3>2
      <4> QED BY <3>2, <4>1, WithOld
    <3> QED BY <3>1, <3>2
  <2> HIDE DEF X
  <2> QED BY <2>1, <2>2, <2>3
<1>2. disk[f].stamp \in Nat /\ disk[f].stamp <= now
  BY DEF IInv, DiskType
<1>3. seen \in Stamps /\ step # "idle"
  BY DEF IInv, Recorded, Past
<1>4. /\ f \in DOMAIN own
      /\ f \in DOMAIN seen.files => disk[f].stamp = 0 \/ seen.files[f] <= disk[f].stamp
  BY <1>3 DEF IInv, Working, Behind
<1>5. DiskType'
  BY DEF IInv, DiskType
<1>6. Behind'
  BY <1>1, <1>2 DEF IInv, Behind
<1>7. Recorded'
  BY DEF IInv, Recorded, Past, Sound, Younger
<1>8. Working'
  BY <1>1, <1>4 DEF IInv, Working, TooMany, Younger
<1> QED BY <1>5, <1>6, <1>7, <1>8 DEF IInv

(* What a worker adds: a section of the cache whose key is equal, or the    *)
(* text as it is now, which is not older than the stamp it claimed.         *)
NewSection(f) == IF Hit(f) THEN parsed[f] ELSE [key |-> Key(f), text |-> disk[f].stamp]

LEMMA ParseAdds ==
  ASSUME IInv, NEW f \in File, Parse(f), f \in Present \/ Hit(f)
  PROVE  /\ DOMAIN built' = DOMAIN built \cup {f}
         /\ built'[f] = NewSection(f)
         /\ \A g \in DOMAIN built : g # f => built'[g] = built[g]
<1>1. built' = With(built, f, NewSection(f))
  BY DEF Parse, NewSection
<1>2. DOMAIN built' = DOMAIN built \cup {f}
  BY <1>1, WithDomain
<1>3. built'[f] = NewSection(f)
  BY <1>1, WithNew
<1>4. ASSUME NEW g \in DOMAIN built, g # f
      PROVE  built'[g] = built[g]
  BY <1>1, <1>4, WithOld
<1> QED BY <1>2, <1>3, <1>4

LEMMA NewSectionIs ==
  ASSUME IInv, NEW f \in File, Parse(f), f \in Present \/ Hit(f)
  PROVE  /\ NewSection(f).key = Key(f)
         /\ NewSection(f).key.stamp = keys[f]
         /\ NewSection(f).text \in Nat /\ NewSection(f).text <= now
         /\ keys[f] <= NewSection(f).text
         /\ disk[f].stamp > 0 /\ keys[f] = disk[f].stamp => NewSection(f).text = disk[f].stamp
<1>1. Key(f).stamp = keys[f]
  BY DEF Key
<1>2. /\ disk[f].stamp \in Nat /\ disk[f].stamp <= now
      /\ keys[f] \in Nat /\ (disk[f].stamp = 0 \/ keys[f] <= disk[f].stamp)
  BY DEF IInv, DiskType, Behind, Parse
<1>3. CASE Hit(f)
  <2>1. f \in DOMAIN parsed /\ NewSection(f) = parsed[f] /\ parsed[f].key = Key(f)
    BY <1>3 DEF Hit, NewSection
  <2> QED BY <1>1, <2>1 DEF IInv, Recorded, Sound
<1>4. CASE ~Hit(f)
  BY <1>1, <1>2, <1>4 DEF NewSection, Present
<1> QED BY <1>3, <1>4

LEMMA ParseKeeps == ASSUME IInv, NEW f \in File, Parse(f) PROVE IInv'
<1>1. /\ UNCHANGED <<disk, rootfile, now, print, parsed, step, limit, seen, session, own, keys>>
      /\ todo' = todo \ {f} /\ step = "parse" /\ f \in DOMAIN keys
  BY DEF Parse, sources, index
<1>2. \A g \in DOMAIN built' :
        \/ g \in DOMAIN built /\ built'[g] = built[g]
        \/ g = f /\ built'[g] = NewSection(f) /\ (f \in Present \/ Hit(f))
  <2>1. CASE f \in Present \/ Hit(f)
    BY <2>1, ParseAdds
  <2>2. CASE ~(f \in Present \/ Hit(f))
    BY <2>2 DEF Parse
  <2> QED BY <2>1, <2>2
<1>3. DiskType' /\ Behind'
  BY <1>1 DEF IInv, DiskType, Behind
<1>4. Recorded'
  <2>1. Past(print)' /\ Past(seen)' /\ Sound(parsed)' /\ Younger(print, parsed)'
    BY <1>1 DEF IInv, Recorded, Past, Sound, Younger
  <2>2. ASSUME NEW g \in DOMAIN built'
        PROVE  /\ g \in File
               /\ built'[g].key.stamp \in Nat /\ built'[g].text \in Nat
               /\ built'[g].key.stamp <= built'[g].text /\ built'[g].text <= now
               /\ built'[g].key.stamp = disk[g].stamp /\ disk[g].stamp > 0
                    => built'[g].text = disk[g].stamp
    <3>1. CASE g \in DOMAIN built /\ built'[g] = built[g]
      BY <3>1 DEF IInv, Recorded, Sound
    <3>2. CASE g = f /\ built'[g] = NewSection(f) /\ (f \in Present \/ Hit(f))
      <4>1. keys[f] \in Nat
        BY <1>1 DEF IInv, Behind
      <4> QED BY <3>2, <4>1, NewSectionIs
    <3> QED BY <1>2, <3>1, <3>2
  <2>3. Sound(built)'
    BY <1>1, <2>2 DEF Sound
  <2> QED BY <1>1, <2>1, <2>3 DEF IInv, Recorded
<1>5. Working'
  <2>1. DOMAIN built' \subseteq DOMAIN keys
    BY <1>1, <1>2 DEF IInv, Working
  <2>2. ASSUME NEW g \in DOMAIN built', g \in DOMAIN seen.files, built'[g].key.stamp > 0
        PROVE  seen.files[g] <= built'[g].text
    <3>1. CASE g \in DOMAIN built /\ built'[g] = built[g]
      BY <1>1, <2>2, <3>1 DEF IInv, Working, Younger
    <3>2. CASE g = f /\ built'[g] = NewSection(f) /\ (f \in Present \/ Hit(f))
      <4>1. keys[f] > 0 /\ keys[f] <= NewSection(f).text
        BY <2>2, <3>2, NewSectionIs
      <4>2. seen.files[f] <= keys[f]
        BY <1>1, <2>2, <3>2, <4>1 DEF IInv, Working
      <4>3. seen.files[f] \in Nat
        BY <1>1, <2>2, <3>2, PrintIs DEF IInv, Recorded, Past
      <4>4. keys[f] \in Nat /\ NewSection(f).text \in Nat
        BY <1>1, <3>2, NewSectionIs DEF IInv, Behind
      <4> QED BY <3>2, <4>1, <4>2, <4>3, <4>4
    <3> QED BY <1>2, <3>1, <3>2
  <2>3. Younger(seen, built)'
    BY <1>1, <2>2 DEF Younger
  <2> QED BY <1>1, <2>1, <2>3 DEF IInv, Working, TooMany
<1> QED BY <1>3, <1>4, <1>5 DEF IInv

LEMMA CommitKeeps == ASSUME IInv, Commit PROVE IInv'
<1>1. seen # Unprinted /\ print' = seen /\ parsed' = built /\ step = "parse"
  BY DEF Commit, IInv, Recorded
<1>2. UNCHANGED <<disk, rootfile, now, limit>>
  BY DEF Commit, sources
<1>3. Past(print)' /\ Sound(parsed)' /\ Younger(print, parsed)'
  BY <1>1, <1>2 DEF IInv, Recorded, Working, Past, Sound, Younger
<1> QED BY <1>1, <1>3, ClearKeeps DEF Commit

-----------------------------------------------------------------------------
LEMMA StepKeeps == ASSUME IInv, [Next]_vars PROVE IInv'
<1>1. CASE Edit
  BY <1>1, EditKeeps
<1>2. CASE \E n \in Limit : Begin(n)
  BY <1>2, BeginKeeps
<1>3. CASE Sweep
  BY <1>3, StatKeeps, RefuseKeeps, ShortCutKeeps, DiscoverKeeps DEF Sweep, OverLimit
<1>4. CASE Plan
  BY <1>4, HeaderKeeps, RefuseKeeps, StartParseKeeps DEF Plan, NothingFound
<1>5. CASE Parsing
  BY <1>5, ClaimKeeps, ParseKeeps, RefuseKeeps, CommitKeeps DEF Parsing, WorkerDies
<1>6. CASE UNCHANGED vars
  BY <1>6 DEF vars, sources, index, local, IInv, DiskType, Recorded, Past, Sound, Younger,
              Behind, Working, TooMany
<1> QED BY <1>1, <1>2, <1>3, <1>4, <1>5, <1>6 DEF Next, Refresh

(* IInv is an inductive invariant: it holds in every reachable state.       *)
THEOREM Inductive == Spec => []IInv
BY Initially, StepKeeps, PTL DEF Spec

-----------------------------------------------------------------------------
(* How a refresh ends: with the index it had, if nothing has changed, with  *)
(* what its workers built, or with no index.                                *)
LEMMA Endings ==
  ASSUME IInv, [Next]_vars, step # "idle", step' = "idle"
  PROVE  \/ Refuse \/ ShortCut \/ Commit
<1>1. ~Edit
  BY EditEffect
<1>2. \A n \in Limit : ~Begin(n)
  BY DEF Begin
<1>3. \A f \in File : ~Stat(f) /\ ~Header(f) /\ ~Claim(f) /\ ~Parse(f)
  BY DEF Stat, Header, Claim, Parse
<1>4. ~Discover /\ ~StartParse
  BY DEF Discover, StartParse
<1>5. ~UNCHANGED vars
  BY DEF vars
<1> QED BY <1>1, <1>2, <1>3, <1>4, <1>5
        DEF Next, Refresh, Sweep, Plan, Parsing, OverLimit, NothingFound, WorkerDies

(* What is handed over, by the short cut or after a parse, is not older     *)
(* than what the sweep saw of it, although files are saved while the        *)
(* workers read (server.scala, Index.refresh).                              *)
THEOREM NothingStaleIsServed == Spec => ServedFresh
<1>1. IInv /\ [Next]_vars
        => [step # "idle" /\ step' = "idle" =>
              \A f \in DOMAIN parsed' : parsed'[f].key.stamp > 0 => ~Older(f)]_vars
  <2> SUFFICES ASSUME IInv, [Next]_vars, step # "idle", step' = "idle",
                      NEW f \in DOMAIN parsed', parsed'[f].key.stamp > 0,
                      f \in DOMAIN seen.files
               PROVE  ~(parsed'[f].text < seen.files[f])
    BY DEF Older
  <2>1. ~Refuse
    BY EmptyIs DEF Refuse
  <2>2. seen \in Stamps
    BY DEF IInv, Recorded, Past
  <2>3. seen.files[f] \in Nat
    BY <2>2, PrintIs
  <2>4. CASE ShortCut
    <3>1. print = seen /\ parsed' = parsed
      BY <2>4 DEF ShortCut, Unchanged, index
    <3>2. parsed[f].text \in Nat /\ seen.files[f] <= parsed[f].text
      BY <3>1 DEF IInv, Recorded, Sound, Younger
    <3> QED BY <2>3, <3>1, <3>2
  <2>5. CASE Commit
    <3>1. step = "parse" /\ parsed' = built
      BY <2>5 DEF Commit
    <3>2. built[f].text \in Nat /\ seen.files[f] <= built[f].text
      BY <3>1 DEF IInv, Recorded, Working, Sound, Younger
    <3> QED BY <2>3, <3>1, <3>2
  <2> QED BY <2>1, <2>4, <2>5, Endings
<1> QED BY <1>1, Inductive, PTL DEF Spec, ServedFresh

LEMMA FinitelyManyFiles == IsFiniteSet(File)
<1>1. DOMAIN Order = 1..Len(Order)
  BY OrderAssumption, LenProperties
<1> QED BY <1>1, OrderAssumption DEF File, IsFiniteSet

LEMMA FewerAreNotMore ==
  ASSUME NEW few, NEW many \in SUBSET File, few \subseteq many, limit \in Nat, ~TooMany(many)
  PROVE  ~TooMany(few)
<1>1. IsFiniteSet(many)
  BY FinitelyManyFiles, FS_Subset
<1>2. Cardinality(few) <= Cardinality(many) /\ Cardinality(few) \in Nat /\ Cardinality(many) \in Nat
  BY <1>1, FS_Subset, FS_CardinalityType
<1> QED BY <1>2 DEF TooMany

(* A request is answered from no more theories than it allows, whoever      *)
(* built the index and with which limit.                                    *)
THEOREM NeverOverTheLimit == Spec => LimitHolds
<1>1. IInv /\ [Next]_vars
        => [step # "idle" /\ step' = "idle" => ~TooMany(DOMAIN parsed')]_vars
  <2> SUFFICES ASSUME IInv, [Next]_vars, step # "idle", step' = "idle"
               PROVE  ~TooMany(DOMAIN parsed')
    OBVIOUS
  <2>1. limit \in Nat
    BY DEF IInv, Recorded
  <2>2. CASE Refuse
    <3>1. DOMAIN parsed' = {}
      BY <2>2, EmptyIs DEF Refuse
    <3> QED BY <2>1, <3>1, FS_EmptySet DEF TooMany
  <2>3. CASE ShortCut
    <3>1. ~TooMany(DOMAIN seen.files) /\ step = "stat" /\ todo = {} /\ parsed' = parsed
      BY <2>3 DEF ShortCut, Swept, index
    <3>2. DOMAIN parsed \subseteq DOMAIN seen.files
      BY <3>1 DEF IInv, Working
    <3>3. DOMAIN seen.files \subseteq File
      BY PrintIs DEF IInv, Recorded, Past
    <3> QED BY <2>1, <3>1, <3>2, <3>3, FewerAreNotMore
  <2>4. CASE Commit
    <3>1. step = "parse" /\ parsed' = built
      BY <2>4 DEF Commit
    <3>2. DOMAIN built \subseteq DOMAIN own /\ DOMAIN own \subseteq File /\ ~TooMany(DOMAIN own)
      BY <3>1 DEF IInv, Working
    <3> QED BY <2>1, <3>1, <3>2, FewerAreNotMore
  <2> QED BY <2>2, <2>3, <2>4, Endings
<1> QED BY <1>1, Inductive, PTL DEF Spec, LimitHolds

-----------------------------------------------------------------------------
(* The stamp a fingerprint has for a file; 0 is that of no file. *)
StampIn(p, f) == IF f \in DOMAIN p.files THEN p.files[f] ELSE 0
Agrees(p) == /\ p.root = rootfile.stamp
             /\ \A f \in File : StampIn(p, f) = disk[f].stamp

Headers == [f \in Declared \cap Present |-> disk[f].tag]
HasSession == rootfile.stamp > 0
ColdKey(f) == [stamp |-> disk[f].stamp, table |-> Table(Headers, f), session |-> HasSession]
Faithful(sections, files) ==
  /\ DOMAIN sections = files
  /\ \A f \in files : sections[f].key = ColdKey(f) /\ sections[f].text = disk[f].stamp

(* What the index recorded and is still so, the refresh finds so. *)
Unswept == IF step = "stat" THEN todo ELSE {}
Refound ==
  step # "idle" /\ print # Unprinted =>
    /\ rootfile.stamp > 0 /\ print.root = rootfile.stamp => seen.root = rootfile.stamp
    /\ \A f \in File \ Unswept :
         disk[f].stamp > 0 /\ StampIn(print, f) = disk[f].stamp
           => StampIn(seen, f) = disk[f].stamp

(* The sweep has found nothing that differs from the index. *)
SoFarEqual == /\ seen.root = print.root
              /\ \A f \in DOMAIN seen.files : seen.files[f] = StampIn(print, f)
IndexHolds ==
  print # Unprinted /\ Agrees(print) /\ (step = "idle" \/ (step = "stat" /\ SoFarEqual))
    => Faithful(parsed, Declared \cap Present)

PlanHolds ==
  step = "plan" /\ Agrees(seen) =>
    /\ session = HasSession /\ todo \subseteq Declared
    /\ DOMAIN own = (Declared \cap Present) \ todo
    /\ \A f \in DOMAIN own : own[f] = disk[f].tag

ParseHolds ==
  step = "parse" /\ Agrees(seen) =>
    /\ session = HasSession /\ own = Headers
    /\ \A f \in DOMAIN keys : keys[f] = disk[f].stamp
    /\ Faithful(built, DOMAIN own \ todo)

ColdInv == Refound /\ IndexHolds /\ PlanHolds /\ ParseHolds

-----------------------------------------------------------------------------
LEMMA FilesOf ==
  ASSUME IInv, NEW f \in File
  PROVE  /\ disk[f].stamp \in Nat /\ (f \in Present <=> disk[f].stamp > 0)
         /\ print # Unprinted => StampIn(print, f) \in Nat /\ StampIn(print, f) <= now
         /\ seen # Unprinted => StampIn(seen, f) \in Nat /\ StampIn(seen, f) <= now
<1>1. disk[f].stamp \in Nat /\ now \in Nat
  BY DEF IInv, DiskType, Stamp
<1>2. ASSUME NEW p, Past(p), p # Unprinted
      PROVE  StampIn(p, f) \in Nat /\ StampIn(p, f) <= now
  <2>1. p \in Stamps /\ \A g \in DOMAIN p.files : p.files[g] <= now
    BY <1>2 DEF Past
  <2> QED BY <1>1, <2>1, PrintIs DEF StampIn
<1> QED BY <1>1, <1>2 DEF IInv, Recorded, Present

(* An edit is a new stamp, or a deletion that some fingerprint has noticed. *)
LEMMA EditNoticed ==
  ASSUME IInv, Edit, Flicker = FALSE
  PROVE  \/ \E f \in File : \/ disk'[f].stamp > now
                            \/ disk'[f].stamp = 0 /\ disk[f].stamp > 0 /\ Noticed(f)
         \/ rootfile'.stamp > now
         \/ rootfile'.stamp = 0 /\ rootfile.stamp > 0 /\ RootNoticed
<1> USE DEF IInv, DiskType, Tags, Stamp
<1>1. ASSUME NEW f \in File, NEW tag \in Tags, Save(f, tag)
      PROVE  disk'[f].stamp > now
  BY <1>1, LimitAssumption DEF Save
<1>2. ASSUME NEW f \in File, Delete(f)
      PROVE  disk'[f].stamp = 0 /\ disk[f].stamp > 0 /\ Noticed(f)
  BY <1>2 DEF Delete, Present
<1>3. ASSUME NEW theories \in SUBSET File, SaveRoot(theories)
      PROVE  rootfile'.stamp > now
  BY <1>3, LimitAssumption DEF SaveRoot
<1>4. ASSUME DeleteRoot
      PROVE  rootfile'.stamp = 0 /\ rootfile.stamp > 0 /\ RootNoticed
  BY <1>4 DEF DeleteRoot
<1> QED BY <1>1, <1>2, <1>3, <1>4 DEF Edit, Tags

(* Sources that differ from a fingerprint do not return to it while it is   *)
(* the only one that could have noticed.                                    *)
LEMMA NoReturn ==
  ASSUME IInv, Edit, Flicker = FALSE, ~Forgotten,
         NEW p, p # Unprinted, Past(p),
         \A q \in Noted, f \in File :
           disk[f].stamp > 0 /\ f \in DOMAIN q.files /\ q.files[f] = disk[f].stamp
             => StampIn(p, f) > 0,
         \A q \in Noted : rootfile.stamp > 0 /\ q.root = rootfile.stamp => p.root > 0
  PROVE  ~(p.root = rootfile'.stamp /\ \A f \in File : StampIn(p, f) = disk'[f].stamp)
<1> SUFFICES ASSUME p.root = rootfile'.stamp, \A f \in File : StampIn(p, f) = disk'[f].stamp
             PROVE  FALSE
  OBVIOUS
<1>1. /\ p.root <= now /\ p.root \in Nat /\ now \in Nat
      /\ \A f \in File : StampIn(p, f) <= now /\ StampIn(p, f) \in Nat
  <2>1. p \in Stamps /\ p.root <= now /\ \A g \in DOMAIN p.files : p.files[g] <= now
    BY DEF Past
  <2>2. now \in Nat
    BY LimitAssumption DEF IInv, DiskType, Stamp
  <2> QED BY <2>1, <2>2, PrintIs DEF StampIn
<1>2. ASSUME NEW f \in File, disk'[f].stamp > now
      PROVE  FALSE
  BY <1>1, <1>2
<1>3. ASSUME NEW f \in File, disk'[f].stamp = 0, disk[f].stamp > 0, Noticed(f)
      PROVE  FALSE
  <2>1. PICK q \in Noted : f \in DOMAIN q.files /\ q.files[f] = disk[f].stamp
    BY <1>3 DEF Noticed
  <2>2. StampIn(p, f) > 0
    BY <1>3, <2>1
  <2> QED BY <1>3, <2>2
<1>4. ASSUME rootfile'.stamp > now
      PROVE  FALSE
  BY <1>1, <1>4
<1>5. ASSUME rootfile'.stamp = 0, rootfile.stamp > 0, RootNoticed
      PROVE  FALSE
  <2>1. PICK q \in Noted : q.root = rootfile.stamp
    BY <1>5 DEF RootNoticed
  <2>2. p.root > 0
    BY <1>5, <2>1
  <2> QED BY <1>5, <2>2
<1> QED BY <1>2, <1>3, <1>4, <1>5, EditNoticed

LEMMA EditKeepsCold ==
  ASSUME IInv, ColdInv, Edit, Flicker = FALSE
  PROVE  ColdInv'
<1>1. /\ step' = step /\ print' = print /\ parsed' = parsed /\ seen' = seen
      /\ own' = own /\ keys' = keys /\ built' = built /\ todo' = todo /\ session' = session
  BY EditEffect DEF index, local
<1>2. /\ \A f \in File : disk'[f] = disk[f] \/ disk'[f].stamp = 0 \/ disk'[f].stamp > now
      /\ \A f \in File : disk'[f].stamp \in Nat
      /\ rootfile'.stamp \in Nat /\ now \in Nat
  BY EditEffect, LimitAssumption DEF DiskType, IInv, Stamp
<1>3. rootfile' = rootfile \/ rootfile'.stamp = 0 \/ rootfile'.stamp > now
  BY LimitAssumption DEF Edit, Save, Delete, SaveRoot, DeleteRoot, IInv, DiskType, Stamp
<1>4. Past(print) /\ Past(seen) /\ (seen = Unprinted <=> step = "idle")
  BY DEF IInv, Recorded
<1>5. Refound'
  <2>1. SUFFICES ASSUME step # "idle", print # Unprinted
                 PROVE  /\ rootfile'.stamp > 0 /\ print.root = rootfile'.stamp
                             => seen.root = rootfile'.stamp
                        /\ \A f \in File \ Unswept :
                             disk'[f].stamp > 0 /\ StampIn(print, f) = disk'[f].stamp
                               => StampIn(seen, f) = disk'[f].stamp
    BY <1>1 DEF Refound, Unswept, StampIn
  <2>2. print.root <= now /\ print.root \in Nat
    BY <1>4, <2>1, PrintIs DEF Past
  <2>3. \A f \in File : StampIn(print, f) \in Nat /\ StampIn(print, f) <= now
    BY <2>1, FilesOf
  <2>4. rootfile'.stamp > 0 /\ print.root = rootfile'.stamp => seen.root = rootfile'.stamp
    BY <1>2, <1>3, <2>1, <2>2 DEF ColdInv, Refound
  <2>5. ASSUME NEW f \in File \ Unswept, disk'[f].stamp > 0, StampIn(print, f) = disk'[f].stamp
        PROVE  StampIn(seen, f) = disk'[f].stamp
    <3>1. disk'[f] = disk[f]
      BY <1>2, <2>3, <2>5
    <3> QED BY <2>1, <2>5, <3>1 DEF ColdInv, Refound
  <2> QED BY <2>4, <2>5
<1>6. IndexHolds'
  <2>1. SUFFICES ASSUME print # Unprinted, Agrees(print)',
                        step = "idle" \/ (step = "stat" /\ SoFarEqual)
                 PROVE  FALSE
    BY <1>1 DEF IndexHolds, SoFarEqual, StampIn
  <2>2. print.root = rootfile'.stamp /\ \A f \in File : StampIn(print, f) = disk'[f].stamp
    BY <1>1, <2>1 DEF Agrees, StampIn
  <2>3. ASSUME NEW q \in Noted
        PROVE  q.root = print.root
               /\ \A f \in DOMAIN q.files : f \in File => q.files[f] = StampIn(print, f)
    <3>1. q = print \/ (q = seen /\ seen # Unprinted)
      BY DEF Noted
    <3>2. CASE q = print
      BY <3>2 DEF StampIn
    <3>3. CASE q = seen /\ seen # Unprinted
      BY <1>4, <2>1, <3>3 DEF SoFarEqual
    <3> QED BY <3>1, <3>2, <3>3
  <2>4. ~Forgotten
    BY <2>1 DEF Forgotten
  <2> QED BY <1>4, <2>1, <2>2, <2>3, <2>4, NoReturn
<1>7. step \in {"plan", "parse"} => ~Agrees(seen)'
  <2>1. SUFFICES ASSUME step \in {"plan", "parse"}, Agrees(seen)'
                 PROVE  FALSE
    OBVIOUS
  <2>2. seen.root = rootfile'.stamp /\ \A f \in File : StampIn(seen, f) = disk'[f].stamp
    BY <1>1, <2>1 DEF Agrees, StampIn
  <2>3. ~Forgotten /\ seen # Unprinted
    BY <1>4, <2>1 DEF Forgotten
  <2>4. ASSUME NEW q \in Noted
        PROVE  /\ rootfile.stamp > 0 /\ q.root = rootfile.stamp => seen.root > 0
               /\ \A f \in File : disk[f].stamp > 0 /\ f \in DOMAIN q.files
                                  /\ q.files[f] = disk[f].stamp => StampIn(seen, f) > 0
    <3>1. q = seen \/ (q = print /\ print # Unprinted)
      BY DEF Noted
    <3>2. CASE q = seen
      BY <3>2 DEF StampIn
    <3>3. CASE q = print /\ print # Unprinted
      <4>1. Unswept = {}
        BY <2>1 DEF Unswept
      <4> QED BY <2>1, <3>3, <4>1 DEF ColdInv, Refound, StampIn
    <3> QED BY <3>1, <3>2, <3>3
  <2> QED BY <1>4, <2>2, <2>3, <2>4, NoReturn
<1>8. PlanHolds' /\ ParseHolds'
  BY <1>1, <1>7 DEF PlanHolds, ParseHolds
<1> QED BY <1>5, <1>6, <1>8 DEF ColdInv

-----------------------------------------------------------------------------
(* As long as the sources stay, so does what a cold run would make of them. *)
LEMMA SourcesStay ==
  ASSUME UNCHANGED sources
  PROVE  /\ UNCHANGED <<disk, rootfile, Declared, Present, HasSession, Headers>>
         /\ \A f : ColdKey(f)' = ColdKey(f)
<1>1. UNCHANGED <<disk, rootfile, Declared, Present, HasSession, Headers>>
  BY DEF sources, Declared, Present, HasSession, Headers
<1> QED BY <1>1 DEF ColdKey

LEMMA BeginKeepsCold ==
  ASSUME IInv, ColdInv, NEW n \in Limit, Begin(n), Outside = {}
  PROVE  ColdInv'
<1>1. /\ step = "idle" /\ step' = "stat" /\ UNCHANGED sources /\ print' = print /\ parsed' = parsed
      /\ seen' = [root |-> rootfile.stamp, files |-> Empty] /\ todo' = Watched
  BY DEF Begin, index
<1>2. UNCHANGED <<disk, rootfile, Declared, Present, HasSession, Headers>>
  BY <1>1, SourcesStay
<1>3. Refound'
  <2>1. \A f \in File \ Watched : ~(disk[f].stamp > 0)
    BY DEF Watched, Inside, Present
  <2> QED BY <1>1, <1>2, <2>1 DEF Refound, Unswept
<1>4. IndexHolds'
  <2>1. SUFFICES ASSUME print # Unprinted, Agrees(print)
                 PROVE  Faithful(parsed, Declared \cap Present)'
    BY <1>1, <1>2 DEF IndexHolds, Agrees, StampIn
  <2>2. Faithful(parsed, Declared \cap Present)
    BY <1>1, <2>1 DEF ColdInv, IndexHolds
  <2> QED BY <1>1, <1>2, <2>2, SourcesStay DEF Faithful
<1> QED BY <1>1, <1>3, <1>4 DEF ColdInv, PlanHolds, ParseHolds

LEMMA StatKeepsCold ==
  ASSUME IInv, ColdInv, NEW f \in File, Stat(f)
  PROVE  ColdInv'
<1>1. /\ step = "stat" /\ step' = "stat" /\ UNCHANGED sources /\ print' = print /\ parsed' = parsed
      /\ todo' = todo \ {f} /\ f \in todo
      /\ seen' = [seen EXCEPT !.files = With(@, f, disk[f].stamp)]
  BY DEF Stat, index
<1>2. UNCHANGED <<disk, rootfile, Declared, Present, HasSession, Headers>>
  BY <1>1, SourcesStay
<1>3. seen \in Stamps /\ f \notin DOMAIN seen.files
  BY <1>1 DEF IInv, Recorded, Past, Working
<1>4. disk[f].stamp \in Stamp
  BY LimitAssumption DEF IInv, DiskType, Stamp
<1> DEFINE X == With(seen.files, f, disk[f].stamp)
<1>5. seen'.root = seen.root /\ seen'.files = X
  BY <1>1, <1>3, <1>4, LongerPrint
<1>6. DOMAIN X = DOMAIN seen.files \cup {f}
  BY WithDomain
<1>7. X[f] = disk[f].stamp
  BY WithNew
<1>8. \A g \in DOMAIN seen.files : X[g] = seen.files[g]
  BY <1>3, WithOld
<1> HIDE DEF X
<1>9. Refound'
  <2>1. \A g \in File \ Unswept' :
          g # f => g \in File \ Unswept /\ StampIn(seen', g) = StampIn(seen, g)
    BY <1>1, <1>5, <1>6, <1>8 DEF Unswept, StampIn
  <2>2. StampIn(seen', f) = disk[f].stamp
    BY <1>5, <1>6, <1>7 DEF StampIn
  <2> QED BY <1>1, <1>2, <1>5, <2>1, <2>2 DEF Refound, ColdInv, StampIn
<1>10. IndexHolds'
  <2>1. SUFFICES ASSUME print # Unprinted, Agrees(print), SoFarEqual'
                 PROVE  Faithful(parsed, Declared \cap Present)'
    BY <1>1, <1>2 DEF IndexHolds, Agrees, StampIn
  <2>2. SoFarEqual
    BY <1>1, <1>5, <1>6, <1>8, <2>1 DEF SoFarEqual, StampIn
  <2>3. Faithful(parsed, Declared \cap Present)
    BY <1>1, <2>1, <2>2 DEF ColdInv, IndexHolds
  <2> QED BY <1>1, <1>2, <2>3, SourcesStay DEF Faithful
<1> QED BY <1>1, <1>9, <1>10 DEF ColdInv, PlanHolds, ParseHolds

LEMMA RefuseKeepsCold == ASSUME Refuse PROVE ColdInv'
BY DEF Refuse, ColdInv, Refound, IndexHolds, PlanHolds, ParseHolds

LEMMA ShortCutKeepsCold == ASSUME IInv, ColdInv, ShortCut PROVE ColdInv'
<1>1. /\ step = "stat" /\ step' = "idle" /\ UNCHANGED sources
      /\ print' = print /\ parsed' = parsed /\ print = seen
  BY DEF ShortCut, Swept, Unchanged, index
<1>2. UNCHANGED <<disk, rootfile, Declared, Present, HasSession, Headers>>
  BY <1>1, SourcesStay
<1>3. IndexHolds'
  <2>1. SUFFICES ASSUME print # Unprinted, Agrees(print)
                 PROVE  Faithful(parsed, Declared \cap Present)'
    BY <1>1, <1>2 DEF IndexHolds, Agrees, StampIn
  <2>2. SoFarEqual
    BY <1>1 DEF SoFarEqual, StampIn
  <2>3. Faithful(parsed, Declared \cap Present)
    BY <1>1, <2>1, <2>2 DEF ColdInv, IndexHolds
  <2> QED BY <1>1, <1>2, <2>3, SourcesStay DEF Faithful
<1> QED BY <1>1, <1>3 DEF ColdInv, Refound, PlanHolds, ParseHolds

LEMMA DiscoverKeepsCold == ASSUME IInv, ColdInv, Discover PROVE ColdInv'
<1>1. /\ step = "stat" /\ step' = "plan" /\ todo = {} /\ UNCHANGED sources
      /\ print' = print /\ seen' = seen /\ own' = own
      /\ session' = HasSession /\ todo' = Declared
  BY DEF Discover, Swept, index, HasSession
<1>2. UNCHANGED <<disk, rootfile, Declared, Present, HasSession, Headers>>
  BY <1>1, SourcesStay
<1>3. Refound'
  BY <1>1, <1>2 DEF ColdInv, Refound, Unswept, StampIn
<1>4. PlanHolds'
  BY <1>1, <1>2 DEF PlanHolds, IInv, Working
<1> QED BY <1>1, <1>3, <1>4 DEF ColdInv, IndexHolds, ParseHolds

LEMMA HeaderKeepsCold ==
  ASSUME IInv, ColdInv, NEW f \in File, Header(f)
  PROVE  ColdInv'
<1>1. /\ step = "plan" /\ step' = "plan" /\ UNCHANGED sources /\ f \in todo
      /\ print' = print /\ seen' = seen /\ session' = session /\ todo' = todo \ {f}
      /\ own' = IF f \in Present THEN With(own, f, disk[f].tag) ELSE own
  BY DEF Header, index
<1>2. UNCHANGED <<disk, rootfile, Declared, Present, HasSession, Headers>>
  BY <1>1, SourcesStay
<1>3. Refound'
  BY <1>1, <1>2 DEF ColdInv, Refound, Unswept, StampIn
<1>4. PlanHolds'
  <2>1. SUFFICES ASSUME Agrees(seen)
                 PROVE  /\ session = HasSession /\ todo' \subseteq Declared
                        /\ DOMAIN own' = (Declared \cap Present) \ todo'
                        /\ \A g \in DOMAIN own' : own'[g] = disk[g].tag
    BY <1>1, <1>2 DEF PlanHolds, Agrees, StampIn
  <2>2. /\ session = HasSession /\ todo \subseteq Declared
        /\ DOMAIN own = (Declared \cap Present) \ todo
        /\ \A g \in DOMAIN own : own[g] = disk[g].tag
    BY <1>1, <2>1 DEF ColdInv, PlanHolds
  <2>3. CASE f \notin Present
    BY <1>1, <2>2, <2>3
  <2>4. CASE f \in Present
    <3> DEFINE X == With(own, f, disk[f].tag)
    <3>1. own' = X
      BY <1>1, <2>4
    <3>2. DOMAIN X = DOMAIN own \cup {f}
      BY WithDomain
    <3>3. X[f] = disk[f].tag
      BY WithNew
    <3>4. \A g \in DOMAIN own : g # f => X[g] = own[g]
      BY WithOld
    <3> HIDE DEF X
    <3> QED BY <1>1, <2>2, <2>4, <3>1, <3>2, <3>3, <3>4
  <2> QED BY <2>3, <2>4
<1> QED BY <1>1, <1>3, <1>4 DEF ColdInv, IndexHolds, ParseHolds

LEMMA StartParseKeepsCold == ASSUME IInv, ColdInv, StartParse PROVE ColdInv'
<1>1. /\ step = "plan" /\ step' = "parse" /\ UNCHANGED sources /\ todo = {} /\ todo' = DOMAIN own
      /\ print' = print /\ seen' = seen /\ session' = session
      /\ own' = own /\ keys' = keys /\ built' = built
  BY DEF StartParse, Planned, index
<1>2. UNCHANGED <<disk, rootfile, Declared, Present, HasSession, Headers>>
  BY <1>1, SourcesStay
<1>3. Refound'
  BY <1>1, <1>2 DEF ColdInv, Refound, Unswept, StampIn
<1>4. ParseHolds'
  <2>1. SUFFICES ASSUME Agrees(seen)
                 PROVE  /\ session = HasSession /\ own = Headers
                        /\ \A f \in DOMAIN keys : keys[f] = disk[f].stamp
                        /\ Faithful(built, DOMAIN own \ DOMAIN own)'
    BY <1>1, <1>2 DEF ParseHolds, Agrees, StampIn, Faithful
  <2>2. /\ session = HasSession
        /\ DOMAIN own = Declared \cap Present
        /\ \A g \in DOMAIN own : own[g] = disk[g].tag
    BY <1>1, <2>1 DEF ColdInv, PlanHolds
  <2>3. own = Headers
    BY <2>2 DEF IInv, Working, Headers
  <2>4. DOMAIN keys = {} /\ DOMAIN built = {}
    BY <1>1 DEF IInv, Working
  <2> QED BY <1>1, <2>2, <2>3, <2>4 DEF Faithful
<1> QED BY <1>1, <1>3, <1>4 DEF ColdInv, IndexHolds, PlanHolds

LEMMA ClaimKeepsCold ==
  ASSUME IInv, ColdInv, NEW f \in File, Claim(f)
  PROVE  ColdInv'
<1>1. /\ step = "parse" /\ step' = "parse" /\ UNCHANGED sources /\ todo' = todo
      /\ print' = print /\ seen' = seen /\ session' = session /\ own' = own /\ built' = built
  BY DEF Claim, index
<1> DEFINE X == With(keys, f, disk[f].stamp)
<1>2. keys' = X
  BY DEF Claim
<1>3. DOMAIN X = DOMAIN keys \cup {f}
  BY WithDomain
<1>4. X[f] = disk[f].stamp
  BY WithNew
<1>5. \A g \in DOMAIN keys : g # f => X[g] = keys[g]
  BY WithOld
<1> HIDE DEF X
<1>6. UNCHANGED <<disk, rootfile, Declared, Present, HasSession, Headers>>
  BY <1>1, SourcesStay
<1>7. Refound'
  BY <1>1, <1>6 DEF ColdInv, Refound, Unswept, StampIn
<1>8. ParseHolds'
  <2>1. SUFFICES ASSUME Agrees(seen)
                 PROVE  /\ session = HasSession /\ own = Headers
                        /\ \A g \in DOMAIN X : X[g] = disk[g].stamp
                        /\ Faithful(built, DOMAIN own \ todo)'
    BY <1>1, <1>2, <1>6 DEF ParseHolds, Agrees, StampIn, Faithful
  <2>2. /\ session = HasSession /\ own = Headers
        /\ \A g \in DOMAIN keys : keys[g] = disk[g].stamp
        /\ Faithful(built, DOMAIN own \ todo)
    BY <1>1, <2>1 DEF ColdInv, ParseHolds
  <2>3. Faithful(built, DOMAIN own \ todo)'
    BY <1>1, <1>6, <2>2, SourcesStay DEF Faithful
  <2> QED BY <1>3, <1>4, <1>5, <2>2, <2>3
<1> QED BY <1>1, <1>7, <1>8 DEF ColdInv, IndexHolds, PlanHolds

LEMMA ParseKeepsCold ==
  ASSUME IInv, ColdInv, NEW f \in File, Parse(f)
  PROVE  ColdInv'
<1>1. /\ step = "parse" /\ step' = "parse" /\ UNCHANGED sources /\ todo' = todo \ {f}
      /\ f \in todo /\ f \in DOMAIN keys
      /\ print' = print /\ seen' = seen /\ session' = session /\ own' = own /\ keys' = keys
  BY DEF Parse, index
<1>2. UNCHANGED <<disk, rootfile, Declared, Present, HasSession, Headers>>
  BY <1>1, SourcesStay
<1>3. Refound'
  BY <1>1, <1>2 DEF ColdInv, Refound, Unswept, StampIn
<1>4. ParseHolds'
  <2>1. SUFFICES ASSUME Agrees(seen)
                 PROVE  /\ session = HasSession /\ own = Headers
                        /\ \A g \in DOMAIN keys : keys[g] = disk[g].stamp
                        /\ Faithful(built, DOMAIN own \ todo)'
    BY <1>1, <1>2 DEF ParseHolds, Agrees, StampIn, Faithful
  <2>2. /\ session = HasSession /\ own = Headers
        /\ \A g \in DOMAIN keys : keys[g] = disk[g].stamp
        /\ Faithful(built, DOMAIN own \ todo)
    BY <1>1, <2>1 DEF ColdInv, ParseHolds
  <2>3. f \in DOMAIN own /\ f \in Present /\ disk[f].stamp > 0
    <3>1. f \in DOMAIN own
      BY <1>1 DEF IInv, Working
    <3>2. f \in Present
      BY <2>2, <3>1 DEF Headers
    <3> QED BY <3>1, <3>2 DEF Present
  <2>4. Key(f) = ColdKey(f)
    BY <1>1, <2>2 DEF Key, ColdKey
  <2>5. NewSection(f).key = ColdKey(f) /\ NewSection(f).text = disk[f].stamp
    BY <1>1, <2>2, <2>3, <2>4, NewSectionIs
  <2>6. /\ DOMAIN built' = DOMAIN built \cup {f}
        /\ built'[f] = NewSection(f)
        /\ \A g \in DOMAIN built : g # f => built'[g] = built[g]
    BY <2>3, ParseAdds
  <2>7. DOMAIN built' = DOMAIN own \ todo'
    BY <1>1, <2>2, <2>3, <2>6 DEF Faithful
  <2>8. \A g \in DOMAIN built' : built'[g].key = ColdKey(g) /\ built'[g].text = disk[g].stamp
    BY <2>2, <2>5, <2>6 DEF Faithful
  <2>9. \A g : ColdKey(g)' = ColdKey(g)
    BY <1>1, SourcesStay
  <2> QED BY <1>1, <1>2, <2>2, <2>7, <2>8, <2>9 DEF Faithful
<1> QED BY <1>1, <1>3, <1>4 DEF ColdInv, IndexHolds, PlanHolds

LEMMA CommitKeepsCold == ASSUME IInv, ColdInv, Commit PROVE ColdInv'
<1>1. /\ step = "parse" /\ step' = "idle" /\ UNCHANGED sources /\ todo = {}
      /\ print' = seen /\ parsed' = built
  BY DEF Commit
<1>2. UNCHANGED <<disk, rootfile, Declared, Present, HasSession, Headers>>
  BY <1>1, SourcesStay
<1>3. IndexHolds'
  <2>1. SUFFICES ASSUME Agrees(seen)
                 PROVE  Faithful(parsed, Declared \cap Present)'
    BY <1>1, <1>2 DEF IndexHolds, Agrees, StampIn
  <2>2. own = Headers /\ Faithful(built, DOMAIN own \ todo)
    BY <1>1, <2>1 DEF ColdInv, ParseHolds
  <2>3. Faithful(built, Declared \cap Present)
    BY <1>1, <2>2 DEF Headers
  <2> QED BY <1>1, <1>2, <2>3, SourcesStay DEF Faithful
<1> QED BY <1>1, <1>3 DEF ColdInv, Refound, PlanHolds, ParseHolds

LEMMA StepKeepsCold ==
  ASSUME IInv, ColdInv, [Next]_vars, Flicker = FALSE, Outside = {}
  PROVE  ColdInv'
<1>1. CASE Edit
  BY <1>1, EditKeepsCold
<1>2. CASE \E n \in Limit : Begin(n)
  BY <1>2, BeginKeepsCold
<1>3. CASE Sweep
  BY <1>3, StatKeepsCold, RefuseKeepsCold, ShortCutKeepsCold, DiscoverKeepsCold DEF Sweep, OverLimit
<1>4. CASE Plan
  BY <1>4, HeaderKeepsCold, RefuseKeepsCold, StartParseKeepsCold DEF Plan, NothingFound
<1>5. CASE Parsing
  BY <1>5, ClaimKeepsCold, ParseKeepsCold, RefuseKeepsCold, CommitKeepsCold DEF Parsing, WorkerDies
<1>6. CASE UNCHANGED vars
  <2>1. /\ UNCHANGED <<step, print, parsed, seen, session, own, keys, built, todo>>
        /\ UNCHANGED sources
    BY <1>6 DEF vars, index, local
  <2>2. /\ UNCHANGED <<disk, rootfile, Declared, Present, HasSession, Headers>>
        /\ \A f : ColdKey(f)' = ColdKey(f)
    BY <2>1, SourcesStay
  <2>3. Refound' /\ PlanHolds'
    BY <2>1, <2>2 DEF ColdInv, Refound, Unswept, StampIn, PlanHolds, Agrees
  <2>4. IndexHolds' /\ ParseHolds'
    BY <2>1, <2>2 DEF ColdInv, IndexHolds, ParseHolds, SoFarEqual, Agrees, StampIn, Faithful
  <2> QED BY <2>3, <2>4 DEF ColdInv
<1> QED BY <1>1, <1>2, <1>3, <1>4, <1>5, <1>6 DEF Next, Refresh

(* The short cut answers as a cold run would: texts, keyword tables and     *)
(* sessions, whatever is saved or deleted between the reads of a refresh.   *)
(* Every theory lies below the project root, and no file comes and goes     *)
(* between two sweeps: where one does, the property fails.                  *)
THEOREM ShortCutIsCold ==
  ASSUME Outside = {}, Flicker = FALSE
  PROVE  Spec => []WarmIsCold
<1>1. Init => ColdInv
  BY DEF Init, ColdInv, Refound, IndexHolds, PlanHolds, ParseHolds
<1>2. Spec => []ColdInv
  <2>1. IInv /\ ColdInv /\ [Next]_vars => ColdInv'
    BY StepKeepsCold
  <2> QED BY <1>1, <2>1, Inductive, PTL DEF Spec
<1>3. IInv /\ ColdInv => WarmIsCold
  <2> SUFFICES ASSUME IInv, ColdInv, step = "idle", DOMAIN parsed # {}, print = Fingerprint
               PROVE  Warm = Cold
    BY DEF WarmIsCold
  <2>1. print # Unprinted
    BY DEF IInv, Recorded
  <2>2. Agrees(print)
    <3>1. print.root = rootfile.stamp
      BY DEF Fingerprint
    <3>2. DOMAIN print.files = Watched /\ \A f \in Watched : print.files[f] = disk[f].stamp
      BY DEF Fingerprint
    <3>3. \A f \in File \ Watched : disk[f].stamp = 0
      BY FilesOf DEF Watched, Inside
    <3> QED BY <3>1, <3>2, <3>3 DEF Agrees, StampIn
  <2>3. Faithful(parsed, Declared \cap Present)
    BY <2>1, <2>2 DEF ColdInv, IndexHolds
  <2>4. Cold = [f \in Declared \cap Present |->
                  [text |-> disk[f].stamp, table |-> Table(Headers, f), session |-> HasSession]]
    BY DEF Cold, Headers, HasSession
  <2>5. DOMAIN parsed = Declared \cap Present
    BY <2>3 DEF Faithful
  <2>6. \A f \in DOMAIN parsed : /\ parsed[f].text = disk[f].stamp
                                /\ parsed[f].key.table = Table(Headers, f)
                                /\ parsed[f].key.session = HasSession
    <3>1. \A f \in DOMAIN parsed : parsed[f].key = ColdKey(f) /\ parsed[f].text = disk[f].stamp
      BY <2>3, <2>5 DEF Faithful
    <3>2. \A f : ColdKey(f).table = Table(Headers, f) /\ ColdKey(f).session = HasSession
      BY DEF ColdKey
    <3> QED BY <3>1, <3>2
  <2> QED BY <2>4, <2>5, <2>6 DEF Warm
<1> QED BY <1>2, <1>3, Inductive, PTL
=============================================================================
