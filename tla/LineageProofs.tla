--------------------------- MODULE LineageProofs ---------------------------
(***************************************************************************)
(* What holds of Lineage for every set of devices, every bound on heads    *)
(* and every number of changes.                                            *)
(***************************************************************************)
EXTENDS Lineage, SequenceTheorems, FiniteSetTheorems, TLAPS

(***************************************************************************)
(* The inductive invariant.                                                *)
(***************************************************************************)
\* A change is made after all that is on its chain: it keeps their removals,
\* its number is above theirs, and it lists no key that it removes.
ChangeOK(cs, c) ==
  /\ cs[c].chain \subseteq 1 .. Len(cs)
  /\ \A b \in cs[c].chain :
       /\ cs[b].chain \subseteq cs[c].chain
       /\ cs[b].removes \subseteq cs[c].removes
       /\ cs[b].number < cs[c].number
  /\ cs[c].lists \cap cs[c].removes = {}

\* What a device that goes on has taken, kept and come to know.
DeviceOK(cs, d, follow, aside, known, at, took) ==
  /\ d \notin known
  /\ at \in {"applied", "closed"} =>
       /\ aside \cup {follow} \subseteq took
       /\ \A c \in took : cs[c].removes \subseteq known /\ d \notin cs[c].removes
       /\ \A c \in took : \E h \in aside \cup {follow} : c = h \/ c \in cs[h].chain
       /\ at = "applied" => cs[follow].lists \cap known = {}

\* What a command shows is made after all that it was shown over.
PromptOK(cs, d, shown) ==
  LET joined == shown.heads \cup {shown.over} IN
  shown.over # 0 =>
    /\ shown.over \in 1 .. Len(cs)
    /\ shown.change.chain = joined \cup (UNION {cs[h].chain : h \in joined})
    /\ \A h \in joined : /\ cs[h].removes \subseteq shown.change.removes
                         /\ cs[h].number < shown.change.number
    /\ d \in shown.change.lists /\ d \notin shown.change.removes
    /\ shown.change.lists \cap shown.change.removes = {}

ChangesInv == \A c \in Made : ChangeOK(changes, c)
DevicesInv == \A d \in Devices :
  DeviceOK(changes, d, follows[d], heads[d], knows[d], state[d], seen[d])
PromptsInv == \A d \in Devices : PromptOK(changes, d, prompt[d])

IInv == TypeOK /\ ChangesInv /\ DevicesInv /\ PromptsInv

-----------------------------------------------------------------------------
(***************************************************************************)
(* Changes that are made leave those there are as they were.               *)
(***************************************************************************)
LEMMA Appended ==
  ASSUME TypeOK, NEW new \in Change, changes' = Append(changes, new)
  PROVE  /\ changes' \in Seq(Change) /\ changes' # <<>>
         /\ Made' = Made \cup {Len(changes) + 1}
         /\ Len(changes) + 1 \notin Made
         /\ changes'[Len(changes) + 1] = new
         /\ \A c \in Made : changes'[c] = changes[c]
<1>1. changes \in Seq(Change) /\ Len(changes) \in Nat
  BY LenProperties DEF TypeOK
<1>2. /\ changes' \in Seq(Change)
      /\ Len(changes') = Len(changes) + 1
      /\ changes'[Len(changes) + 1] = new
      /\ \A c \in 1 .. Len(changes) : changes'[c] = changes[c]
  BY <1>1, AppendProperties
<1>3. changes' # <<>>
  BY <1>1, <1>2, EmptySeq
<1> QED
  BY <1>1, <1>2, <1>3 DEF Made

LEMMA ChangeTyped ==
  ASSUME TypeOK, NEW c \in Made
  PROVE  /\ changes[c] \in Change
         /\ c \in Nat \ {0}
BY ElementOfSeq, LenProperties DEF TypeOK, Made

LEMMA HeadsFinite ==
  ASSUME TypeOK, NEW d \in Devices
  PROVE  IsFiniteSet(heads[d]) /\ Cardinality(heads[d]) \in Nat
<1>1. Len(changes) \in Nat
  BY LenProperties DEF TypeOK
<1>2. IsFiniteSet(Made)
  BY <1>1, FS_Interval DEF Made
<1>3. heads[d] \in SUBSET Made
  BY DEF TypeOK
<1> QED
  BY <1>2, <1>3, FS_Subset, FS_CardinalityType

\* With heads at the bound and one more that cannot be kept, none was on the
\* chain of the one shown.
LEMMA NoneOnTheChain ==
  ASSUME TypeOK, NEW d \in Devices, NEW c \in Made,
         Cardinality(Apart(d, c)) + 1 >= MostHeads
  PROVE  Apart(d, c) = heads[d]
<1>1. IsFiniteSet(heads[d]) /\ Cardinality(heads[d]) \in Nat
  BY HeadsFinite
<1>2. Apart(d, c) \in SUBSET heads[d]
  BY DEF Apart
<1>3. Cardinality(Apart(d, c)) <= Cardinality(heads[d])
  BY <1>1, <1>2, FS_Subset
<1>4. Cardinality(Apart(d, c)) \in Nat
  BY <1>1, <1>2, FS_Subset, FS_CardinalityType
<1>5. Cardinality(heads[d]) < MostHeads
  BY DEF TypeOK
<1>6. Cardinality(heads[d]) = Cardinality(Apart(d, c))
  BY <1>1, <1>3, <1>4, <1>5, MostHeadsAssumption
<1> QED
  BY <1>1, <1>2, <1>6, FS_Subset

-----------------------------------------------------------------------------
(***************************************************************************)
(* A step of one device keeps the invariant where what it comes to is      *)
(* right.                                                                  *)
(***************************************************************************)
LEMMA OneDevice ==
  ASSUME IInv, NEW d \in Devices, UNCHANGED <<changes, prompt>>,
         NEW f \in Made, NEW h \in SUBSET Made, NEW k \in SUBSET Devices,
         NEW s \in {"applied", "closed", "removed", "notListed"}, NEW t \in SUBSET Made,
         Cardinality(h) < MostHeads,
         DeviceOK(changes, d, f, h, k, s, t),
         follows' = [follows EXCEPT ![d] = f],
         heads' = [heads EXCEPT ![d] = h],
         knows' = [knows EXCEPT ![d] = k],
         state' = [state EXCEPT ![d] = s],
         seen' = [seen EXCEPT ![d] = t]
  PROVE  IInv'
<1>1. TypeOK
  BY DEF IInv
<1>2. Made' = Made
  BY DEF Made
<1>3. TypeOK'
  <2>1. \A e \in Devices : Cardinality(heads'[e]) < MostHeads
    BY <1>1 DEF TypeOK
  <2> QED
    BY <1>1, <1>2, <2>1 DEF TypeOK
<1>4. ChangesInv' /\ PromptsInv'
  BY <1>2 DEF IInv, ChangesInv, PromptsInv
<1>5. ASSUME NEW e \in Devices
      PROVE  DeviceOK(changes', e, follows'[e], heads'[e], knows'[e], state'[e], seen'[e])
  <2>1. CASE e = d
    <3>1. /\ follows'[e] = f /\ heads'[e] = h /\ knows'[e] = k
          /\ state'[e] = s /\ seen'[e] = t
      BY <1>1, <2>1 DEF TypeOK
    <3> QED
      BY <2>1, <3>1
  <2>2. CASE e # d
    <3>1. /\ follows'[e] = follows[e] /\ heads'[e] = heads[e] /\ knows'[e] = knows[e]
          /\ state'[e] = state[e] /\ seen'[e] = seen[e]
      BY <1>1, <2>2 DEF TypeOK
    <3> QED
      BY <3>1 DEF IInv, DevicesInv
  <2> QED
    BY <2>1, <2>2
<1> QED
  BY <1>3, <1>4, <1>5 DEF IInv, DevicesInv

-----------------------------------------------------------------------------
(***************************************************************************)
(* What a device knows and keeps as it is shown a change.                  *)
(***************************************************************************)
\* What the invariant says of a device that goes on.
LEMMA GoesOn ==
  ASSUME IInv, NEW d \in Devices, Going(d)
  PROVE  /\ Keeps(d) \subseteq seen[d] /\ Keeps(d) \subseteq Made /\ seen[d] \subseteq Made
         /\ follows[d] \in Keeps(d) /\ follows[d] \in Made
         /\ heads[d] \subseteq Keeps(d) /\ Keeps(d) = heads[d] \cup {follows[d]}
         /\ d \notin knows[d] /\ knows[d] \subseteq Devices
         /\ \A c \in seen[d] : changes[c].removes \subseteq knows[d] /\ d \notin changes[c].removes
         /\ \A c \in seen[d] : BehindOneOf(c, Keeps(d))
         /\ state[d] = "applied" => Clear(knows[d], follows[d])
<1>1. DeviceOK(changes, d, follows[d], heads[d], knows[d], state[d], seen[d])
  BY DEF IInv, DevicesInv
<1>2. /\ follows[d] \in Made /\ heads[d] \subseteq Made /\ seen[d] \subseteq Made
      /\ knows[d] \subseteq Devices
  BY DEF IInv, TypeOK
<1> QED
  BY <1>1, <1>2 DEF DeviceOK, Keeps, Going, BehindOneOf, Clear

LEMMA KnowsWithTyped ==
  ASSUME IInv, NEW d \in Devices, NEW c \in Made, d \notin knows[d]
  PROVE  /\ KnowsWith(d, c) \subseteq Devices /\ d \notin KnowsWith(d, c)
         /\ knows[d] \subseteq KnowsWith(d, c)
         /\ d \notin changes[c].removes => changes[c].removes \subseteq KnowsWith(d, c)
         /\ changes[c].removes \subseteq knows[d] => KnowsWith(d, c) = knows[d]
<1>1. changes[c] \in Change /\ knows[d] \subseteq Devices
  BY ChangeTyped DEF IInv, TypeOK
<1> QED
  BY <1>1 DEF KnowsWith, Change

\* What is behind a change is behind all that has it on its chain.
LEMMA BehindOn ==
  ASSUME IInv, NEW c \in Made, NEW b, NEW a,
         b = c \/ b \in changes[c].chain, a = b \/ a \in changes[b].chain
  PROVE  a = c \/ a \in changes[c].chain
BY DEF IInv, ChangesInv, ChangeOK, Made

\* A change behind what a device keeps removes no more than it knows.
LEMMA NothingNew ==
  ASSUME IInv, NEW d \in Devices, Going(d), NEW c \in Made, BehindOneOf(c, Keeps(d))
  PROVE  changes[c].removes \subseteq knows[d] /\ d \notin changes[c].removes
<1>1. PICK h \in Keeps(d) : c = h \/ c \in changes[h].chain
  BY DEF BehindOneOf
<1>2. h \in Made /\ h \in seen[d]
  BY GoesOn
<1>3. changes[c].removes \subseteq changes[h].removes
  BY <1>1, <1>2 DEF IInv, ChangesInv, ChangeOK, Made
<1> QED
  BY <1>2, <1>3, GoesOn

-----------------------------------------------------------------------------
(***************************************************************************)
(* Each thing a change may be to a device that is shown it.                *)
(***************************************************************************)
LEMMA BehindKeeps ==
  ASSUME IInv, NEW d \in Devices, NEW c \in Made, Behind(d, c)
  PROVE  IInv'
<1>1. Going(d) /\ BehindOneOf(c, Keeps(d)) /\ UNCHANGED <<changes, prompt, follows, heads, state>>
  BY DEF Behind, IsShown
<1>2. knows' = [knows EXCEPT ![d] = KnowsWith(d, c)] /\ seen' = [seen EXCEPT ![d] = @ \cup {c}]
  BY DEF Behind, Learns, Takes
<1>3. KnowsWith(d, c) = knows[d]
  BY <1>1, GoesOn, NothingNew, KnowsWithTyped
<1>4. /\ follows' = [follows EXCEPT ![d] = follows[d]]
      /\ heads' = [heads EXCEPT ![d] = heads[d]]
      /\ state' = [state EXCEPT ![d] = state[d]]
      /\ seen' = [seen EXCEPT ![d] = seen[d] \cup {c}]
      /\ knows' = [knows EXCEPT ![d] = knows[d]]
  BY <1>1, <1>2, <1>3 DEF IInv, TypeOK
<1>5. DeviceOK(changes, d, follows[d], heads[d], knows[d], state[d], seen[d] \cup {c})
  BY <1>1, GoesOn, NothingNew DEF DeviceOK, BehindOneOf, Clear
<1>6. /\ follows[d] \in Made /\ heads[d] \in SUBSET Made /\ knows[d] \in SUBSET Devices
      /\ state[d] \in {"applied", "closed", "removed", "notListed"}
      /\ seen[d] \cup {c} \in SUBSET Made /\ Cardinality(heads[d]) < MostHeads
  BY DEF IInv, TypeOK
<1>7. UNCHANGED <<changes, prompt>>
  BY <1>1
<1> QED
  BY <1>7, <1>4, <1>5, <1>6, OneDevice, ZenonT(60), SMTT(60)

\* A device that stops keeps nothing.
LEMMA StopKeeps ==
  ASSUME IInv, NEW d \in Devices, NEW c \in Made, IsNews(d, c),
         NEW why \in {"removed", "notListed"}, Stop(d, c, why)
  PROVE  IInv'
<1>1. Going(d) /\ UNCHANGED <<changes, prompt>>
  BY DEF IsNews, IsShown
<1>2. /\ follows' = [follows EXCEPT ![d] = c]
      /\ heads' = [heads EXCEPT ![d] = {}]
      /\ knows' = [knows EXCEPT ![d] = KnowsWith(d, c)]
      /\ state' = [state EXCEPT ![d] = why]
      /\ seen' = [seen EXCEPT ![d] = seen[d] \cup {c}]
  BY DEF IsNews, Learns, Stop, Takes
<1>3. KnowsWith(d, c) \in SUBSET Devices /\ d \notin KnowsWith(d, c)
  BY <1>1, GoesOn, KnowsWithTyped
<1>4. DeviceOK(changes, d, c, {}, KnowsWith(d, c), why, seen[d] \cup {c})
  BY <1>3 DEF DeviceOK
<1>5. seen[d] \cup {c} \in SUBSET Made /\ Cardinality({}) < MostHeads
  BY FS_EmptySet, MostHeadsAssumption DEF IInv, TypeOK
<1>6. {} \in SUBSET Made /\ why \in {"applied", "closed", "removed", "notListed"}
  OBVIOUS
<1>7. UNCHANGED <<changes, prompt>>
  BY <1>1
<1> QED
  BY <1>2, <1>3, <1>4, <1>5, <1>6, <1>7, OneDevice, ZenonT(60), SMTT(60)

\* One that follows the change it is shown keeps the heads apart from it.
LEMMA ApplyKeeps ==
  ASSUME IInv, NEW d \in Devices, NEW c \in Made, ApplyShown(d, c)
  PROVE  IInv'
<1>1. /\ Going(d) /\ UNCHANGED <<changes, prompt>>
      /\ After(c, follows[d]) /\ d \in changes[c].lists /\ Clear(KnowsWith(d, c), c)
  BY DEF ApplyShown, IsNews, IsShown, Applies
<1>2. /\ follows' = [follows EXCEPT ![d] = c]
      /\ heads' = [heads EXCEPT ![d] = Apart(d, c)]
      /\ knows' = [knows EXCEPT ![d] = KnowsWith(d, c)]
      /\ state' = [state EXCEPT ![d] = "applied"]
      /\ seen' = [seen EXCEPT ![d] = seen[d] \cup {c}]
  BY DEF ApplyShown, IsNews, Learns, Follow, Takes
<1>3. d \notin changes[c].removes
  BY <1>1 DEF IInv, ChangesInv, ChangeOK
<1>4. /\ KnowsWith(d, c) \in SUBSET Devices /\ d \notin KnowsWith(d, c)
      /\ knows[d] \subseteq KnowsWith(d, c) /\ changes[c].removes \subseteq KnowsWith(d, c)
  BY <1>1, <1>3, GoesOn, KnowsWithTyped
<1>5. Apart(d, c) \subseteq heads[d] /\ Keeps(d) \subseteq (Apart(d, c) \cup {c}) \cup changes[c].chain
  BY <1>1 DEF Apart, Keeps, After
<1>6. ASSUME NEW b \in seen[d] \cup {c}
      PROVE  \E h \in Apart(d, c) \cup {c} : b = h \/ b \in changes[h].chain
  <2>1. CASE b = c
    BY <2>1
  <2>2. CASE b # c
    <3>1. PICK h \in Keeps(d) : b = h \/ b \in changes[h].chain
      BY <1>1, <2>2, GoesOn DEF BehindOneOf
    <3>2. CASE h \in Apart(d, c) \cup {c}
      BY <3>1, <3>2
    <3>3. CASE h \in changes[c].chain
      BY <3>1, <3>3, BehindOn
    <3> QED
      BY <1>5, <3>2, <3>3
  <2> QED
    BY <2>1, <2>2
<1>7. DeviceOK(changes, d, c, Apart(d, c), KnowsWith(d, c), "applied", seen[d] \cup {c})
  <2>1. Apart(d, c) \subseteq seen[d]
    BY <1>1, <1>5, GoesOn
  <2>2. changes[c].lists \cap KnowsWith(d, c) = {}
    BY <1>1 DEF Clear
  <2>3. \A b \in seen[d] : changes[b].removes \subseteq KnowsWith(d, c) /\ d \notin changes[b].removes
    BY <1>1, <1>4, GoesOn
  <2> QED
    BY <1>3, <1>4, <1>6, <2>1, <2>2, <2>3 DEF DeviceOK
<1>8. /\ Apart(d, c) \in SUBSET Made /\ seen[d] \cup {c} \in SUBSET Made
      /\ Cardinality(Apart(d, c)) < MostHeads
  <2>1. IsFiniteSet(heads[d]) /\ Cardinality(heads[d]) \in Nat /\ Cardinality(heads[d]) < MostHeads
    BY HeadsFinite DEF IInv, TypeOK
  <2>2. Cardinality(Apart(d, c)) <= Cardinality(heads[d]) /\ Cardinality(Apart(d, c)) \in Nat
    BY <1>5, <2>1, FS_Subset, FS_CardinalityType
  <2> QED
    BY <1>5, <2>1, <2>2, MostHeadsAssumption DEF IInv, TypeOK
<1> QED
  BY <1>1, <1>2, <1>4, <1>7, <1>8, OneDevice, ZenonT(60), SMTT(60)

\* One that sets it aside is closed where its own change is not clear by it.
LEMMA SetAsideKeeps ==
  ASSUME IInv, NEW d \in Devices, NEW c \in Made, SetAside(d, c)
  PROVE  IInv'
<1> DEFINE h == Apart(d, c) \cup {c}
           s == IF Clear(KnowsWith(d, c), follows[d]) THEN state[d] ELSE "closed"
<1>1. /\ Going(d) /\ UNCHANGED <<changes, prompt>> /\ d \notin changes[c].removes
      /\ UNCHANGED follows /\ Cardinality(Apart(d, c)) + 1 < MostHeads
  BY DEF SetAside, IsAside, IsNews, IsShown
<1>2. /\ follows' = [follows EXCEPT ![d] = follows[d]]
      /\ heads' = [heads EXCEPT ![d] = h]
      /\ knows' = [knows EXCEPT ![d] = KnowsWith(d, c)]
      /\ state' = [state EXCEPT ![d] = s]
      /\ seen' = [seen EXCEPT ![d] = seen[d] \cup {c}]
  BY <1>1 DEF SetAside, IsAside, IsNews, Learns, Takes, IInv, TypeOK
<1>3. /\ KnowsWith(d, c) \in SUBSET Devices /\ d \notin KnowsWith(d, c)
      /\ knows[d] \subseteq KnowsWith(d, c) /\ changes[c].removes \subseteq KnowsWith(d, c)
  BY <1>1, GoesOn, KnowsWithTyped
<1>4. /\ Apart(d, c) \subseteq heads[d]
      /\ Keeps(d) \subseteq (h \cup {follows[d]}) \cup changes[c].chain
  BY DEF Apart, Keeps
<1>5. ASSUME NEW b \in seen[d] \cup {c}
      PROVE  \E x \in h \cup {follows[d]} : b = x \/ b \in changes[x].chain
  <2>1. CASE b = c
    BY <2>1
  <2>2. CASE b # c
    <3>1. PICK x \in Keeps(d) : b = x \/ b \in changes[x].chain
      BY <1>1, <2>2, GoesOn DEF BehindOneOf
    <3>2. CASE x \in h \cup {follows[d]}
      BY <3>1, <3>2
    <3>3. CASE x \in changes[c].chain
      BY <3>1, <3>3, BehindOn
    <3> QED
      BY <1>4, <3>2, <3>3
  <2> QED
    BY <2>1, <2>2
<1>6. DeviceOK(changes, d, follows[d], h, KnowsWith(d, c), s, seen[d] \cup {c})
  <2>1. h \cup {follows[d]} \subseteq seen[d] \cup {c}
    BY <1>1, <1>4, GoesOn
  <2>2. s = "applied" => changes[follows[d]].lists \cap KnowsWith(d, c) = {}
    BY DEF Clear
  <2>3. \A b \in seen[d] : changes[b].removes \subseteq KnowsWith(d, c) /\ d \notin changes[b].removes
    BY <1>1, <1>3, GoesOn
  <2> HIDE DEF h, s
  <2> QED
    BY <1>1, <1>3, <1>5, <2>1, <2>2, <2>3 DEF DeviceOK
<1>7. /\ h \in SUBSET Made /\ seen[d] \cup {c} \in SUBSET Made /\ Cardinality(h) < MostHeads
  <2>1. IsFiniteSet(Apart(d, c))
    BY <1>4, HeadsFinite, FS_Subset DEF IInv
  <2>2. Cardinality(Apart(d, c)) \in Nat
    BY <2>1, FS_CardinalityType
  <2>3. Cardinality(h) = IF c \in Apart(d, c) THEN Cardinality(Apart(d, c))
                                             ELSE Cardinality(Apart(d, c)) + 1
    BY <2>1, FS_AddElement
  <2>4. Cardinality(h) < MostHeads
    <3> HIDE DEF h
    <3> QED
      BY <1>1, <2>2, <2>3, MostHeadsAssumption
  <2> QED
    BY <1>4, <2>4 DEF IInv, TypeOK
<1>8. follows[d] \in Made /\ s \in {"applied", "closed", "removed", "notListed"}
  BY DEF IInv, TypeOK
<1>9. UNCHANGED <<changes, prompt>>
  BY <1>1
<1> HIDE DEF h, s
<1> QED
  BY <1>2, <1>3, <1>6, <1>7, <1>8, <1>9, OneDevice, ZenonT(60), SMTT(60)

\* One past the bound keeps all that it kept, and is closed.
LEMMA PastBoundKeeps ==
  ASSUME IInv, NEW d \in Devices, NEW c \in Made, PastBound(d, c)
  PROVE  IInv'
<1>1. /\ Going(d) /\ UNCHANGED <<changes, prompt, follows, seen>>
      /\ d \notin changes[c].removes /\ Cardinality(Apart(d, c)) + 1 >= MostHeads
  BY DEF PastBound, IsAside, IsNews, IsShown
<1>2. Apart(d, c) = heads[d]
  BY <1>1, NoneOnTheChain DEF IInv
<1>3. /\ follows' = [follows EXCEPT ![d] = follows[d]]
      /\ heads' = [heads EXCEPT ![d] = heads[d]]
      /\ knows' = [knows EXCEPT ![d] = KnowsWith(d, c)]
      /\ state' = [state EXCEPT ![d] = "closed"]
      /\ seen' = [seen EXCEPT ![d] = seen[d]]
  BY <1>1, <1>2 DEF PastBound, IsAside, IsNews, Learns, IInv, TypeOK
<1>4. /\ KnowsWith(d, c) \in SUBSET Devices /\ d \notin KnowsWith(d, c)
      /\ knows[d] \subseteq KnowsWith(d, c)
  BY <1>1, GoesOn, KnowsWithTyped
<1>5. DeviceOK(changes, d, follows[d], heads[d], KnowsWith(d, c), "closed", seen[d])
  BY <1>1, <1>4, GoesOn DEF DeviceOK, BehindOneOf
<1>6. /\ follows[d] \in Made /\ heads[d] \in SUBSET Made /\ seen[d] \in SUBSET Made
      /\ Cardinality(heads[d]) < MostHeads
  BY DEF IInv, TypeOK
<1>7. UNCHANGED <<changes, prompt>>
  BY <1>1
<1> QED
  BY <1>3, <1>4, <1>5, <1>6, <1>7, OneDevice, ZenonT(60), SMTT(60)

\* One that only learns closes where its change is not clear any more.
LEMMA KnowShownKeeps ==
  ASSUME IInv, NEW d \in Devices, NEW c \in Made, KnowShown(d, c)
  PROVE  IInv'
<1> DEFINE s == IF Clear(KnowsWith(d, c), follows[d]) THEN state[d] ELSE "closed"
<1>1. /\ Going(d) /\ UNCHANGED <<changes, follows, heads, prompt, seen>>
      /\ d \notin changes[c].removes
  BY DEF KnowShown, Going
<1>2. /\ follows' = [follows EXCEPT ![d] = follows[d]]
      /\ heads' = [heads EXCEPT ![d] = heads[d]]
      /\ knows' = [knows EXCEPT ![d] = KnowsWith(d, c)]
      /\ state' = [state EXCEPT ![d] = s]
      /\ seen' = [seen EXCEPT ![d] = seen[d]]
  BY <1>1 DEF KnowShown, Learns, IInv, TypeOK
<1>3. /\ KnowsWith(d, c) \in SUBSET Devices /\ d \notin KnowsWith(d, c)
      /\ knows[d] \subseteq KnowsWith(d, c)
  BY <1>1, GoesOn, KnowsWithTyped
<1>4. DeviceOK(changes, d, follows[d], heads[d], KnowsWith(d, c), s, seen[d])
  <2>1. s = "applied" => changes[follows[d]].lists \cap KnowsWith(d, c) = {}
    BY DEF Clear
  <2> HIDE DEF s
  <2> QED
    BY <1>1, <1>3, <2>1, GoesOn DEF DeviceOK, BehindOneOf
<1>5. /\ follows[d] \in Made /\ heads[d] \in SUBSET Made /\ seen[d] \in SUBSET Made
      /\ Cardinality(heads[d]) < MostHeads
      /\ s \in {"applied", "closed", "removed", "notListed"}
  BY DEF IInv, TypeOK
<1>6. UNCHANGED <<changes, prompt>>
  BY <1>1
<1> HIDE DEF s
<1> QED
  BY <1>2, <1>3, <1>4, <1>5, <1>6, OneDevice, ZenonT(60), SMTT(60)

\* One that moves keeps the change it left, where that is apart.
LEMMA MoveKeeps ==
  ASSUME IInv, NEW d \in Devices, Move(d)
  PROVE  IInv'
<1>1. PICK to \in Open(d) :
        /\ Going(d) /\ UNCHANGED <<changes, knows, prompt, seen>>
        /\ Follow(d, to, (Keeps(d) \ {to}) \ changes[to].chain)
  BY DEF Move
<1> DEFINE h == (Keeps(d) \ {to}) \ changes[to].chain
<1>2. to \in heads[d] /\ to \in Made /\ d \in changes[to].lists /\ Clear(knows[d], to)
  BY <1>1, GoesOn DEF Open
<1>3. /\ follows' = [follows EXCEPT ![d] = to]
      /\ heads' = [heads EXCEPT ![d] = h]
      /\ knows' = [knows EXCEPT ![d] = knows[d]]
      /\ state' = [state EXCEPT ![d] = "applied"]
      /\ seen' = [seen EXCEPT ![d] = seen[d]]
  BY <1>1 DEF Follow, IInv, TypeOK
<1>4. ASSUME NEW b \in seen[d]
      PROVE  \E x \in h \cup {to} : b = x \/ b \in changes[x].chain
  <2>1. PICK x \in Keeps(d) : b = x \/ b \in changes[x].chain
    BY <1>1, GoesOn DEF BehindOneOf
  <2>2. CASE x \in changes[to].chain
    BY <1>2, <2>1, <2>2, BehindOn
  <2> QED
    BY <2>1, <2>2
<1>5. DeviceOK(changes, d, to, h, knows[d], "applied", seen[d])
  <2>1. h \cup {to} \subseteq seen[d]
    BY <1>1, <1>2, GoesOn
  <2>2. changes[to].lists \cap knows[d] = {}
    BY <1>2 DEF Clear
  <2> HIDE DEF h
  <2> QED
    BY <1>1, <1>4, <2>1, <2>2, GoesOn DEF DeviceOK
<1>6. /\ to \in Made /\ h \in SUBSET Made /\ knows[d] \in SUBSET Devices /\ seen[d] \in SUBSET Made
  BY <1>1, <1>2, GoesOn
<1>7. Cardinality(h) < MostHeads
  <2> DEFINE rest == heads[d] \ {to}
  <2>1. IsFiniteSet(heads[d]) /\ Cardinality(heads[d]) \in Nat /\ Cardinality(heads[d]) < MostHeads
    BY HeadsFinite DEF IInv, TypeOK
  <2>2. IsFiniteSet(rest) /\ Cardinality(rest) = Cardinality(heads[d]) - 1
    BY <1>2, <2>1, FS_RemoveElement
  <2>3. /\ IsFiniteSet(rest \cup {follows[d]})
        /\ Cardinality(rest \cup {follows[d]}) <= Cardinality(heads[d])
    <3>1. /\ IsFiniteSet(rest \cup {follows[d]})
          /\ Cardinality(rest \cup {follows[d]})
               = IF follows[d] \in rest THEN Cardinality(rest) ELSE Cardinality(rest) + 1
      BY <2>2, FS_AddElement
    <3> HIDE DEF rest
    <3> QED
      BY <2>1, <2>2, <3>1
  <2>4. h \in SUBSET (rest \cup {follows[d]})
    BY DEF Keeps
  <2>5. Cardinality(h) <= Cardinality(rest \cup {follows[d]}) /\ Cardinality(h) \in Nat
        /\ Cardinality(rest \cup {follows[d]}) \in Nat
    BY <2>3, <2>4, FS_Subset, FS_CardinalityType
  <2> HIDE DEF h, rest
  <2> QED
    BY <2>1, <2>3, <2>5, MostHeadsAssumption
<1>8. UNCHANGED <<changes, prompt>>
  BY <1>1
<1> HIDE DEF h
<1> QED
  BY <1>3, <1>5, <1>6, <1>7, <1>8, OneDevice, ZenonT(60), SMTT(60)

-----------------------------------------------------------------------------
(***************************************************************************)
(* The changes that commands make.                                         *)
(***************************************************************************)
\* What the invariant says of a prompt that is answered as it was shown.
LEMMA Answer ==
  ASSUME IInv, NEW d \in Devices, prompt[d].over # 0, AsShown(d)
  PROVE  LET new == prompt[d].change IN
         /\ Going(d) /\ new \in Change
         /\ Keeps(d) \subseteq new.chain /\ new.chain \subseteq Made
         /\ seen[d] \subseteq new.chain /\ knows[d] \subseteq new.removes
         /\ \A b \in new.chain : /\ changes[b].chain \subseteq new.chain
                                 /\ changes[b].removes \subseteq new.removes
                                 /\ changes[b].number < new.number
         /\ d \in new.lists /\ d \notin new.removes /\ new.lists \cap new.removes = {}
<1> DEFINE new == prompt[d].change
<1>1. /\ Going(d) /\ prompt[d].over = follows[d] /\ prompt[d].heads = heads[d]
      /\ knows[d] \subseteq new.removes
  BY DEF AsShown
<1>2. new \in Change
  BY DEF IInv, TypeOK
<1>3. PromptOK(changes, d, prompt[d])
  BY DEF IInv, PromptsInv
<1>4. /\ new.chain = Keeps(d) \cup (UNION {changes[h].chain : h \in Keeps(d)})
      /\ \A h \in Keeps(d) : /\ changes[h].removes \subseteq new.removes
                             /\ changes[h].number < new.number
      /\ d \in new.lists /\ d \notin new.removes /\ new.lists \cap new.removes = {}
  BY <1>1, <1>3 DEF PromptOK, Keeps
<1>5. Keeps(d) \subseteq Made
  BY <1>1, GoesOn
<1>6. new.chain \subseteq Made
  BY <1>4, <1>5 DEF IInv, ChangesInv, ChangeOK, Made
<1>7. ASSUME NEW b \in new.chain
      PROVE  /\ changes[b].chain \subseteq new.chain
             /\ changes[b].removes \subseteq new.removes
             /\ changes[b].number < new.number
  <2>1. PICK h \in Keeps(d) : b = h \/ b \in changes[h].chain
    BY <1>4
  <2>2. h \in Made /\ changes[h].chain \subseteq new.chain
    BY <1>4, <1>5
  <2>3. CASE b = h
    BY <1>4, <2>2, <2>3
  <2>4. CASE b \in changes[h].chain
    <3>1. /\ changes[b].chain \subseteq changes[h].chain
          /\ changes[b].removes \subseteq changes[h].removes
          /\ changes[b].number < changes[h].number
      BY <2>2, <2>4 DEF IInv, ChangesInv, ChangeOK
    <3>2. changes[h].removes \subseteq new.removes /\ changes[h].number < new.number
      BY <1>4
    <3>3. changes[b].number \in Nat /\ changes[h].number \in Nat /\ new.number \in Nat
      BY <1>2, <1>6, <2>2, ChangeTyped DEF IInv, Change
    <3> QED
      BY <2>2, <3>1, <3>2, <3>3
  <2> QED
    BY <2>1, <2>3, <2>4
<1>8. seen[d] \subseteq new.chain
  BY <1>1, <1>4, GoesOn DEF BehindOneOf
<1> HIDE DEF new
<1>9. QED
  BY <1>1, <1>2, <1>4, <1>6, <1>7, <1>8 DEF new

LEMMA MakeKeeps ==
  ASSUME IInv, NEW d \in Devices, Make(d)
  PROVE  IInv'
<1> DEFINE new == prompt[d].change
           n == Len(changes) + 1
<1>1. /\ prompt[d].over # 0 /\ AsShown(d)
      /\ prompt' = [prompt EXCEPT ![d] = NoPrompt]
      /\ changes' = Append(changes, new)
      /\ follows' = [follows EXCEPT ![d] = n]
      /\ heads' = [heads EXCEPT ![d] = heads[d] \ new.chain]
      /\ state' = [state EXCEPT ![d] = "applied"]
      /\ seen' = [seen EXCEPT ![d] = seen[d] \cup {n}]
      /\ knows' = [knows EXCEPT ![d] = knows[d] \cup new.removes]
  BY DEF Make, Answered, Follow, Takes
<1>2. /\ Going(d) /\ new \in Change /\ heads[d] \subseteq new.chain
      /\ new.chain \subseteq Made /\ seen[d] \subseteq new.chain /\ knows[d] \subseteq new.removes
      /\ \A b \in new.chain : /\ changes[b].chain \subseteq new.chain
                              /\ changes[b].removes \subseteq new.removes
                              /\ changes[b].number < new.number
      /\ d \in new.lists /\ d \notin new.removes /\ new.lists \cap new.removes = {}
  BY <1>1, Answer DEF Keeps
<1> HIDE DEF new
<1>3. /\ changes' \in Seq(Change) /\ changes' # <<>>
      /\ Made' = Made \cup {n} /\ n \notin Made /\ changes'[n] = new
      /\ \A c \in Made : changes'[c] = changes[c]
  BY <1>1, <1>2, Appended DEF IInv
<1>4. Made = 1 .. Len(changes) /\ Made' = 1 .. Len(changes')
  BY DEF Made
<1> HIDE DEF n
<1>5. heads[d] \ new.chain = {} /\ Cardinality({}) < MostHeads
  BY <1>2, FS_EmptySet, MostHeadsAssumption
<1>6. TypeOK'
  <2>1. \A e \in Devices : Cardinality(heads'[e]) < MostHeads
    BY <1>1, <1>5 DEF IInv, TypeOK
  <2>2. NoPrompt \in [over : Nat, heads : SUBSET Made', change : Change]
    BY DEF NoPrompt, First, Change
  <2>3. prompt' \in [Devices -> [over : Nat, heads : SUBSET Made', change : Change]]
    <3>1. ASSUME NEW e \in Devices
          PROVE  prompt[e] \in [over : Nat, heads : SUBSET Made', change : Change]
      <4>1. prompt[e] \in [over : Nat, heads : SUBSET Made, change : Change]
        BY DEF IInv, TypeOK
      <4> QED
        BY <1>3, <4>1
    <3> QED
      BY <1>1, <2>2, <3>1 DEF IInv, TypeOK
  <2>4. new.removes \subseteq Devices
    BY <1>2 DEF Change
  <2>5. /\ follows' \in [Devices -> Made'] /\ heads' \in [Devices -> SUBSET Made']
        /\ seen' \in [Devices -> SUBSET Made'] /\ knows' \in [Devices -> SUBSET Devices]
        /\ state' \in [Devices -> {"applied", "closed", "removed", "notListed"}]
    BY <1>1, <1>3, <2>4 DEF IInv, TypeOK
  <2> QED
    BY <1>3, <2>1, <2>3, <2>5 DEF TypeOK
<1>7. ASSUME NEW c \in Made'
      PROVE  ChangeOK(changes', c)
  <2>1. CASE c \in Made
    <3>1. ChangeOK(changes, c)
      BY <2>1 DEF IInv, ChangesInv
    <3> QED
      BY <1>3, <1>4, <2>1, <3>1 DEF ChangeOK
  <2>2. CASE c = n
    <3>1. new.chain \subseteq Made'
      BY <1>2, <1>3
    <3> QED
      BY <1>2, <1>3, <1>4, <2>2, <3>1 DEF ChangeOK
  <2> QED
    BY <1>3, <2>1, <2>2
<1>8. ASSUME NEW e \in Devices
      PROVE  DeviceOK(changes', e, follows'[e], heads'[e], knows'[e], state'[e], seen'[e])
  <2>1. CASE e = d
    <3>1. /\ follows'[e] = n /\ heads'[e] = {} /\ state'[e] = "applied"
          /\ knows'[e] = knows[d] \cup new.removes /\ seen'[e] = seen[d] \cup {n}
      BY <1>1, <1>5, <2>1 DEF IInv, TypeOK
    <3>2. knows[d] \cup new.removes = new.removes
      BY <1>2
    <3>3. ASSUME NEW b \in seen[d]
          PROVE  changes'[b].removes \subseteq new.removes
      BY <1>2, <1>3
    <3>4. DeviceOK(changes', d, n, {}, new.removes, "applied", seen[d] \cup {n})
      BY <1>2, <1>3, <3>3 DEF DeviceOK
    <3> QED
      BY <2>1, <3>1, <3>2, <3>4
  <2>2. CASE e # d
    <3>1. /\ follows'[e] = follows[e] /\ heads'[e] = heads[e] /\ knows'[e] = knows[e]
          /\ state'[e] = state[e] /\ seen'[e] = seen[e]
      BY <1>1, <2>2 DEF IInv, TypeOK
    <3>2. DeviceOK(changes, e, follows[e], heads[e], knows[e], state[e], seen[e])
      BY DEF IInv, DevicesInv
    <3>3. follows[e] \in Made /\ heads[e] \subseteq Made /\ seen[e] \subseteq Made
      BY DEF IInv, TypeOK
    <3>4. DeviceOK(changes', e, follows[e], heads[e], knows[e], state[e], seen[e])
      BY <1>3, <3>2, <3>3 DEF DeviceOK
    <3> QED
      BY <3>1, <3>4
  <2> QED
    BY <2>1, <2>2
<1>9. ASSUME NEW e \in Devices
      PROVE  PromptOK(changes', e, prompt'[e])
  <2>1. CASE e = d
    <3>1. prompt'[e].over = 0
      BY <1>1, <2>1 DEF IInv, TypeOK, NoPrompt
    <3> QED
      BY <3>1 DEF PromptOK
  <2>2. CASE e # d /\ prompt[e].over # 0
    <3>1. prompt'[e] = prompt[e] /\ prompt[e].heads \subseteq Made
      BY <1>1, <2>2 DEF IInv, TypeOK
    <3>2. PromptOK(changes, e, prompt[e])
      BY DEF IInv, PromptsInv
    <3> DEFINE joined == prompt[e].heads \cup {prompt[e].over}
    <3>3. joined \subseteq Made
      BY <1>4, <2>2, <3>1, <3>2 DEF PromptOK
    <3>4. \A h \in joined : changes'[h] = changes[h]
      BY <1>3, <3>3
    <3>5. (UNION {changes'[h].chain : h \in joined}) = (UNION {changes[h].chain : h \in joined})
      BY <3>4
    <3>6. prompt[e].over \in 1 .. Len(changes')
      BY <1>3, <1>4, <3>3
    <3> QED
      BY <2>2, <3>1, <3>2, <3>4, <3>5, <3>6 DEF PromptOK
  <2>3. CASE e # d /\ prompt[e].over = 0
    <3>1. prompt'[e] = prompt[e]
      BY <1>1, <2>3 DEF IInv, TypeOK
    <3> QED
      BY <2>3, <3>1 DEF PromptOK
  <2> QED
    BY <2>1, <2>2, <2>3
<1> QED
  BY <1>6, <1>7, <1>8, <1>9 DEF IInv, ChangesInv, DevicesInv, PromptsInv

\* What is shown at a prompt is made after all that it is shown over.
LEMMA AskKeeps ==
  ASSUME IInv, NEW d \in Devices, Ask(d)
  PROVE  IInv'
<1>1. PICK goes, out \in SUBSET (Devices \ {d}), top \in Keeps(d) :
        /\ Going(d) /\ UNCHANGED <<changes, devices>>
        /\ \A h \in Keeps(d) : changes[h].number <= changes[top].number
        /\ prompt' = [prompt EXCEPT ![d] =
             [over |-> follows[d], heads |-> heads[d], change |-> Prepared(d, top, goes, out)]]
  BY DEF Ask
<1> DEFINE new == Prepared(d, top, goes, out)
           shown == [over |-> follows[d], heads |-> heads[d], change |-> new]
<1>2. /\ new.number = changes[top].number + 1
      /\ new.chain = Keeps(d) \cup (UNION {changes[h].chain : h \in Keeps(d)})
      /\ new.removes = (UNION {changes[h].removes : h \in Keeps(d)}) \cup knows[d] \cup goes
      /\ new.lists = ((UNION {changes[h].lists : h \in Keeps(d)}) \ (new.removes \cup out)) \cup {d}
      /\ new = [number |-> new.number, chain |-> new.chain, lists |-> new.lists,
                removes |-> new.removes]
  <2>1. /\ new.number = changes[top].number + 1
        /\ new.chain = Keeps(d) \cup (UNION {changes[h].chain : h \in Keeps(d)})
    BY DEF Prepared
  <2>2. new.removes = (UNION {changes[h].removes : h \in Keeps(d)}) \cup knows[d] \cup goes
    BY DEF Prepared
  <2>3. new.lists = ((UNION {changes[h].lists : h \in Keeps(d)}) \ (new.removes \cup out)) \cup {d}
    BY <2>2 DEF Prepared
  <2>4. new = [number |-> new.number, chain |-> new.chain, lists |-> new.lists,
              removes |-> new.removes]
    BY DEF Prepared
  <2> HIDE DEF new
  <2> QED
    BY <2>1, <2>2, <2>3, <2>4
<1>3. /\ Keeps(d) \subseteq Made /\ Keeps(d) \subseteq seen[d] /\ d \notin knows[d]
      /\ knows[d] \subseteq Devices
      /\ \A h \in Keeps(d) : d \notin changes[h].removes
  BY <1>1, GoesOn
<1>4. \A h \in Keeps(d) : changes[h] \in Change
  BY <1>3, ChangeTyped DEF IInv
<1> HIDE DEF new
<1>5. new.number \in Nat /\ \A h \in Keeps(d) : changes[h].number < new.number
  <2>1. ASSUME NEW h \in Keeps(d)
        PROVE  changes[h].number \in Nat /\ changes[top].number \in Nat
    BY <1>1, <1>4 DEF Change
  <2> QED
    BY <1>1, <1>2, <2>1
<1>6. new.chain \subseteq Made
  <2>1. ASSUME NEW h \in Keeps(d)
        PROVE  changes[h].chain \subseteq Made
    BY <1>3 DEF IInv, ChangesInv, ChangeOK, Made
  <2> QED
    BY <1>2, <1>3, <2>1
<1>7. d \notin new.removes /\ d \in new.lists /\ new.lists \cap new.removes = {}
  <2>1. d \notin UNION {changes[h].removes : h \in Keeps(d)}
    BY <1>3
  <2>2. d \notin new.removes
    BY <1>2, <1>3, <2>1
  <2> DEFINE listed == UNION {changes[h].lists : h \in Keeps(d)}
  <2>3. new.lists = (listed \ (new.removes \cup out)) \cup {d}
    BY <1>2
  <2> HIDE DEF listed
  <2> QED
    BY <2>2, <2>3
<1>8. new \in Change
  <2>1. new.chain \subseteq Nat
    BY <1>6, ChangeTyped DEF IInv
  <2>2. new.removes \subseteq Devices /\ new.lists \subseteq Devices
    <3>1. \A h \in Keeps(d) : changes[h].removes \subseteq Devices /\ changes[h].lists \subseteq Devices
      BY <1>4 DEF Change
    <3>2. new.removes \subseteq Devices
      BY <1>1, <1>2, <1>3, <3>1
    <3>3. (UNION {changes[h].lists : h \in Keeps(d)}) \subseteq Devices
      BY <3>1
    <3> QED
      BY <1>2, <3>2, <3>3
  <2> QED
    BY <1>2, <1>5, <2>1, <2>2 DEF Change
<1>9. PromptOK(changes, d, shown)
  <2>1. shown.heads \cup {shown.over} = Keeps(d) /\ shown.change = new /\ shown.over \in Made
    BY DEF Keeps, IInv, TypeOK
  <2>2. \A h \in Keeps(d) : changes[h].removes \subseteq new.removes
    BY <1>2
  <2> HIDE DEF shown
  <2> QED
    BY <1>2, <1>5, <1>7, <2>1, <2>2 DEF PromptOK, Made
<1>10. shown \in [over : Nat, heads : SUBSET Made, change : Change]
  <2>1. follows[d] \in Made /\ follows[d] \in Nat /\ heads[d] \in SUBSET Made
    BY ChangeTyped DEF IInv, TypeOK
  <2> QED
    BY <1>8, <2>1
<1> HIDE DEF shown
<1>11. /\ prompt' = [prompt EXCEPT ![d] = shown]
       /\ UNCHANGED <<changes, follows, heads, knows, state, seen>> /\ Made' = Made
  BY <1>1 DEF new, shown, devices, Made
<1>12. TypeOK'
  BY <1>10, <1>11 DEF IInv, TypeOK
<1>13. PromptsInv'
  <2>1. ASSUME NEW e \in Devices
        PROVE  PromptOK(changes, e, prompt'[e])
    BY <1>9, <1>11 DEF IInv, TypeOK, PromptsInv
  <2> QED
    BY <1>11, <2>1 DEF PromptsInv
<1> QED
  BY <1>11, <1>12, <1>13 DEF IInv, ChangesInv, DevicesInv

LEMMA NotMadeKeeps ==
  ASSUME IInv, NEW d \in Devices, NotMade(d)
  PROVE  IInv'
<1>1. /\ prompt' = [prompt EXCEPT ![d] = NoPrompt]
      /\ UNCHANGED <<changes, follows, heads, knows, state, seen>> /\ Made' = Made
  BY DEF NotMade, Answered, devices, Made
<1>2. TypeOK'
  <2>1. NoPrompt \in [over : Nat, heads : SUBSET Made, change : Change]
    BY DEF NoPrompt, First, Change
  <2> QED
    BY <1>1, <2>1 DEF IInv, TypeOK
<1>3. PromptsInv'
  <2>1. PromptOK(changes, d, NoPrompt)
    BY DEF PromptOK, NoPrompt
  <2>2. \A e \in Devices : PromptOK(changes, e, prompt'[e])
    BY <1>1, <2>1 DEF IInv, TypeOK, PromptsInv
  <2> QED
    BY <1>1, <2>2 DEF PromptsInv
<1> QED
  BY <1>1, <1>2, <1>3 DEF IInv, ChangesInv, DevicesInv

-----------------------------------------------------------------------------
(***************************************************************************)
(* The invariant, and what follows from it.                                *)
(***************************************************************************)
LEMMA InitHolds ==
  ASSUME Init
  PROVE  IInv
<1>1. /\ First \in Change /\ NoPrompt \in [over : Nat, heads : SUBSET Nat, change : Change]
  BY DEF First, NoPrompt, Change
<1>2. changes \in Seq(Change) /\ Len(changes) = 1 /\ changes[1] = First /\ changes # <<>>
  BY <1>1 DEF Init
<1>3. Made = {1}
  BY <1>2 DEF Made
<1>4. Cardinality({}) < MostHeads
  BY FS_EmptySet, MostHeadsAssumption
<1>5. TypeOK
  <2>1. NoPrompt \in [over : Nat, heads : SUBSET Made, change : Change]
    BY <1>1 DEF NoPrompt
  <2>2. \A d \in Devices : Cardinality(heads[d]) < MostHeads
    BY <1>4 DEF Init
  <2> QED
    BY <1>2, <1>3, <2>1, <2>2 DEF Init, TypeOK
<1>6. ChangesInv
  BY <1>2, <1>3 DEF ChangesInv, ChangeOK, First
<1>7. DevicesInv
  <2>1. ASSUME NEW d \in Devices
        PROVE  DeviceOK(changes, d, 1, {}, {}, "applied", {1})
    BY <1>2 DEF DeviceOK, First
  <2> QED
    BY <2>1 DEF Init, DevicesInv
<1>8. PromptsInv
  BY DEF Init, PromptsInv, PromptOK, NoPrompt
<1> QED
  BY <1>5, <1>6, <1>7, <1>8 DEF IInv

LEMMA StepKeeps ==
  ASSUME IInv, [Next]_vars
  PROVE  IInv'
<1>1. CASE UNCHANGED vars
  BY <1>1 DEF vars, devices, IInv, TypeOK, ChangesInv, DevicesInv, PromptsInv, Made
<1>2. ASSUME NEW d \in Devices, Ask(d) PROVE IInv'
  BY <1>2, AskKeeps
<1>3. ASSUME NEW d \in Devices, Make(d) PROVE IInv'
  BY <1>3, MakeKeeps
<1>4. ASSUME NEW d \in Devices, NotMade(d) PROVE IInv'
  BY <1>4, NotMadeKeeps
<1>5. ASSUME NEW d \in Devices, Move(d) PROVE IInv'
  BY <1>5, MoveKeeps
<1>6. ASSUME NEW d \in Devices, NEW c \in Made, KnowShown(d, c) PROVE IInv'
  BY <1>6, KnowShownKeeps
<1>7. ASSUME NEW d \in Devices, NEW c \in Made, Hear(d, c) PROVE IInv'
  <2>1. CASE Behind(d, c)
    BY <2>1, BehindKeeps
  <2>2. CASE StopRemoved(d, c)
    BY <2>2, StopKeeps DEF StopRemoved
  <2>3. CASE StopNotListed(d, c)
    BY <2>3, StopKeeps DEF StopNotListed
  <2>4. CASE ApplyShown(d, c)
    BY <2>4, ApplyKeeps
  <2>5. CASE SetAside(d, c)
    BY <2>5, SetAsideKeeps
  <2>6. CASE PastBound(d, c)
    BY <2>6, PastBoundKeeps
  <2> QED
    BY <1>7, <2>1, <2>2, <2>3, <2>4, <2>5, <2>6 DEF Hear
<1> QED
  BY <1>1, <1>2, <1>3, <1>4, <1>5, <1>6, <1>7 DEF Next

LEMMA Invariance == Spec => []IInv
<1>1. Init => IInv
  BY InitHolds
<1>2. IInv /\ [Next]_vars => IInv'
  BY StepKeeps
<1> QED
  BY <1>1, <1>2, PTL DEF Spec

\* The state of each device has its shape, and no device keeps more heads
\* than MAX_CHANGE_HEADS less the change it follows.
THEOREM Typed == Spec => []TypeOK
<1>1. IInv => TypeOK
  BY DEF IInv
<1> QED
  BY <1>1, Invariance, PTL

\* No device seals under a change whose secret is held by a key that any
\* change it took removes (rules 3 to 9).
THEOREM Sealing == Spec => []SealsForNoRemoved
<1>1. IInv => SealsForNoRemoved
  <2>1. ASSUME IInv, NEW d \in Devices, state[d] = "applied", NEW c \in seen[d]
        PROVE  changes[c].removes \cap changes[follows[d]].lists = {}
    <3>1. Going(d)
      BY <2>1 DEF Going
    <3>2. changes[c].removes \subseteq knows[d] /\ Clear(knows[d], follows[d])
      BY <2>1, <3>1, GoesOn
    <3> QED
      BY <3>2 DEF Clear
  <2> QED
    BY <2>1 DEF SealsForNoRemoved
<1> QED
  BY <1>1, Invariance, PTL

\* No device that goes on overlooks a change it took: each is kept, or is on
\* the chain of one that is.
THEOREM Overlooking == Spec => []OverlooksNone
<1>1. IInv => OverlooksNone
  BY GoesOn DEF OverlooksNone
<1> QED
  BY <1>1, Invariance, PTL

\* A change that a command makes is made after every change its device took,
\* and removes every key it knew to be removed (rules 20 and 21).
THEOREM Making == Spec => MadeOverAll
<1> DEFINE Over(d) ==
      LET made == changes'[follows'[d]] IN
      seen[d] \subseteq made.chain /\ knows[d] \subseteq made.removes
<1>1. ASSUME IInv, NEW d \in Devices, Make(d)
      PROVE  Over(d)
  <2> DEFINE new == prompt[d].change
  <2>1. /\ prompt[d].over # 0 /\ AsShown(d) /\ changes' = Append(changes, new)
        /\ follows' = [follows EXCEPT ![d] = Len(changes) + 1]
    BY <1>1 DEF Make, Answered, Follow
  <2>2. new \in Change /\ seen[d] \subseteq new.chain /\ knows[d] \subseteq new.removes
    BY <1>1, <2>1, Answer
  <2> HIDE DEF new
  <2>3. changes'[Len(changes) + 1] = new
    BY <1>1, <2>1, <2>2, Appended DEF IInv
  <2>4. follows'[d] = Len(changes) + 1
    BY <1>1, <2>1 DEF IInv, TypeOK
  <2> QED
    BY <2>2, <2>3, <2>4
<1>2. IInv /\ [Next]_vars => [\A d \in Devices : Make(d) => Over(d)]_vars
  BY <1>1
<1> QED
  BY <1>2, Invariance, PTL DEF Spec, MadeOverAll
=============================================================================
