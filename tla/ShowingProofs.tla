--------------------------- MODULE ShowingProofs ---------------------------
(***************************************************************************)
(* What holds of Showing for every set of devices and relays, every bound  *)
(* on heads and every number of faults.                                    *)
(***************************************************************************)
EXTENDS Showing, LineageProofs

-----------------------------------------------------------------------------
(***************************************************************************)
(* Finite sets in an order: the place of an element is how many come       *)
(* before it, so one is the first, and at most n have fewer than n before. *)
(***************************************************************************)
IsOrderOn(R, S) ==
  /\ \A x \in S : <<x, x>> \notin R
  /\ \A x, y \in S : x # y => <<x, y>> \in R \/ <<y, x>> \in R
  /\ \A x, y, z \in S : <<x, y>> \in R /\ <<y, z>> \in R => <<x, z>> \in R

BeforeIn(S, R, x) == {y \in S : <<y, x>> \in R}

LEMMA FewerBefore ==
  ASSUME NEW S, IsFiniteSet(S), NEW R, IsOrderOn(R, S), NEW x \in S
  PROVE  /\ Cardinality(BeforeIn(S, R, x)) \in Nat
         /\ Cardinality(BeforeIn(S, R, x)) < Cardinality(S)
         /\ \A y \in S : <<x, y>> \in R =>
              Cardinality(BeforeIn(S, R, x)) < Cardinality(BeforeIn(S, R, y))
<1> DEFINE B(z) == BeforeIn(S, R, z)
<1>1. ASSUME NEW z \in S
      PROVE  /\ B(z) \in SUBSET S /\ IsFiniteSet(B(z)) /\ Cardinality(B(z)) \in Nat
             /\ z \notin B(z)
  <2>1. B(z) \in SUBSET S /\ z \notin B(z)
    BY DEF BeforeIn, IsOrderOn
  <2> HIDE DEF B
  <2>2. IsFiniteSet(B(z))
    BY <2>1, FS_Subset
  <2> QED
    BY <2>1, <2>2, FS_CardinalityType
<1>2. ASSUME NEW T, IsFiniteSet(T), B(x) \in SUBSET T, x \in T
      PROVE  Cardinality(B(x)) < Cardinality(T)
  <2>1. B(x) # T
    BY <1>1, <1>2
  <2>2. Cardinality(B(x)) <= Cardinality(T) /\ Cardinality(B(x)) # Cardinality(T)
    <3> HIDE DEF B
    <3> QED
      BY <1>2, <2>1, FS_Subset
  <2>3. Cardinality(T) \in Nat
    BY <1>2, FS_CardinalityType
  <2> QED
    BY <1>1, <2>2, <2>3
<1>3. Cardinality(B(x)) < Cardinality(S)
  BY <1>1, <1>2
<1>4. ASSUME NEW y \in S, <<x, y>> \in R
      PROVE  Cardinality(B(x)) < Cardinality(B(y))
  <2>1. B(x) \in SUBSET B(y) /\ x \in B(y)
    BY <1>4 DEF BeforeIn, IsOrderOn
  <2> QED
    BY <1>1, <1>2, <2>1
<1> QED
  BY <1>1, <1>3, <1>4

LEMMA FewBefore ==
  ASSUME NEW S, IsFiniteSet(S), NEW R, IsOrderOn(R, S), NEW n \in Nat
  PROVE  LET T == {x \in S : Cardinality(BeforeIn(S, R, x)) < n} IN
         IsFiniteSet(T) /\ Cardinality(T) <= n
<1> DEFINE T == {x \in S : Cardinality(BeforeIn(S, R, x)) < n}
           f == [x \in T |-> Cardinality(BeforeIn(S, R, x))]
<1>1. f \in [T -> 0 .. n - 1]
  BY FewerBefore
<1>2. \A x, y \in T : f[x] = f[y] => x = y
  <2>1. ASSUME NEW x \in T, NEW y \in T, x # y
        PROVE  f[x] # f[y]
    <3>1. x \in S /\ y \in S
      OBVIOUS
    <3>2. <<x, y>> \in R \/ <<y, x>> \in R
      BY <2>1, <3>1 DEF IsOrderOn
    <3>3. CASE <<x, y>> \in R
      BY <1>1, <3>1, <3>3, FewerBefore
    <3>4. CASE <<y, x>> \in R
      BY <1>1, <3>1, <3>4, FewerBefore
    <3> QED
      BY <3>2, <3>3, <3>4
  <2> QED
    BY <2>1
<1>3. f \in Injection(T, 0 .. n - 1)
  <2> HIDE DEF f, T
  <2> QED
    BY <1>1, <1>2 DEF Injection, IsInjective
<1>4. IsFiniteSet(0 .. n - 1) /\ Cardinality(0 .. n - 1) = n
  BY FS_Interval
<1>5. IsFiniteSet(T) /\ Cardinality(T) <= n
  <2> HIDE DEF f, T
  <2> QED
    BY <1>3, <1>4, FS_Injection
<1> QED
  BY <1>5

LEMMA FirstExists ==
  ASSUME NEW S, IsFiniteSet(S), S # {}, NEW R, IsOrderOn(R, S)
  PROVE  \E x \in S : BeforeIn(S, R, x) = {}
<1> DEFINE n == Cardinality(S) - 1
<1>1. Cardinality(S) \in Nat \ {0} /\ n \in Nat
  BY FS_CardinalityType, FS_EmptySet
<1>2. ASSUME \A x \in S : BeforeIn(S, R, x) # {}
      PROVE  FALSE
  <2> DEFINE g == [x \in S |-> Cardinality(BeforeIn(S, R, x))]
  <2>1. ASSUME NEW x \in S
        PROVE  g[x] \in 1 .. n
    <3>1. IsFiniteSet(BeforeIn(S, R, x))
      BY FS_Subset DEF BeforeIn
    <3>2. Cardinality(BeforeIn(S, R, x)) # 0
      BY <1>2, <3>1, FS_EmptySet
    <3> QED
      BY <1>1, <3>2, FewerBefore
  <2>2. \A x, y \in S : g[x] = g[y] => x = y
    <3>1. ASSUME NEW x \in S, NEW y \in S, x # y
          PROVE  g[x] # g[y]
      <4>1. CASE <<x, y>> \in R
        BY <4>1, FewerBefore
      <4>2. CASE <<y, x>> \in R
        BY <4>2, FewerBefore
      <4> QED
        BY <3>1, <4>1, <4>2 DEF IsOrderOn
    <3> QED
      BY <3>1
  <2>3. g \in Injection(S, 1 .. n)
    <3>1. g \in [S -> 1 .. n]
      BY <2>1
    <3> HIDE DEF g
    <3> QED
      BY <2>2, <3>1 DEF Injection, IsInjective
  <2>4. IsFiniteSet(1 .. n) /\ Cardinality(1 .. n) = n
    BY <1>1, FS_Interval
  <2>5. Cardinality(S) <= n
    <3> HIDE DEF g, n
    <3> QED
      BY <2>3, <2>4, FS_Injection
  <2> QED
    BY <1>1, <2>5
<1> QED
  BY <1>2

-----------------------------------------------------------------------------
(***************************************************************************)
(* The two orders of changes: by rank, which says what stays, and by       *)
(* number, which says what is handed first.                                *)
(***************************************************************************)
ByRank == {p \in Made \X Made : Outranks(p[1], p[2])}
ByNumber == {p \in Made \X Made :
  \/ changes[p[1]].number < changes[p[2]].number
  \/ changes[p[1]].number = changes[p[2]].number /\ p[1] < p[2]}

LEMMA Orders ==
  ASSUME TypeOK, NEW S \in SUBSET Made
  PROVE  IsFiniteSet(S) /\ IsOrderOn(ByRank, S) /\ IsOrderOn(ByNumber, S)
<1>1. IsFiniteSet(S)
  <2>1. Len(changes) \in Nat
    BY LenProperties DEF TypeOK
  <2>2. IsFiniteSet(Made)
    BY <2>1, FS_Interval DEF Made
  <2> QED
    BY <2>2, FS_Subset
<1>2. \A x \in S : x \in Made /\ x \in Nat /\ changes[x].number \in Nat
  BY ChangeTyped DEF Change
<1>3. \A x, y \in S : <<x, y>> \in ByRank <=> Outranks(x, y)
  BY <1>2 DEF ByRank
<1>4. \A x, y \in S : <<x, y>> \in ByNumber <=>
         \/ changes[x].number < changes[y].number
         \/ changes[x].number = changes[y].number /\ x < y
  BY <1>2 DEF ByNumber
<1>5. IsOrderOn(ByRank, S)
  BY <1>2, <1>3 DEF IsOrderOn, Outranks
<1>6. IsOrderOn(ByNumber, S)
  BY <1>2, <1>4 DEF IsOrderOn
<1> QED
  BY <1>1, <1>5, <1>6

LEMMA LowestIn ==
  ASSUME TypeOK, NEW S \in SUBSET Made, S # {}
  PROVE  Lowest(S) \in S
<1>1. PICK h \in S : BeforeIn(S, ByNumber, h) = {}
  BY Orders, FirstExists
<1>2. ASSUME NEW o \in S \ {h}
      PROVE  \/ changes[h].number < changes[o].number
             \/ changes[h].number = changes[o].number /\ h < o
  <2>1. <<o, h>> \notin ByNumber
    BY <1>1 DEF BeforeIn
  <2>2. <<h, o>> \in ByNumber
    BY <1>2, <2>1, Orders DEF IsOrderOn
  <2> QED
    BY <2>2 DEF ByNumber
<1> QED
  BY <1>2 DEF Lowest

\* What stays is some of it, the highest among them, and no more than the
\* bound.
LEMMA WhatStays ==
  ASSUME TypeOK, NEW S \in SUBSET Made
  PROVE  /\ Stay(S) \subseteq S
         /\ Cardinality(Stay(S)) <= MostHeads
         /\ S # {} => \E h \in Stay(S) : \A o \in S : changes[h].number >= changes[o].number
<1>1. ASSUME NEW h \in S
      PROVE  BeforeIn(S, ByRank, h) = {o \in S : Outranks(o, h)}
  BY DEF BeforeIn, ByRank
<1>2. Stay(S) = {h \in S : Cardinality(BeforeIn(S, ByRank, h)) < MostHeads}
  BY <1>1 DEF Stay
<1>3. Cardinality(Stay(S)) <= MostHeads
  BY <1>2, Orders, FewBefore, MostHeadsAssumption
<1>4. ASSUME S # {}
      PROVE  \E h \in Stay(S) : \A o \in S : changes[h].number >= changes[o].number
  <2>1. PICK h \in S : BeforeIn(S, ByRank, h) = {}
    BY <1>4, Orders, FirstExists
  <2>2. h \in Stay(S)
    BY <1>2, <2>1, FS_EmptySet, MostHeadsAssumption
  <2>3. ASSUME NEW o \in S
        PROVE  changes[h].number >= changes[o].number
    <3>1. ~Outranks(o, h)
      BY <1>1, <2>1
    <3>2. changes[h].number \in Nat /\ changes[o].number \in Nat
      BY ChangeTyped DEF Change
    <3> QED
      BY <3>1, <3>2 DEF Outranks
  <2> QED
    BY <2>2, <2>3
<1> QED
  BY <1>2, <1>3, <1>4

-----------------------------------------------------------------------------
(***************************************************************************)
(* What a relay keeps and answers.                                         *)
(***************************************************************************)
\* The heads that a relay may keep: some, not too many, and none behind
\* another.
HeadsOK(cs, kept) ==
  /\ kept # {} /\ Cardinality(kept) <= MostHeads
  /\ \A a, b \in kept : a \notin cs[b].chain

LEMMA NotOnItself ==
  ASSUME IInv, NEW c \in Made
  PROVE  c \notin changes[c].chain
<1>1. changes[c].number \in Nat
  BY ChangeTyped DEF IInv, Change
<1> QED
  BY <1>1 DEF IInv, ChangesInv, ChangeOK

\* Shown any change, it keeps such heads; and where it does not keep the one
\* shown, it keeps one of that number or above.
LEMMA KeepsHeads ==
  ASSUME IInv, NEW kept \in SUBSET Made, HeadsOK(changes, kept), NEW c \in Made
  PROVE  /\ HeadsWith(kept, c) \in SUBSET Made
         /\ HeadsOK(changes, HeadsWith(kept, c))
         /\ \E h \in HeadsWith(kept, c) : changes[h].number >= changes[c].number
<1>1. CASE BehindOneOf(c, kept)
  <2>1. PICK h \in kept : c = h \/ c \in changes[h].chain
    BY <1>1 DEF BehindOneOf
  <2>2. changes[c].number \in Nat /\ changes[h].number \in Nat
    BY ChangeTyped DEF IInv, Change
  <2>3. changes[h].number >= changes[c].number
    BY <2>1, <2>2 DEF IInv, ChangesInv, ChangeOK
  <2> QED
    BY <1>1, <2>3 DEF HeadsWith
<1>2. CASE ~BehindOneOf(c, kept)
  <2> DEFINE all == (kept \ changes[c].chain) \cup {c}
  <2>1. HeadsWith(kept, c) = Stay(all) /\ all \in SUBSET Made /\ all # {} /\ c \in all
    BY <1>2 DEF HeadsWith
  <2>2. \A a, b \in all : a \notin changes[b].chain
    BY <1>2, NotOnItself DEF BehindOneOf, HeadsOK
  <2> HIDE DEF all
  <2>3. /\ Stay(all) \subseteq all /\ Cardinality(Stay(all)) <= MostHeads
        /\ \E h \in Stay(all) : \A o \in all : changes[h].number >= changes[o].number
    BY <2>1, WhatStays DEF IInv
  <2> QED
    BY <2>1, <2>2, <2>3 DEF HeadsOK
<1> QED
  BY <1>1, <1>2

\* It hands a change that was made, or says that it holds the one shown: then
\* all that it keeps the connection knows, or the one shown was made after.
LEMMA Answers ==
  ASSUME IInv, NEW kept \in SUBSET Made, NEW c \in Made, NEW known,
         \E h \in kept : changes[h].number >= changes[c].number
  PROVE  /\ AnswerTo(kept, known, c) \in Made \cup {0}
         /\ AnswerTo(kept, known, c) = 0 => kept \subseteq (known \cup {c}) \cup changes[c].chain
<1> DEFINE others == {h \in kept \ known : h # c /\ h \notin changes[c].chain}
           above == {h \in kept : changes[h].number >= changes[c].number}
<1>1. /\ others # {} => Lowest(others) \in others
      /\ Lowest(above) \in above
  <2>1. others \in SUBSET Made /\ above \in SUBSET Made /\ above # {}
    OBVIOUS
  <2> HIDE DEF others, above
  <2> QED
    BY <2>1, LowestIn DEF IInv
<1>2. 0 \notin Made
  BY ChangeTyped DEF IInv
<1>3. AnswerTo(kept, known, c) =
        IF others # {} THEN Lowest(others) ELSE IF c \in kept THEN 0 ELSE Lowest(above)
  BY DEF AnswerTo
<1>4. CASE others # {}
  BY <1>1, <1>2, <1>3, <1>4
<1>5. CASE others = {}
  BY <1>1, <1>2, <1>3, <1>5
<1> QED
  BY <1>4, <1>5

-----------------------------------------------------------------------------
(***************************************************************************)
(* The inductive invariant: that of Lineage, the shape of the rounds, and  *)
(* that a round which goes on shows a change, and one that waits its turn  *)
(* holds one.                                                              *)
(***************************************************************************)
Round == [at : {"idle", "asked", "answered", "judge"}, of : Made \cup {0}, due : BOOLEAN,
          mine : SUBSET Made, shown : SUBSET Made, handed : SUBSET Made, got : Made \cup {0}]

NowOK(now) ==
  /\ now \in Round
  /\ now.at # "idle" => now.of \in Made
  /\ now.at = "judge" => now.got \in Made

Budget == [up : SUBSET Relays, at : SUBSET Devices, left : [Faults -> Nat]]

ShapeOK ==
  /\ held \in [Relays -> SUBSET Made]
  /\ \A r \in Relays : HeadsOK(changes, held[r])
  /\ told \in [Running -> [Relays -> SUBSET Made]]
  /\ round \in [Running -> [Relays -> Round]]
  /\ \A d \in Running, r \in Relays : NowOK(round[d][r])
  /\ given \in [Running -> [Relays -> Made \cup {0}]]
  /\ waiting \in [Running -> Made \cup {0}]
  /\ said \in [Running -> [Relays -> SUBSET Made]]
  /\ budget \in Budget

ShowInv == IInv /\ ShapeOK

\* A step of Lineage at most, which makes no change.
Steps == [Next]_vars /\ UNCHANGED changes

-----------------------------------------------------------------------------
(***************************************************************************)
(* What a step of Showing does in Lineage.                                 *)
(***************************************************************************)
LEMMA HearSteps ==
  ASSUME NEW d \in Devices, NEW c \in Made, Hear(d, c)
  PROVE  Steps
<1>1. UNCHANGED changes
  BY DEF Hear, Behind, StopRemoved, StopNotListed, ApplyShown, SetAside, PastBound,
         IsAside, IsNews, IsShown
<1> QED
  BY <1>1 DEF Steps, Next

LEMMA JudgedSteps ==
  ASSUME NEW d \in Devices, NEW c \in Made, Judged(d, c)
  PROVE  Steps
BY HearSteps DEF Judged, Steps, vars

LEMMA KnowsSteps ==
  ASSUME NEW d \in Devices, NEW c \in Made, KnowsAtOnce(d, c)
  PROVE  Steps
BY DEF KnowsAtOnce, KnowShown, Steps, Next, vars

LEMMA MoveSteps ==
  ASSUME NEW d \in Devices, Move(d)
  PROVE  Steps
BY DEF Move, Steps, Next

LEMMA StaySteps == UNCHANGED vars => Steps
BY DEF Steps, vars

\* After it Lineage's invariant holds, and the same changes are made.
LEMMA AfterSteps ==
  ASSUME IInv, Steps
  PROVE  IInv' /\ Made' = Made /\ changes' = changes
BY StepKeeps DEF Steps, Made

-----------------------------------------------------------------------------
(***************************************************************************)
(* What the rounds may come to.                                            *)
(***************************************************************************)
LEMMA KeptMade ==
  ASSUME IInv, NEW d \in Devices
  PROVE  follows[d] \in Made /\ heads[d] \in SUBSET Made /\ Keeps(d) \in SUBSET Made
BY DEF IInv, TypeOK, Keeps

LEMMA IdleIsOK == NowOK(Idle)
BY DEF Idle, NowOK, Round

LEMMA NextIsOK ==
  ASSUME IInv, NEW f \in Made, NEW aside \in SUBSET Made, NEW due \in BOOLEAN,
         NEW shown \in SUBSET Made, NEW handed \in SUBSET Made
  PROVE  NowOK(NextShow(f, aside, due, shown, handed))
<1> DEFINE of == IF due THEN f ELSE Lowest(aside \ shown)
           next == [at |-> "asked", of |-> of, due |-> due, mine |-> aside \cup {f},
                    shown |-> shown, handed |-> handed, got |-> 0]
<1>1. CASE due \/ aside \ shown # {}
  <2>1. of \in Made
    <3>1. CASE due
      BY <3>1
    <3>2. CASE ~due
      <4>1. aside \ shown \in SUBSET Made /\ aside \ shown # {}
        BY <1>1, <3>2
      <4>2. Lowest(aside \ shown) \in aside \ shown
        BY <4>1, LowestIn DEF IInv
      <4> QED
        BY <3>2, <4>2
    <3> QED
      BY <3>1, <3>2
  <2>2. NextShow(f, aside, due, shown, handed) = next
    BY <1>1 DEF NextShow
  <2>3. next \in Round /\ next.at = "asked" /\ next.of \in Made
    <3> HIDE DEF of
    <3> QED
      BY <2>1 DEF Round
  <2> HIDE DEF next
  <2> QED
    BY <2>2, <2>3 DEF NowOK
<1>2. CASE ~(due \/ aside \ shown # {})
  BY <1>2, IdleIsOK DEF NextShow
<1> QED
  BY <1>1, <1>2

\* What a round holds, once it is begun.
LEMMA RoundHolds ==
  ASSUME ShowInv, NEW d \in Running, NEW r \in Relays
  PROVE  LET now == round[d][r] IN
         /\ d \in Devices /\ NowOK(now) /\ now \in Round
         /\ ShownThen(now) \in SUBSET (Made \cup {0})
         /\ now.at # "idle" => now.of \in Made /\ ShownThen(now) \in SUBSET Made
         /\ IsHanded(now) \/ now.at = "judge" =>
              now.got \in Made /\ now.handed \cup {now.got} \in SUBSET Made
BY RunningAssumption DEF ShowInv, ShapeOK, NowOK, Round, ShownThen, IsHanded

\* A step of one round that leaves what the relays keep.
LEMMA OneRound ==
  ASSUME ShowInv, Steps, NEW d \in Running, NEW r \in Relays,
         NEW now, NowOK(now), round' = [round EXCEPT ![d][r] = now],
         UNCHANGED held,
         told' \in [Running -> [Relays -> SUBSET Made]],
         given' \in [Running -> [Relays -> Made \cup {0}]],
         waiting' \in [Running -> Made \cup {0}],
         said' \in [Running -> [Relays -> SUBSET Made]],
         budget' \in Budget
  PROVE  ShowInv'
<1>1. IInv' /\ Made' = Made /\ changes' = changes
  BY AfterSteps DEF ShowInv
<1>2. \A e \in Running, q \in Relays : NowOK(round'[e][q])
  <2>1. \A e \in Running, q \in Relays :
          round'[e][q] = IF e = d /\ q = r THEN now ELSE round[e][q]
    BY DEF ShowInv, ShapeOK
  <2> QED
    BY <2>1 DEF ShowInv, ShapeOK
<1>3. round' \in [Running -> [Relays -> Round]]
  BY DEF NowOK, ShowInv, ShapeOK
<1>4. Round' = Round /\ Budget' = Budget
  BY <1>1 DEF Round, Budget
<1>5. \A e \in Running, q \in Relays : NowOK(round[e][q])'
  BY <1>1, <1>2, <1>4 DEF NowOK
<1> QED
  BY <1>1, <1>3, <1>4, <1>5 DEF ShowInv, ShapeOK, HeadsOK

-----------------------------------------------------------------------------
(***************************************************************************)
(* Each step keeps the invariant, and is a step of Lineage or none.        *)
(***************************************************************************)
LEMMA SpendsTyped ==
  ASSUME ShowInv, NEW f \in Faults, Spend(f)
  PROVE  budget' \in Budget
<1>1. budget \in Budget /\ budget.left[f] \in Nat /\ budget.left[f] > 0
  BY DEF Spend, ShowInv, ShapeOK, Budget
<1>2. [budget.left EXCEPT ![f] = @ - 1] \in [Faults -> Nat]
  BY <1>1 DEF Budget
<1>3. budget' = [budget EXCEPT !.left = [budget.left EXCEPT ![f] = @ - 1]]
  BY <1>1 DEF Spend, Budget
<1> QED
  BY <1>1, <1>2, <1>3 DEF Budget

LEMMA BeginKeeps ==
  ASSUME ShowInv, NEW d \in Running, NEW r \in Relays, Begin(d, r)
  PROVE  ShowInv' /\ Steps
<1> DEFINE now == NextShow(follows[d], heads[d], TRUE, {}, {})
<1>1. /\ UNCHANGED <<vars, held, told, given, waiting, said>>
      /\ round' = [round EXCEPT ![d][r] = now]
  BY DEF Begin, ShowsNext
<1>2. Steps
  BY <1>1, StaySteps
<1>3. budget' \in Budget
  BY SpendsTyped DEF Begin, ShowInv, ShapeOK, Faults
<1>4. NowOK(now)
  BY NextIsOK, KeptMade, RunningAssumption DEF ShowInv
<1> HIDE DEF now
<1>5. /\ told' \in [Running -> [Relays -> SUBSET Made]]
      /\ given' \in [Running -> [Relays -> Made \cup {0}]]
      /\ waiting' \in [Running -> Made \cup {0}]
      /\ said' \in [Running -> [Relays -> SUBSET Made]]
  BY <1>1 DEF ShowInv, ShapeOK
<1> QED
  BY <1>1, <1>2, <1>3, <1>4, <1>5, OneRound, ZenonT(60), SMTT(60)

\* What the relay answers, and what it keeps then.
LEMMA RelaySays ==
  ASSUME ShowInv, NEW d \in Running, NEW r \in Relays, round[d][r].at = "asked"
  PROVE  LET c == round[d][r].of
             kept == HeadsWith(held[r], c)
             got == AnswerTo(kept, told[d][r] \cup {c}, c)
         IN /\ c \in Made /\ kept \in SUBSET Made /\ HeadsOK(changes, kept)
            /\ got \in Made \cup {0}
            /\ got = 0 => kept \subseteq (told[d][r] \cup {c}) \cup changes[c].chain
<1> DEFINE c == round[d][r].of
           kept == HeadsWith(held[r], c)
<1>1. c \in Made
  BY RoundHolds
<1>2. held[r] \in SUBSET Made /\ HeadsOK(changes, held[r])
  BY DEF ShowInv, ShapeOK
<1> HIDE DEF c
<1>3. /\ kept \in SUBSET Made /\ HeadsOK(changes, kept)
      /\ \E h \in kept : changes[h].number >= changes[c].number
  BY <1>1, <1>2, KeepsHeads DEF ShowInv
<1> HIDE DEF kept
<1> DEFINE got == AnswerTo(kept, told[d][r] \cup {c}, c)
<1>4. /\ got \in Made \cup {0}
      /\ got = 0 => kept \subseteq ((told[d][r] \cup {c}) \cup {c}) \cup changes[c].chain
  BY <1>1, <1>3, Answers DEF ShowInv
<1> HIDE DEF got
<1> QED
  BY <1>1, <1>3, <1>4 DEF got, kept, c

LEMMA RelayAnswersKeeps ==
  ASSUME ShowInv, NEW d \in Running, NEW r \in Relays, RelayAnswers(d, r)
  PROVE  ShowInv' /\ Steps
<1> DEFINE c == round[d][r].of
           kept == HeadsWith(held[r], c)
           got == AnswerTo(kept, told[d][r] \cup {c}, c)
           now == [round[d][r] EXCEPT !.at = "answered", !.got = got]
<1>1. /\ c \in Made /\ kept \in SUBSET Made /\ HeadsOK(changes, kept)
      /\ got \in Made \cup {0}
  BY RelaySays DEF RelayAnswers
<1>2. /\ UNCHANGED <<vars, given, waiting, budget>>
      /\ held' = [held EXCEPT ![r] = kept]
      /\ told' = [told EXCEPT ![d][r] = (@ \cup {c, got}) \ {0}]
      /\ said' = [said EXCEPT ![d][r] = IF round[d][r].due /\ got = 0 THEN kept ELSE @]
  BY DEF RelayAnswers
<1>3. round' = [round EXCEPT ![d][r].at = "answered", ![d][r].got = got]
  BY DEF RelayAnswers
<1> HIDE DEF got, kept, c
<1>4. round' = [round EXCEPT ![d][r] = now]
  BY <1>3 DEF ShowInv, ShapeOK
<1>5. NowOK(now)
  <2>1. round[d][r] \in Round /\ round[d][r].of \in Made
    BY <1>1, RoundHolds DEF c
  <2>2. now \in Round /\ now.at = "answered" /\ now.of = round[d][r].of
    BY <1>1, <2>1 DEF Round
  <2> HIDE DEF now
  <2> QED
    BY <2>1, <2>2 DEF NowOK
<1> HIDE DEF now
<1>6. Steps
  BY <1>2, StaySteps
<1>7. IInv' /\ Made' = Made /\ changes' = changes
  BY <1>6, AfterSteps DEF ShowInv
<1>8. held' \in [Relays -> SUBSET Made] /\ \A q \in Relays : HeadsOK(changes', held'[q])
  BY <1>1, <1>2, <1>7 DEF ShowInv, ShapeOK
<1>9. /\ told' \in [Running -> [Relays -> SUBSET Made]]
      /\ said' \in [Running -> [Relays -> SUBSET Made]]
  BY <1>1, <1>2 DEF ShowInv, ShapeOK
<1>10. \A e \in Running, q \in Relays : NowOK(round'[e][q])
  <2>1. \A e \in Running, q \in Relays :
          round'[e][q] = IF e = d /\ q = r THEN now ELSE round[e][q]
    BY <1>4 DEF ShowInv, ShapeOK
  <2> QED
    BY <1>5, <2>1 DEF ShowInv, ShapeOK
<1>11. round' \in [Running -> [Relays -> Round]]
  BY <1>4, <1>5 DEF NowOK, ShowInv, ShapeOK
<1>12. Round' = Round /\ Budget' = Budget
  BY <1>7 DEF Round, Budget
<1>13. \A e \in Running, q \in Relays : NowOK(round[e][q])'
  BY <1>7, <1>10, <1>12 DEF NowOK
<1> QED
  BY <1>2, <1>6, <1>7, <1>8, <1>9, <1>11, <1>12, <1>13 DEF ShowInv, ShapeOK

LEMMA LeaveTyped ==
  ASSUME ShowInv, NEW d \in Running, NEW r \in Relays, LeaveThen(d, r)
  PROVE  given' \in [Running -> [Relays -> Made \cup {0}]]
BY DEF LeaveThen, ShowInv, ShapeOK

LEMMA TakeHeldKeeps ==
  ASSUME ShowInv, NEW d \in Running, NEW r \in Relays, TakeHeld(d, r)
  PROVE  ShowInv' /\ Steps
<1> DEFINE was == round[d][r]
           now == NextShow(follows[d], heads[d], FALSE, ShownThen(was), was.handed)
<1>1. /\ UNCHANGED <<vars, held, told, waiting, budget, said>>
      /\ round' = [round EXCEPT ![d][r] = now]
      /\ given' = IF was.due THEN [given EXCEPT ![d][r] = was.of] ELSE given
      /\ was.at = "answered"
  BY DEF TakeHeld, ShowsNext
<1>2. was.of \in Made /\ ShownThen(was) \in SUBSET Made /\ was.handed \in SUBSET Made
  BY <1>1, RoundHolds DEF Round
<1> HIDE DEF was
<1>3. NowOK(now)
  BY <1>2, NextIsOK, KeptMade, RunningAssumption DEF ShowInv
<1> HIDE DEF now
<1>4. Steps
  BY <1>1, StaySteps
<1>5. /\ told' \in [Running -> [Relays -> SUBSET Made]]
      /\ given' \in [Running -> [Relays -> Made \cup {0}]]
      /\ waiting' \in [Running -> Made \cup {0}]
      /\ said' \in [Running -> [Relays -> SUBSET Made]]
      /\ budget' \in Budget
  BY <1>1, <1>2 DEF ShowInv, ShapeOK
<1> QED
  BY <1>1, <1>3, <1>4, <1>5, OneRound, ZenonT(60), SMTT(60)

LEMMA TakeKeptKeeps ==
  ASSUME ShowInv, NEW d \in Running, NEW r \in Relays, TakeKept(d, r)
  PROVE  ShowInv' /\ Steps
<1> DEFINE was == round[d][r]
           next == NextShow(follows[d], heads[d], TRUE, ShownThen(was), was.handed \cup {was.got})
           now == IF was.got \in was.handed THEN Idle ELSE next
<1>1. /\ UNCHANGED <<vars, held, told, waiting, budget, said>>
      /\ round' = [round EXCEPT ![d][r] = now]
      /\ LeaveThen(d, r) /\ was.at = "answered" /\ was.got \in was.mine
  BY DEF TakeKept, ShowsNext
<1>2. ShownThen(was) \in SUBSET Made /\ was.handed \cup {was.got} \in SUBSET Made
  BY <1>1, RoundHolds DEF Round
<1> HIDE DEF was
<1>3. NowOK(next)
  BY <1>2, NextIsOK, KeptMade, RunningAssumption DEF ShowInv
<1> HIDE DEF next
<1>4. NowOK(now)
  BY <1>3, IdleIsOK
<1> HIDE DEF now
<1>5. Steps
  BY <1>1, StaySteps
<1>6. /\ told' \in [Running -> [Relays -> SUBSET Made]]
      /\ given' \in [Running -> [Relays -> Made \cup {0}]]
      /\ waiting' \in [Running -> Made \cup {0}]
      /\ said' \in [Running -> [Relays -> SUBSET Made]]
      /\ budget' \in Budget
  BY <1>1, LeaveTyped DEF ShowInv, ShapeOK
<1> QED
  BY <1>1, <1>4, <1>5, <1>6, OneRound, ZenonT(60), SMTT(60)

LEMMA WaitKeeps ==
  ASSUME ShowInv, NEW d \in Running, NEW r \in Relays, Wait(d, r)
  PROVE  ShowInv' /\ Steps
<1> DEFINE was == round[d][r]
           now == [was EXCEPT !.at = "judge"]
<1>1. /\ UNCHANGED <<held, told, waiting, budget, said>>
      /\ round' = [round EXCEPT ![d][r].at = "judge"]
      /\ LeaveThen(d, r) /\ IsHanded(was) /\ KnowsAtOnce(d, was.got)
  BY DEF Wait
<1>2. round' = [round EXCEPT ![d][r] = now]
  BY <1>1 DEF ShowInv, ShapeOK
<1>3. was \in Round /\ was.of \in Made /\ was.got \in Made /\ d \in Devices
  BY <1>1, RoundHolds DEF IsHanded
<1> HIDE DEF was
<1>4. NowOK(now)
  BY <1>3 DEF NowOK, Round
<1> HIDE DEF now
<1>5. Steps
  BY <1>1, <1>3, KnowsSteps
<1>6. /\ told' \in [Running -> [Relays -> SUBSET Made]]
      /\ given' \in [Running -> [Relays -> Made \cup {0}]]
      /\ waiting' \in [Running -> Made \cup {0}]
      /\ said' \in [Running -> [Relays -> SUBSET Made]]
      /\ budget' \in Budget
  BY <1>1, LeaveTyped DEF ShowInv, ShapeOK
<1> QED
  BY <1>1, <1>2, <1>4, <1>5, <1>6, OneRound, ZenonT(60), SMTT(60)

LEMMA JudgeKeeps ==
  ASSUME ShowInv, NEW d \in Running, NEW r \in Relays, Judge(d, r)
  PROVE  ShowInv' /\ Steps
<1> DEFINE was == round[d][r]
           due == IsTaken(d, was.got)
           next == NextShow(follows'[d], heads'[d], due, ShownThen(was), was.handed \cup {was.got})
           now == IF was.due /\ ~due THEN Idle ELSE next
<1>1. /\ UNCHANGED <<held, told, budget, said>>
      /\ round' = [round EXCEPT ![d][r] = now]
      /\ LeaveThen(d, r) /\ Judged(d, was.got)
      /\ IsHanded(was) \/ was.at = "judge"
      /\ waiting' = IF follows'[d] = was.got /\ due THEN [waiting EXCEPT ![d] = 0] ELSE waiting
  BY DEF Judge
<1>2. /\ was.got \in Made /\ was.handed \cup {was.got} \in SUBSET Made /\ d \in Devices
      /\ ShownThen(was) \in SUBSET Made
  BY <1>1, RoundHolds DEF IsHanded
<1>3. due \in BOOLEAN
  BY DEF IsTaken
<1> HIDE DEF was, due
<1>4. Steps
  BY <1>1, <1>2, JudgedSteps
<1>5. follows'[d] \in Made /\ heads'[d] \in SUBSET Made
  <2>1. IInv' /\ Made' = Made
    BY <1>4, AfterSteps DEF ShowInv
  <2> QED
    BY <1>2, <2>1 DEF IInv, TypeOK
<1>6. NowOK(next)
  BY <1>2, <1>3, <1>5, NextIsOK DEF ShowInv
<1> HIDE DEF next
<1>7. NowOK(now)
  BY <1>6, IdleIsOK
<1> HIDE DEF now
<1>8. /\ told' \in [Running -> [Relays -> SUBSET Made]]
      /\ given' \in [Running -> [Relays -> Made \cup {0}]]
      /\ waiting' \in [Running -> Made \cup {0}]
      /\ said' \in [Running -> [Relays -> SUBSET Made]]
      /\ budget' \in Budget
  BY <1>1, LeaveTyped DEF ShowInv, ShapeOK
<1> QED
  BY <1>1, <1>4, <1>7, <1>8, OneRound, ZenonT(60), SMTT(60)

LEMMA CouldNotApplyKeeps ==
  ASSUME ShowInv, NEW d \in Running, NEW r \in Relays, CouldNotApply(d, r)
  PROVE  ShowInv' /\ Steps
<1> DEFINE was == round[d][r]
           next == NextShow(follows[d], heads[d], FALSE, ShownThen(was), was.handed \cup {was.got})
           now == IF was.due THEN Idle ELSE next
<1>1. /\ UNCHANGED <<held, told, said>>
      /\ round' = [round EXCEPT ![d][r] = now]
      /\ LeaveThen(d, r) /\ (UNCHANGED vars \/ KnowsAtOnce(d, was.got))
      /\ IsHanded(was) \/ was.at = "judge"
      /\ waiting' = [waiting EXCEPT ![d] = was.got] /\ Spend("fail")
  BY DEF CouldNotApply, ShowsNext
<1>2. /\ was.got \in Made /\ was.handed \cup {was.got} \in SUBSET Made /\ d \in Devices
      /\ ShownThen(was) \in SUBSET Made
  BY <1>1, RoundHolds DEF IsHanded
<1> HIDE DEF was
<1>3. NowOK(next)
  BY <1>2, NextIsOK, KeptMade DEF ShowInv
<1> HIDE DEF next
<1>4. NowOK(now)
  BY <1>3, IdleIsOK
<1> HIDE DEF now
<1>5. Steps
  BY <1>1, <1>2, KnowsSteps, StaySteps
<1>6. budget' \in Budget
  BY <1>1, SpendsTyped DEF Faults
<1>7. /\ told' \in [Running -> [Relays -> SUBSET Made]]
      /\ given' \in [Running -> [Relays -> Made \cup {0}]]
      /\ waiting' \in [Running -> Made \cup {0}]
      /\ said' \in [Running -> [Relays -> SUBSET Made]]
  BY <1>1, <1>2, LeaveTyped DEF ShowInv, ShapeOK
<1> QED
  BY <1>1, <1>4, <1>5, <1>6, <1>7, OneRound, ZenonT(60), SMTT(60)

LEMMA ShowFailsKeeps ==
  ASSUME ShowInv, NEW d \in Running, NEW r \in Relays, ShowFails(d, r)
  PROVE  ShowInv' /\ Steps
<1>1. /\ UNCHANGED <<vars, held, waiting, said>>
      /\ round' = [round EXCEPT ![d][r] = Idle]
      /\ told' = [told EXCEPT ![d][r] = {}]
      /\ given' = [given EXCEPT ![d][r] = 0] /\ Spend("drop")
  BY DEF ShowFails
<1>2. budget' \in Budget
  BY <1>1, SpendsTyped DEF Faults
<1>3. /\ told' \in [Running -> [Relays -> SUBSET Made]]
      /\ given' \in [Running -> [Relays -> Made \cup {0}]]
      /\ waiting' \in [Running -> Made \cup {0}]
      /\ said' \in [Running -> [Relays -> SUBSET Made]]
  BY <1>1 DEF ShowInv, ShapeOK
<1>4. Steps
  BY <1>1, StaySteps
<1> QED
  BY <1>1, <1>2, <1>3, <1>4, IdleIsOK, OneRound, ZenonT(60), SMTT(60)

LEMMA RefusedForNowKeeps ==
  ASSUME ShowInv, NEW d \in Running, NEW r \in Relays, RefusedForNow(d, r)
  PROVE  ShowInv' /\ Steps
<1>1. /\ UNCHANGED <<vars, held, told, given, waiting, said>>
      /\ round' = [round EXCEPT ![d][r] = Idle] /\ Spend("drop")
  BY DEF RefusedForNow
<1>2. budget' \in Budget
  BY <1>1, SpendsTyped DEF Faults
<1>3. /\ told' \in [Running -> [Relays -> SUBSET Made]]
      /\ given' \in [Running -> [Relays -> Made \cup {0}]]
      /\ waiting' \in [Running -> Made \cup {0}]
      /\ said' \in [Running -> [Relays -> SUBSET Made]]
  BY <1>1 DEF ShowInv, ShapeOK
<1>4. Steps
  BY <1>1, StaySteps
<1> QED
  BY <1>1, <1>2, <1>3, <1>4, IdleIsOK, OneRound, ZenonT(60), SMTT(60)

LEMMA RestartKeeps ==
  ASSUME ShowInv, NEW d \in Running, Restart(d)
  PROVE  ShowInv' /\ Steps
<1>1. /\ UNCHANGED <<vars, held, said>>
      /\ round' = [round EXCEPT ![d] = [r \in Relays |-> Idle]]
      /\ told' = [told EXCEPT ![d] = [r \in Relays |-> {}]]
      /\ given' = [given EXCEPT ![d] = [r \in Relays |-> 0]]
      /\ waiting' = [waiting EXCEPT ![d] = 0] /\ Spend("drop")
  BY DEF Restart
<1>2. Steps
  BY <1>1, StaySteps
<1>3. IInv' /\ Made' = Made /\ changes' = changes
  BY <1>2, AfterSteps DEF ShowInv
<1>4. /\ told' \in [Running -> [Relays -> SUBSET Made]]
      /\ given' \in [Running -> [Relays -> Made \cup {0}]]
      /\ waiting' \in [Running -> Made \cup {0}]
      /\ said' \in [Running -> [Relays -> SUBSET Made]]
  BY <1>1 DEF ShowInv, ShapeOK
<1>5. \A e \in Running, q \in Relays : NowOK(round'[e][q])
  <2>1. \A e \in Running, q \in Relays : round'[e][q] = IF e = d THEN Idle ELSE round[e][q]
    BY <1>1 DEF ShowInv, ShapeOK
  <2> QED
    BY <2>1, IdleIsOK DEF ShowInv, ShapeOK
<1>6. round' \in [Running -> [Relays -> Round]]
  BY <1>1, IdleIsOK DEF NowOK, ShowInv, ShapeOK
<1>7. Round' = Round /\ Budget' = Budget
  BY <1>3 DEF Round, Budget
<1>8. \A e \in Running, q \in Relays : NowOK(round[e][q])'
  BY <1>3, <1>5, <1>7 DEF NowOK
<1>9. budget' \in Budget
  BY <1>1, SpendsTyped DEF Faults
<1> QED
  BY <1>1, <1>2, <1>3, <1>4, <1>6, <1>7, <1>8, <1>9 DEF ShowInv, ShapeOK, HeadsOK

-----------------------------------------------------------------------------
\* Changes are only ever added to.
Grows == Made \subseteq Made' /\ \A c \in Made : changes'[c] = changes[c]

LEMMA StepGrows ==
  ASSUME IInv, [Next]_vars
  PROVE  Grows
<1>1. ASSUME UNCHANGED changes PROVE Grows
  BY <1>1 DEF Grows, Made
<1>2. ASSUME NEW d \in Devices, Make(d) PROVE Grows
  <2>1. prompt[d].over # 0 /\ AsShown(d) /\ changes' = Append(changes, prompt[d].change)
    BY <1>2 DEF Make, Answered
  <2>2. prompt[d].change \in Change
    BY <2>1, Answer
  <2> QED
    BY <2>1, <2>2, Appended DEF Grows, IInv
<1>3. ASSUME NEW d \in Devices, NEW c \in Made, Hear(d, c) \/ KnowShown(d, c)
      PROVE  UNCHANGED changes
  BY <1>3, HearSteps DEF KnowShown, Steps
<1>4. CASE UNCHANGED vars
  BY <1>1, <1>4 DEF vars
<1> QED
  BY <1>1, <1>2, <1>3, <1>4 DEF Next, Ask, NotMade, Move

\* Where changes are added, and no more than what waits is dealt with.
LEMMA NoRound ==
  ASSUME ShowInv, [Next]_vars, UNCHANGED <<held, told, round, given, budget, said>>,
         waiting' \in [Running -> Made \cup {0}]
  PROVE  ShowInv'
<1>1. IInv' /\ Grows
  BY StepKeeps, StepGrows DEF ShowInv
<1>2. held' \in [Relays -> SUBSET Made'] /\ \A r \in Relays : HeadsOK(changes', held'[r])
  BY <1>1 DEF ShowInv, ShapeOK, HeadsOK, Grows
<1>3. /\ told' \in [Running -> [Relays -> SUBSET Made']]
      /\ given' \in [Running -> [Relays -> Made' \cup {0}]]
      /\ waiting' \in [Running -> Made' \cup {0}]
      /\ said' \in [Running -> [Relays -> SUBSET Made']]
      /\ budget' \in Budget'
  BY <1>1 DEF ShowInv, ShapeOK, Grows, Budget
<1>4. Round \subseteq Round'
  BY <1>1 DEF Round, Grows
<1>5. round' \in [Running -> [Relays -> Round']]
  BY <1>4 DEF ShowInv, ShapeOK
<1>6. \A e \in Running, q \in Relays : NowOK(round[e][q])'
  <2>1. ASSUME NEW e \in Running, NEW q \in Relays
        PROVE  NowOK(round[e][q])'
    <3>1. NowOK(round[e][q]) /\ round'[e][q] = round[e][q]
      BY DEF ShowInv, ShapeOK
    <3> QED
      BY <1>1, <1>4, <3>1 DEF NowOK, Grows
  <2> QED
    BY <2>1
<1> QED
  BY <1>1, <1>2, <1>3, <1>5, <1>6 DEF ShowInv, ShapeOK

LEMMA TryAgainKeeps ==
  ASSUME ShowInv, NEW d \in Running, TryAgain(d)
  PROVE  ShowInv' /\ Steps
<1>1. /\ UNCHANGED <<held, told, round, given, budget, said>>
      /\ waiting[d] # 0 /\ Judged(d, waiting[d])
      /\ waiting' = [waiting EXCEPT ![d] = 0]
  BY DEF TryAgain
<1>2. waiting[d] \in Made /\ waiting' \in [Running -> Made \cup {0}]
  BY <1>1 DEF ShowInv, ShapeOK
<1>3. Steps
  BY <1>1, <1>2, JudgedSteps, RunningAssumption
<1> QED
  BY <1>1, <1>2, <1>3, NoRound DEF Steps

LEMMA MovesKeeps ==
  ASSUME ShowInv, NEW d \in Devices, Moves(d)
  PROVE  ShowInv' /\ Steps
<1>1. /\ UNCHANGED <<held, told, round, given, budget, said>> /\ Move(d)
      /\ waiting' = [e \in Running |-> IF e = d THEN 0 ELSE waiting[e]]
  BY DEF Moves
<1>2. waiting' \in [Running -> Made \cup {0}]
  BY <1>1 DEF ShowInv, ShapeOK
<1>3. Steps
  BY <1>1, MoveSteps
<1> QED
  BY <1>1, <1>2, <1>3, NoRound DEF Steps

LEMMA CommandsKeep ==
  ASSUME ShowInv, NEW d \in Devices, Commands(d)
  PROVE  ShowInv' /\ [Next]_vars
<1>1. [Next]_vars /\ UNCHANGED <<held, told, round, given, waiting, budget, said>>
  BY DEF Commands, shows, Next
<1>2. waiting' \in [Running -> Made \cup {0}]
  BY <1>1 DEF ShowInv, ShapeOK
<1> QED
  BY <1>1, <1>2, NoRound

LEMMA VisitsKeep ==
  ASSUME ShowInv, NEW d \in Devices, NEW r \in Relays, Visits(d, r)
  PROVE  ShowInv' /\ Steps
<1>1. CASE /\ \E c \in Keeps(d) : held' = [held EXCEPT ![r] = HeadsWith(@, c)]
           /\ UNCHANGED <<vars, told, round, given, waiting, budget, said>>
  <2>1. PICK c \in Keeps(d) : held' = [held EXCEPT ![r] = HeadsWith(held[r], c)]
    BY <1>1
  <2>2. c \in Made /\ held[r] \in SUBSET Made /\ HeadsOK(changes, held[r])
    BY KeptMade DEF ShowInv, ShapeOK
  <2>3. HeadsWith(held[r], c) \in SUBSET Made /\ HeadsOK(changes, HeadsWith(held[r], c))
    BY <2>2, KeepsHeads DEF ShowInv
  <2>4. Steps
    BY <1>1, StaySteps
  <2>5. IInv' /\ Made' = Made /\ changes' = changes
    BY <2>4, AfterSteps DEF ShowInv
  <2>6. held' \in [Relays -> SUBSET Made] /\ \A q \in Relays : HeadsOK(changes, held'[q])
    BY <2>1, <2>3 DEF ShowInv, ShapeOK
  <2>7. Round' = Round /\ Budget' = Budget
    BY <2>5 DEF Round, Budget
  <2>8. \A e \in Running, q \in Relays : NowOK(round[e][q])'
    BY <1>1, <2>5, <2>7 DEF NowOK, ShowInv, ShapeOK
  <2> QED
    BY <1>1, <2>4, <2>5, <2>6, <2>7, <2>8 DEF ShowInv, ShapeOK
<1>2. CASE (\E c \in held[r] : Hear(d, c)) /\ UNCHANGED shows
  <2>1. PICK c \in held[r] : Hear(d, c)
    BY <1>2
  <2>2. c \in Made
    BY DEF ShowInv, ShapeOK
  <2>3. Steps /\ UNCHANGED <<held, told, round, given, waiting, budget, said>>
    BY <1>2, <2>1, <2>2, HearSteps DEF shows
  <2>4. waiting' \in [Running -> Made \cup {0}]
    BY <2>3 DEF ShowInv, ShapeOK
  <2> QED
    BY <2>3, <2>4, NoRound DEF Steps
<1> QED
  BY <1>1, <1>2 DEF Visits

-----------------------------------------------------------------------------
(***************************************************************************)
(* The invariant, and what follows from it.                                *)
(***************************************************************************)
LEMMA ShowInitHolds ==
  ASSUME ShowInit
  PROVE  ShowInv
<1>1. IInv
  BY InitHolds DEF ShowInit
<1>2. changes = <<First>> /\ Made = {1} /\ changes[1].chain = {}
  BY DEF ShowInit, Init, Made, First
<1>3. HeadsOK(changes, {1})
  <2>1. Cardinality({1}) = 1
    BY FS_Singleton
  <2> QED
    BY <1>2, <2>1, MostHeadsAssumption DEF HeadsOK
<1>4. Idle \in Round
  BY DEF Idle, Round
<1>5. budget \in Budget
  BY BudgetsAssumption DEF ShowInit, Budget
<1>6. /\ held \in [Relays -> SUBSET Made]
      /\ \A r \in Relays : HeadsOK(changes, held[r])
  BY <1>2, <1>3 DEF ShowInit
<1>7. /\ round \in [Running -> [Relays -> Round]]
      /\ \A d \in Running, r \in Relays : NowOK(round[d][r])
  BY <1>4, IdleIsOK DEF ShowInit
<1>8. /\ told \in [Running -> [Relays -> SUBSET Made]]
      /\ given \in [Running -> [Relays -> Made \cup {0}]]
      /\ waiting \in [Running -> Made \cup {0}]
      /\ said \in [Running -> [Relays -> SUBSET Made]]
  BY DEF ShowInit
<1> QED
  BY <1>1, <1>5, <1>6, <1>7, <1>8 DEF ShowInv, ShapeOK

LEMMA ShowStepKeeps ==
  ASSUME ShowInv, [ShowNext]_showVars
  PROVE  ShowInv' /\ [Next]_vars
<1>1. CASE UNCHANGED showVars
  <2>1. Steps /\ UNCHANGED <<held, told, round, given, waiting, budget, said>>
    BY <1>1, StaySteps DEF showVars, shows
  <2>2. waiting' \in [Running -> Made \cup {0}]
    BY <2>1 DEF ShowInv, ShapeOK
  <2> QED
    BY <2>1, <2>2, NoRound DEF Steps
<1>2. budget.at \subseteq Devices /\ budget.up \subseteq Relays /\ Running \subseteq Devices
  BY RunningAssumption DEF ShowInv, ShapeOK, Budget
<1>3. ASSUME NEW d \in budget.at, Commands(d) PROVE ShowInv' /\ [Next]_vars
  BY <1>2, <1>3, CommandsKeep
<1>4. ASSUME NEW d \in budget.at \cup Running, Moves(d) PROVE ShowInv' /\ [Next]_vars
  BY <1>2, <1>4, MovesKeeps DEF Steps
<1>5. ASSUME NEW d \in budget.at \ Running, NEW r \in budget.up, Visits(d, r)
      PROVE  ShowInv' /\ [Next]_vars
  BY <1>2, <1>5, VisitsKeep DEF Steps
<1>6. ASSUME NEW d \in Running, TryAgain(d) \/ Restart(d) PROVE ShowInv' /\ [Next]_vars
  BY <1>6, TryAgainKeeps, RestartKeeps DEF Steps
<1>7. ASSUME NEW d \in Running, NEW r \in Relays,
             RoundStep(d, r) \/ CouldNotApply(d, r) \/ ShowFails(d, r) \/ RefusedForNow(d, r)
      PROVE  ShowInv' /\ [Next]_vars
  <2>1. CASE Begin(d, r)
    BY <2>1, BeginKeeps DEF Steps
  <2>2. CASE RelayAnswers(d, r)
    BY <2>2, RelayAnswersKeeps DEF Steps
  <2>3. CASE TakeHeld(d, r)
    BY <2>3, TakeHeldKeeps DEF Steps
  <2>4. CASE TakeKept(d, r)
    BY <2>4, TakeKeptKeeps DEF Steps
  <2>5. CASE Wait(d, r)
    BY <2>5, WaitKeeps DEF Steps
  <2>6. CASE Judge(d, r)
    BY <2>6, JudgeKeeps DEF Steps
  <2>7. CASE CouldNotApply(d, r)
    BY <2>7, CouldNotApplyKeeps DEF Steps
  <2>8. CASE ShowFails(d, r)
    BY <2>8, ShowFailsKeeps DEF Steps
  <2>9. CASE RefusedForNow(d, r)
    BY <2>9, RefusedForNowKeeps DEF Steps
  <2> QED
    BY <1>7, <2>1, <2>2, <2>3, <2>4, <2>5, <2>6, <2>7, <2>8, <2>9 DEF RoundStep
<1> QED
  BY <1>1, <1>3, <1>4, <1>5, <1>6, <1>7 DEF ShowNext

LEMMA ShowInvariance == ShowSpec => []ShowInv
<1>1. ShowInit => ShowInv
  BY ShowInitHolds
<1>2. ShowInv /\ [ShowNext]_showVars => ShowInv'
  BY ShowStepKeeps
<1> QED
  BY <1>1, <1>2, PTL DEF ShowSpec

\* The rounds keep their shape, and a relay keeps some heads, at most
\* MAX_CHANGE_HEADS, none behind another, whatever it is shown (decide of
\* relay.rs).
THEOREM RoundsKeepShape == ShowSpec => []RoundsOK
<1>1. ShowInv => RoundsOK
  BY DEF ShowInv, ShapeOK, RoundsOK, Round, HeadsOK
<1> QED
  BY <1>1, ShowInvariance, PTL

\* Whatever relays hand, and however shows, answers and connections are lost,
\* what devices come to keep is what Lineage has them come to.
THEOREM ShowingImplements == ShowSpec => ImplementsLineage
<1>1. ShowInit => Init
  BY DEF ShowInit
<1>2. ShowInv /\ [ShowNext]_showVars => [Next]_vars
  BY ShowStepKeeps
<1> QED
  BY <1>1, <1>2, ShowInvariance, PTL DEF ShowSpec, Spec, ImplementsLineage

\* So no device that shows at relays seals for a key that any change it took
\* removes.
THEOREM ShowingSeals == ShowSpec => []SealsForNoRemoved
BY ShowingImplements, Sealing DEF ImplementsLineage

-----------------------------------------------------------------------------
(***************************************************************************)
(* Leave, where every change that is handed can be applied.                *)
(***************************************************************************)
\* What a device that knows these removals does not learn from a round: what
\* it showed, what a connection saw whole, but for the one that is judged
\* next, and what the relay held when it said that it held nothing later.
RoundKnows(cs, known, now, saw, held0) ==
  /\ \A c \in now.mine : cs[c].removes \subseteq known
  /\ now.at # "idle" => now.of \in now.mine
  /\ \A c \in saw :
       \/ cs[c].removes \subseteq known
       \/ now.at \in {"answered", "judge"} /\ now.got = c
  /\ \A c \in held0 : cs[c].removes \subseteq known

KnownInv == \A d \in Running, r \in Relays :
  Going(d) => RoundKnows(changes, knows[d], round[d][r], told[d][r], said[d][r])

AllApplied == budget.left["fail"] = 0 /\ \A d \in Running : waiting[d] = 0

LeaveInv == ShowInv /\ AllApplied /\ KnownInv

\* A device only learns, and one that stops does not go on again.
LEMMA OnlyLearns ==
  ASSUME IInv, [Next]_vars, NEW d \in Devices
  PROVE  knows[d] \subseteq knows'[d] /\ (Going(d)' => Going(d))
<1>1. CASE UNCHANGED vars
  BY <1>1 DEF vars, devices, Going
<1>2. ASSUME NEW e \in Devices, NEW c \in Made, Hear(e, c)
      PROVE  knows[d] \subseteq knows'[d] /\ (Going(d)' => Going(d))
  <2>1. Going(e) /\ knows' = [knows EXCEPT ![e] = KnowsWith(e, c)]
    BY <1>2 DEF Hear, Behind, StopRemoved, StopNotListed, ApplyShown, SetAside, PastBound,
                IsAside, IsNews, IsShown, Learns
  <2>2. state' = [state EXCEPT ![e] = state'[e]]
    BY <1>2 DEF Hear, Behind, StopRemoved, StopNotListed, ApplyShown, SetAside, PastBound,
                IsAside, Follow, Stop, IInv, TypeOK
  <2> QED
    BY <2>1, <2>2 DEF Going, KnowsWith, IInv, TypeOK
<1>3. ASSUME NEW e \in Devices, NEW c \in Made, KnowShown(e, c)
      PROVE  knows[d] \subseteq knows'[d] /\ (Going(d)' => Going(d))
  <2>1. state[e] = "applied" /\ knows' = [knows EXCEPT ![e] = KnowsWith(e, c)]
    BY <1>3 DEF KnowShown, Learns
  <2>2. state' = [state EXCEPT ![e] = state'[e]]
    BY <1>3 DEF KnowShown, IInv, TypeOK
  <2> QED
    BY <2>1, <2>2 DEF Going, KnowsWith, IInv, TypeOK
<1>4. ASSUME NEW e \in Devices, Move(e)
      PROVE  knows[d] \subseteq knows'[d] /\ (Going(d)' => Going(d))
  BY <1>4 DEF Move, Follow, Going, IInv, TypeOK
<1>5. ASSUME NEW e \in Devices, Make(e)
      PROVE  knows[d] \subseteq knows'[d] /\ (Going(d)' => Going(d))
  BY <1>5 DEF Make, AsShown, Follow, Going, IInv, TypeOK
<1>6. ASSUME NEW e \in Devices, Ask(e) \/ NotMade(e)
      PROVE  knows[d] \subseteq knows'[d] /\ (Going(d)' => Going(d))
  BY <1>6 DEF Ask, NotMade, devices, Going
<1> QED
  BY <1>1, <1>2, <1>3, <1>4, <1>5, <1>6 DEF Next

\* What it keeps removes nothing that it does not know.
LEMMA KnowsKept ==
  ASSUME IInv, NEW d \in Devices, Going(d), NEW c \in Keeps(d)
  PROVE  changes[c].removes \subseteq knows[d]
BY GoesOn

\* Once a change is judged, neither does that change.
LEMMA JudgedKnows ==
  ASSUME IInv, NEW d \in Devices, NEW c \in Made, Judged(d, c), Going(d)'
  PROVE  changes[c].removes \subseteq knows'[d]
<1>1. Going(d)
  BY JudgedSteps, OnlyLearns DEF Steps
<1>2. CASE c \in Keeps(d)
  BY <1>1, <1>2, KnowsKept, JudgedSteps, OnlyLearns DEF Steps
<1>3. CASE c \notin Keeps(d)
  <2>1. Hear(d, c)
    BY <1>1, <1>3 DEF Judged
  <2>2. knows' = [knows EXCEPT ![d] = KnowsWith(d, c)]
    BY <2>1 DEF Hear, Behind, StopRemoved, StopNotListed, ApplyShown, SetAside, PastBound,
                IsAside, IsNews, Learns
  <2>3. d \notin changes[c].removes
    <3>1. CASE Behind(d, c)
      BY <1>1, <3>1, NothingNew DEF Behind
    <3>2. CASE StopRemoved(d, c) \/ StopNotListed(d, c)
      BY <3>2 DEF StopRemoved, StopNotListed, Stop, Going, IInv, TypeOK
    <3>3. CASE ApplyShown(d, c)
      BY <3>3 DEF ApplyShown, Applies, IInv, ChangesInv, ChangeOK
    <3>4. CASE SetAside(d, c) \/ PastBound(d, c)
      BY <3>4 DEF SetAside, PastBound, IsAside
    <3> QED
      BY <2>1, <3>1, <3>2, <3>3, <3>4 DEF Hear
  <2> QED
    BY <2>2, <2>3 DEF KnowsWith, IInv, TypeOK
<1> QED
  BY <1>2, <1>3

\* A round known so stays known as changes are made and removals learnt.
LEMMA StaysKnown ==
  ASSUME ShowInv, [Next]_vars, NEW d \in Running, NEW r \in Relays,
         NEW now \in Round, NEW saw \in SUBSET Made, NEW held0 \in SUBSET Made,
         RoundKnows(changes, knows[d], now, saw, held0)
  PROVE  RoundKnows(changes', knows'[d], now, saw, held0)
<1>1. Grows /\ knows[d] \subseteq knows'[d]
  BY StepGrows, OnlyLearns, RunningAssumption DEF ShowInv
<1>2. now.mine \subseteq Made
  BY DEF Round
<1> QED
  BY <1>1, <1>2 DEF RoundKnows, Grows

\* A step of one round keeps the invariant where it does for that round.
LEMMA OneRoundKnows ==
  ASSUME LeaveInv, [Next]_vars, NEW d \in Running, NEW r \in Relays,
         \A e \in Running, q \in Relays : e # d \/ q # r =>
           round'[e][q] = round[e][q] /\ told'[e][q] = told[e][q] /\ said'[e][q] = said[e][q],
         Going(d)' => RoundKnows(changes', knows'[d], round'[d][r], told'[d][r], said'[d][r])
  PROVE  KnownInv'
<1>1. ASSUME NEW e \in Running, NEW q \in Relays, Going(e)'
      PROVE  RoundKnows(changes', knows'[e], round'[e][q], told'[e][q], said'[e][q])
  <2>1. CASE e = d /\ q = r
    BY <1>1, <2>1
  <2>2. CASE e # d \/ q # r
    <3>1. Going(e)
      BY <1>1, OnlyLearns, RunningAssumption DEF LeaveInv, ShowInv
    <3>2. RoundKnows(changes, knows[e], round[e][q], told[e][q], said[e][q])
      BY <3>1 DEF LeaveInv, KnownInv
    <3>3. round[e][q] \in Round /\ told[e][q] \in SUBSET Made /\ said[e][q] \in SUBSET Made
      BY DEF LeaveInv, ShowInv, ShapeOK
    <3>4. RoundKnows(changes', knows'[e], round[e][q], told[e][q], said[e][q])
      BY <3>2, <3>3, StaysKnown, ZenonT(60) DEF LeaveInv
    <3> QED
      BY <2>2, <3>4
  <2> QED
    BY <2>1, <2>2
<1> QED
  BY <1>1 DEF KnownInv

\* What a round holds under the invariant, its device going on before a step
\* as after it.
LEMMA KnownBefore ==
  ASSUME LeaveInv, [Next]_vars, NEW d \in Running, NEW r \in Relays, Going(d)'
  PROVE  /\ d \in Devices /\ Going(d) /\ IInv /\ Grows /\ knows[d] \subseteq knows'[d]
         /\ round[d][r] \in Round /\ told[d][r] \in SUBSET Made /\ said[d][r] \in SUBSET Made
         /\ RoundKnows(changes, knows[d], round[d][r], told[d][r], said[d][r])
<1>1. d \in Devices /\ IInv
  BY RunningAssumption DEF LeaveInv, ShowInv
<1>2. Going(d) /\ knows[d] \subseteq knows'[d]
  BY <1>1, OnlyLearns
<1> QED
  BY <1>1, <1>2, StepGrows DEF LeaveInv, ShowInv, ShapeOK, KnownInv

\* After a step as well, what a device keeps removes nothing that it does
\* not know.
LEMMA KnowsKeptThen ==
  ASSUME IInv', NEW d \in Devices, Going(d)'
  PROVE  /\ \A c \in heads'[d] \cup {follows'[d]} : changes'[c].removes \subseteq knows'[d]
         /\ follows'[d] \in Made' /\ heads'[d] \in SUBSET Made'
<1>1. DeviceOK(changes', d, follows'[d], heads'[d], knows'[d], state'[d], seen'[d])
  BY DEF IInv, DevicesInv
<1>2. follows'[d] \in Made' /\ heads'[d] \in SUBSET Made'
  BY DEF IInv, TypeOK
<1> QED
  BY <1>1, <1>2 DEF DeviceOK, Going

\* A round that goes on shows one of what is kept.
LEMMA NextKnows ==
  ASSUME IInv, NEW f \in Made, NEW aside \in SUBSET Made, NEW due \in BOOLEAN,
         NEW shown \in SUBSET Made, NEW handed \in SUBSET Made, NEW known,
         NEW saw, NEW held0,
         \A c \in (aside \cup {f}) \cup saw \cup held0 : changes[c].removes \subseteq known
  PROVE  RoundKnows(changes, known, NextShow(f, aside, due, shown, handed), saw, held0)
<1> DEFINE of == IF due THEN f ELSE Lowest(aside \ shown)
           next == [at |-> "asked", of |-> of, due |-> due, mine |-> aside \cup {f},
                    shown |-> shown, handed |-> handed, got |-> 0]
<1>1. CASE due \/ aside \ shown # {}
  <2>1. of \in aside \cup {f}
    <3>1. CASE due
      BY <3>1
    <3>2. CASE ~due
      <4>1. aside \ shown \in SUBSET Made /\ aside \ shown # {}
        BY <1>1, <3>2
      <4>2. Lowest(aside \ shown) \in aside \ shown
        BY <4>1, LowestIn DEF IInv
      <4> QED
        BY <3>2, <4>2
    <3> QED
      BY <3>1, <3>2
  <2>2. NextShow(f, aside, due, shown, handed) = next
    BY <1>1 DEF NextShow
  <2>3. next.mine = aside \cup {f} /\ next.of = of /\ next.at = "asked"
    OBVIOUS
  <2> HIDE DEF next, of
  <2> QED
    BY <2>1, <2>2, <2>3 DEF RoundKnows
<1>2. CASE ~(due \/ aside \ shown # {})
  BY <1>2 DEF NextShow, RoundKnows, Idle
<1> QED
  BY <1>1, <1>2

LEMMA IdleKnows ==
  ASSUME NEW known, NEW saw, NEW held0,
         \A c \in saw \cup held0 : changes[c].removes \subseteq known
  PROVE  RoundKnows(changes, known, Idle, saw, held0)
BY DEF RoundKnows, Idle

LEMMA BeginKnows ==
  ASSUME LeaveInv, NEW d \in Running, NEW r \in Relays, Begin(d, r)
  PROVE  KnownInv'
<1>1. /\ UNCHANGED <<vars, told, said>> /\ round[d][r].at = "idle"
      /\ round' = [round EXCEPT ![d][r] = NextShow(follows[d], heads[d], TRUE, {}, {})]
  BY DEF Begin, ShowsNext
<1>2. [Next]_vars
  BY <1>1
<1>3. ASSUME Going(d)'
      PROVE  RoundKnows(changes', knows'[d], round'[d][r], told'[d][r], said'[d][r])
  <2>1. /\ d \in Devices /\ Going(d) /\ IInv
        /\ RoundKnows(changes, knows[d], round[d][r], told[d][r], said[d][r])
    BY <1>2, <1>3, KnownBefore
  <2>2. /\ \A c \in told[d][r] \cup said[d][r] : changes[c].removes \subseteq knows[d]
    BY <1>1, <2>1 DEF RoundKnows
  <2>3. /\ \A c \in heads[d] \cup {follows[d]} : changes[c].removes \subseteq knows[d]
        /\ follows[d] \in Made /\ heads[d] \in SUBSET Made
    BY <2>1, KnowsKept, KeptMade DEF Keeps
  <2>4. RoundKnows(changes, knows[d], NextShow(follows[d], heads[d], TRUE, {}, {}),
                   told[d][r], said[d][r])
    BY <2>1, <2>2, <2>3, NextKnows
  <2>5. round'[d][r] = NextShow(follows[d], heads[d], TRUE, {}, {})
    BY <1>1 DEF LeaveInv, ShowInv, ShapeOK
  <2> QED
    BY <1>1, <2>4, <2>5 DEF vars, devices
<1>4. \A e \in Running, q \in Relays : e # d \/ q # r =>
        round'[e][q] = round[e][q] /\ told'[e][q] = told[e][q] /\ said'[e][q] = said[e][q]
  BY <1>1 DEF LeaveInv, ShowInv, ShapeOK
<1> QED
  BY <1>2, <1>3, <1>4, OneRoundKnows, ZenonT(60), SMTT(60)

LEMMA RelayAnswersKnows ==
  ASSUME LeaveInv, NEW d \in Running, NEW r \in Relays, RelayAnswers(d, r)
  PROVE  KnownInv'
<1> DEFINE was == round[d][r]
           c == was.of
           kept == HeadsWith(held[r], c)
           got == AnswerTo(kept, told[d][r] \cup {c}, c)
           now == [was EXCEPT !.at = "answered", !.got = got]
<1>1. /\ UNCHANGED vars /\ was.at = "asked"
      /\ told' = [told EXCEPT ![d][r] = (told[d][r] \cup {c, got}) \ {0}]
      /\ round' = [round EXCEPT ![d][r].at = "answered", ![d][r].got = got]
      /\ said' = [said EXCEPT ![d][r] = IF was.due /\ got = 0 THEN kept ELSE said[d][r]]
  BY DEF RelayAnswers
<1>2. [Next]_vars
  BY <1>1
<1>3. \A e \in Running, q \in Relays : e # d \/ q # r =>
        round'[e][q] = round[e][q] /\ told'[e][q] = told[e][q] /\ said'[e][q] = said[e][q]
  <2> HIDE DEF got, kept, c, was
  <2> QED
    BY <1>1 DEF LeaveInv, ShowInv, ShapeOK
<1>4. /\ c \in Made /\ kept \in SUBSET Made /\ got \in Made \cup {0}
      /\ got = 0 => kept \subseteq (told[d][r] \cup {c}) \cup changes[c].chain
  BY <1>1, RelaySays DEF LeaveInv
<1>5. was \in Round
  BY DEF LeaveInv, ShowInv, ShapeOK
<1>6. ASSUME Going(d)'
      PROVE  RoundKnows(changes', knows'[d], round'[d][r], told'[d][r], said'[d][r])
  <2>1. /\ IInv /\ told[d][r] \in SUBSET Made
        /\ RoundKnows(changes, knows[d], was, told[d][r], said[d][r])
    BY <1>2, <1>6, KnownBefore
  <2> HIDE DEF got, kept, c
  <2>2. c \in was.mine /\ \A h \in told[d][r] \cup was.mine \cup said[d][r] :
                            changes[h].removes \subseteq knows[d]
    BY <1>1, <2>1 DEF RoundKnows, c
  <2>3. \A h \in changes[c].chain : changes[h].removes \subseteq knows[d]
    BY <1>4, <2>1, <2>2 DEF IInv, ChangesInv, ChangeOK
  <2>4. got = 0 => \A h \in kept : changes[h].removes \subseteq knows[d]
    BY <1>4, <2>2, <2>3
  <2>5. now.at = "answered" /\ now.got = got /\ now.mine = was.mine /\ now.of = c
    BY <1>5 DEF Round, c
  <2>6. round'[d][r] = now
    BY <1>1 DEF LeaveInv, ShowInv, ShapeOK
  <2>7. /\ told'[d][r] = (told[d][r] \cup {c, got}) \ {0}
        /\ said'[d][r] = IF was.due /\ got = 0 THEN kept ELSE said[d][r]
    <3> HIDE DEF was
    <3> QED
      BY <1>1 DEF LeaveInv, ShowInv, ShapeOK
  <2> HIDE DEF now, was
  <2>8. \A h \in said'[d][r] : changes[h].removes \subseteq knows[d]
    BY <2>2, <2>4, <2>7
  <2>9. \A h \in told'[d][r] : changes[h].removes \subseteq knows[d] \/ h = got
    BY <2>2, <2>7
  <2>10. RoundKnows(changes, knows[d], now, told'[d][r], said'[d][r])
    BY <2>2, <2>5, <2>8, <2>9 DEF RoundKnows
  <2> QED
    BY <1>1, <2>6, <2>10 DEF vars, devices
<1> HIDE DEF got, kept, c, was
<1> QED
  BY <1>2, <1>3, <1>6, OneRoundKnows, ZenonT(60), SMTT(60)

LEMMA TakeHeldKnows ==
  ASSUME LeaveInv, NEW d \in Running, NEW r \in Relays, TakeHeld(d, r)
  PROVE  KnownInv'
<1> DEFINE was == round[d][r]
           now == NextShow(follows[d], heads[d], FALSE, ShownThen(was), was.handed)
<1>1. /\ UNCHANGED <<vars, told, said>> /\ was.at = "answered" /\ was.got = 0
      /\ round' = [round EXCEPT ![d][r] = now]
  BY DEF TakeHeld, ShowsNext
<1>2. [Next]_vars
  BY <1>1
<1>3. \A e \in Running, q \in Relays : e # d \/ q # r =>
        round'[e][q] = round[e][q] /\ told'[e][q] = told[e][q] /\ said'[e][q] = said[e][q]
  BY <1>1 DEF LeaveInv, ShowInv, ShapeOK
<1>4. ShownThen(was) \in SUBSET Made /\ was.handed \in SUBSET Made
  BY <1>1, RoundHolds DEF LeaveInv, Round
<1>5. ASSUME Going(d)'
      PROVE  RoundKnows(changes', knows'[d], round'[d][r], told'[d][r], said'[d][r])
  <2>1. /\ d \in Devices /\ Going(d) /\ IInv /\ told[d][r] \in SUBSET Made
        /\ RoundKnows(changes, knows[d], was, told[d][r], said[d][r])
    BY <1>2, <1>5, KnownBefore
  <2>2. 0 \notin told[d][r]
    BY <2>1, ChangeTyped DEF IInv
  <2>3. \A c \in told[d][r] \cup said[d][r] : changes[c].removes \subseteq knows[d]
    BY <1>1, <2>1, <2>2 DEF RoundKnows
  <2>4. /\ \A c \in heads[d] \cup {follows[d]} : changes[c].removes \subseteq knows[d]
        /\ follows[d] \in Made /\ heads[d] \in SUBSET Made
    BY <2>1, KnowsKept, KeptMade DEF Keeps
  <2>5. round'[d][r] = now
    BY <1>1 DEF LeaveInv, ShowInv, ShapeOK
  <2> HIDE DEF was
  <2>6. RoundKnows(changes, knows[d], now, told[d][r], said[d][r])
    BY <1>4, <2>1, <2>3, <2>4, NextKnows
  <2> HIDE DEF now
  <2> QED
    BY <1>1, <2>5, <2>6 DEF vars, devices
<1> HIDE DEF now, was
<1> QED
  BY <1>2, <1>3, <1>5, OneRoundKnows, ZenonT(60), SMTT(60)

LEMMA TakeKeptKnows ==
  ASSUME LeaveInv, NEW d \in Running, NEW r \in Relays, TakeKept(d, r)
  PROVE  KnownInv'
<1> DEFINE was == round[d][r]
           next == NextShow(follows[d], heads[d], TRUE, ShownThen(was), was.handed \cup {was.got})
           now == IF was.got \in was.handed THEN Idle ELSE next
<1>1. /\ UNCHANGED <<vars, told, said>> /\ was.at = "answered" /\ was.got \in was.mine
      /\ round' = [round EXCEPT ![d][r] = now]
  BY DEF TakeKept, ShowsNext
<1>2. [Next]_vars
  BY <1>1
<1>3. \A e \in Running, q \in Relays : e # d \/ q # r =>
        round'[e][q] = round[e][q] /\ told'[e][q] = told[e][q] /\ said'[e][q] = said[e][q]
  BY <1>1 DEF LeaveInv, ShowInv, ShapeOK
<1>4. ShownThen(was) \in SUBSET Made /\ was.handed \cup {was.got} \in SUBSET Made
  BY <1>1, RoundHolds DEF LeaveInv, Round
<1>5. ASSUME Going(d)'
      PROVE  RoundKnows(changes', knows'[d], round'[d][r], told'[d][r], said'[d][r])
  <2>1. /\ d \in Devices /\ Going(d) /\ IInv
        /\ RoundKnows(changes, knows[d], was, told[d][r], said[d][r])
    BY <1>2, <1>5, KnownBefore
  <2>2. \A c \in told[d][r] \cup said[d][r] : changes[c].removes \subseteq knows[d]
    BY <1>1, <2>1 DEF RoundKnows
  <2>3. /\ \A c \in heads[d] \cup {follows[d]} : changes[c].removes \subseteq knows[d]
        /\ follows[d] \in Made /\ heads[d] \in SUBSET Made
    BY <2>1, KnowsKept, KeptMade DEF Keeps
  <2>4. round'[d][r] = now
    BY <1>1 DEF LeaveInv, ShowInv, ShapeOK
  <2> HIDE DEF was
  <2>5. RoundKnows(changes, knows[d], next, told[d][r], said[d][r])
    BY <1>4, <2>1, <2>2, <2>3, NextKnows
  <2>6. RoundKnows(changes, knows[d], Idle, told[d][r], said[d][r])
    BY <2>2, IdleKnows
  <2> HIDE DEF next
  <2> QED
    BY <1>1, <2>4, <2>5, <2>6 DEF vars, devices
<1> HIDE DEF now, was
<1> QED
  BY <1>2, <1>3, <1>5, OneRoundKnows, ZenonT(60), SMTT(60)

LEMMA WaitKnows ==
  ASSUME LeaveInv, NEW d \in Running, NEW r \in Relays, Wait(d, r)
  PROVE  KnownInv'
<1> DEFINE was == round[d][r]
           now == [was EXCEPT !.at = "judge"]
<1>1. /\ UNCHANGED <<told, said>> /\ was.at = "answered"
      /\ KnowsAtOnce(d, was.got)
      /\ round' = [round EXCEPT ![d][r].at = "judge"]
  BY DEF Wait, IsHanded
<1>2. was.got \in Made /\ d \in Devices /\ was \in Round
  BY RoundHolds DEF LeaveInv, Wait
<1>3. [Next]_vars
  BY <1>1, <1>2, KnowsSteps DEF Steps
<1>4. \A e \in Running, q \in Relays : e # d \/ q # r =>
        round'[e][q] = round[e][q] /\ told'[e][q] = told[e][q] /\ said'[e][q] = said[e][q]
  BY <1>1 DEF LeaveInv, ShowInv, ShapeOK
<1>5. round'[d][r] = now /\ told'[d][r] = told[d][r] /\ said'[d][r] = said[d][r]
  BY <1>1 DEF LeaveInv, ShowInv, ShapeOK
<1>6. /\ now \in Round /\ now.at = "judge" /\ now.got = was.got /\ now.mine = was.mine
      /\ now.of = was.of
  BY <1>2 DEF Round
<1> HIDE DEF now, was
<1>7. ASSUME Going(d)'
      PROVE  RoundKnows(changes', knows'[d], round'[d][r], told'[d][r], said'[d][r])
  <2>1. /\ told[d][r] \in SUBSET Made /\ said[d][r] \in SUBSET Made
        /\ RoundKnows(changes, knows[d], was, told[d][r], said[d][r])
    BY <1>3, <1>7, KnownBefore DEF was
  <2>2. RoundKnows(changes, knows[d], now, told[d][r], said[d][r])
    BY <1>1, <1>6, <2>1 DEF RoundKnows
  <2>3. RoundKnows(changes', knows'[d], now, told[d][r], said[d][r])
    BY <1>3, <1>6, <2>1, <2>2, StaysKnown, ZenonT(60) DEF LeaveInv
  <2> QED
    BY <1>5, <2>3
<1> QED
  BY <1>3, <1>4, <1>7, OneRoundKnows, ZenonT(60), SMTT(60)

LEMMA JudgeKnows ==
  ASSUME LeaveInv, NEW d \in Running, NEW r \in Relays, Judge(d, r)
  PROVE  KnownInv'
<1> DEFINE was == round[d][r]
           due == IsTaken(d, was.got)
           next == NextShow(follows'[d], heads'[d], due, ShownThen(was), was.handed \cup {was.got})
           now == IF was.due /\ ~due THEN Idle ELSE next
<1>1. /\ UNCHANGED <<told, said>> /\ Judged(d, was.got)
      /\ IsHanded(was) \/ was.at = "judge"
      /\ round' = [round EXCEPT ![d][r] = now]
  BY DEF Judge
<1>2. /\ was.got \in Made /\ was.handed \cup {was.got} \in SUBSET Made /\ d \in Devices
      /\ ShownThen(was) \in SUBSET Made
  BY <1>1, RoundHolds DEF LeaveInv, IsHanded
<1>3. due \in BOOLEAN
  BY DEF IsTaken
<1>4. Steps
  BY <1>1, <1>2, JudgedSteps
<1>5. [Next]_vars /\ IInv /\ IInv' /\ Made' = Made /\ changes' = changes
  BY <1>4, AfterSteps DEF LeaveInv, ShowInv, Steps
<1> HIDE DEF due
<1>6. /\ \A e \in Running, q \in Relays : e # d \/ q # r =>
           round'[e][q] = round[e][q] /\ told'[e][q] = told[e][q] /\ said'[e][q] = said[e][q]
      /\ round'[d][r] = now
  <2> HIDE DEF now
  <2> QED
    BY <1>1 DEF LeaveInv, ShowInv, ShapeOK
<1>7. ASSUME Going(d)'
      PROVE  RoundKnows(changes', knows'[d], round'[d][r], told'[d][r], said'[d][r])
  <2>1. /\ knows[d] \subseteq knows'[d]
        /\ RoundKnows(changes, knows[d], was, told[d][r], said[d][r])
    BY <1>5, <1>7, KnownBefore
  <2>2. changes[was.got].removes \subseteq knows'[d]
    BY <1>1, <1>2, <1>5, <1>7, JudgedKnows
  <2>3. \A c \in told[d][r] \cup said[d][r] : changes[c].removes \subseteq knows'[d]
    <3> HIDE DEF was
    <3> QED
      BY <2>1, <2>2 DEF RoundKnows
  <2>4. /\ \A c \in heads'[d] \cup {follows'[d]} : changes[c].removes \subseteq knows'[d]
        /\ follows'[d] \in Made /\ heads'[d] \in SUBSET Made
    BY <1>2, <1>5, <1>7, KnowsKeptThen
  <2> HIDE DEF was
  <2>5. RoundKnows(changes, knows'[d], next, told[d][r], said[d][r])
    BY <1>2, <1>3, <1>5, <2>3, <2>4, NextKnows
  <2>6. RoundKnows(changes, knows'[d], Idle, told[d][r], said[d][r])
    BY <2>3, IdleKnows
  <2> HIDE DEF next
  <2> QED
    BY <1>1, <1>5, <1>6, <2>5, <2>6
<1> HIDE DEF now, was
<1> QED
  BY <1>5, <1>6, <1>7, OneRoundKnows, ZenonT(60), SMTT(60)

LEMMA ShowFailsKnows ==
  ASSUME LeaveInv, NEW d \in Running, NEW r \in Relays, ShowFails(d, r)
  PROVE  KnownInv'
<1>1. /\ UNCHANGED <<vars, said>>
      /\ round' = [round EXCEPT ![d][r] = Idle]
      /\ told' = [told EXCEPT ![d][r] = {}]
  BY DEF ShowFails
<1>2. [Next]_vars
  BY <1>1
<1>3. /\ \A e \in Running, q \in Relays : e # d \/ q # r =>
           round'[e][q] = round[e][q] /\ told'[e][q] = told[e][q] /\ said'[e][q] = said[e][q]
      /\ round'[d][r] = Idle /\ told'[d][r] = {} /\ said'[d][r] = said[d][r]
  BY <1>1 DEF LeaveInv, ShowInv, ShapeOK
<1>4. ASSUME Going(d)'
      PROVE  RoundKnows(changes', knows'[d], round'[d][r], told'[d][r], said'[d][r])
  <2>1. RoundKnows(changes, knows[d], round[d][r], told[d][r], said[d][r])
    BY <1>2, <1>4, KnownBefore
  <2>2. \A c \in {} \cup said[d][r] : changes[c].removes \subseteq knows[d]
    BY <2>1 DEF RoundKnows
  <2>3. RoundKnows(changes, knows[d], Idle, {}, said[d][r])
    BY <2>2, IdleKnows
  <2> QED
    BY <1>1, <1>3, <2>3 DEF vars, devices
<1> QED
  BY <1>2, <1>3, <1>4, OneRoundKnows, ZenonT(60), SMTT(60)

LEMMA RefusedForNowKnows ==
  ASSUME LeaveInv, NEW d \in Running, NEW r \in Relays, RefusedForNow(d, r)
  PROVE  KnownInv'
<1>1. /\ UNCHANGED <<vars, told, said>> /\ round[d][r].at = "asked"
      /\ round' = [round EXCEPT ![d][r] = Idle]
  BY DEF RefusedForNow
<1>2. [Next]_vars
  BY <1>1
<1>3. /\ \A e \in Running, q \in Relays : e # d \/ q # r =>
           round'[e][q] = round[e][q] /\ told'[e][q] = told[e][q] /\ said'[e][q] = said[e][q]
      /\ round'[d][r] = Idle /\ told'[d][r] = told[d][r] /\ said'[d][r] = said[d][r]
  BY <1>1 DEF LeaveInv, ShowInv, ShapeOK
<1>4. ASSUME Going(d)'
      PROVE  RoundKnows(changes', knows'[d], round'[d][r], told'[d][r], said'[d][r])
  <2>1. RoundKnows(changes, knows[d], round[d][r], told[d][r], said[d][r])
    BY <1>2, <1>4, KnownBefore
  <2>2. \A c \in told[d][r] \cup said[d][r] : changes[c].removes \subseteq knows[d]
    BY <1>1, <2>1 DEF RoundKnows
  <2>3. RoundKnows(changes, knows[d], Idle, told[d][r], said[d][r])
    BY <2>2, IdleKnows
  <2> QED
    BY <1>1, <1>3, <2>3 DEF vars, devices
<1> QED
  BY <1>2, <1>3, <1>4, OneRoundKnows

LEMMA RestartKnows ==
  ASSUME LeaveInv, NEW d \in Running, Restart(d)
  PROVE  KnownInv'
<1>1. /\ UNCHANGED <<vars, said>>
      /\ round' = [round EXCEPT ![d] = [r \in Relays |-> Idle]]
      /\ told' = [told EXCEPT ![d] = [r \in Relays |-> {}]]
  BY DEF Restart
<1>2. [Next]_vars
  BY <1>1
<1>3. ASSUME NEW e \in Running, NEW r \in Relays, Going(e)'
      PROVE  RoundKnows(changes', knows'[e], round'[e][r], told'[e][r], said'[e][r])
  <2>1. RoundKnows(changes, knows[e], round[e][r], told[e][r], said[e][r])
    BY <1>2, <1>3, KnownBefore
  <2>2. CASE e = d
    <3>1. round'[e][r] = Idle /\ told'[e][r] = {} /\ said'[e][r] = said[e][r]
      BY <1>1, <2>2 DEF LeaveInv, ShowInv, ShapeOK
    <3>2. \A c \in {} \cup said[e][r] : changes[c].removes \subseteq knows[e]
      BY <2>1 DEF RoundKnows
    <3>3. RoundKnows(changes, knows[e], Idle, {}, said[e][r])
      BY <3>2, IdleKnows
    <3> QED
      BY <1>1, <3>1, <3>3 DEF vars, devices
  <2>3. CASE e # d
    <3>1. round'[e][r] = round[e][r] /\ told'[e][r] = told[e][r] /\ said'[e][r] = said[e][r]
      BY <1>1, <2>3 DEF LeaveInv, ShowInv, ShapeOK
    <3> QED
      BY <1>1, <2>1, <3>1 DEF vars, devices
  <2> QED
    BY <2>2, <2>3
<1> QED
  BY <1>3 DEF KnownInv

\* Where no round goes on, what is known stays known.
LEMMA NoRoundKnows ==
  ASSUME LeaveInv, [Next]_vars, UNCHANGED <<told, round, said>>
  PROVE  KnownInv'
<1>1. ASSUME NEW e \in Running, NEW r \in Relays, Going(e)'
      PROVE  RoundKnows(changes', knows'[e], round'[e][r], told'[e][r], said'[e][r])
  <2>1. /\ round[e][r] \in Round /\ told[e][r] \in SUBSET Made /\ said[e][r] \in SUBSET Made
        /\ RoundKnows(changes, knows[e], round[e][r], told[e][r], said[e][r])
    BY <1>1, KnownBefore
  <2>2. RoundKnows(changes', knows'[e], round[e][r], told[e][r], said[e][r])
    BY <2>1, StaysKnown, ZenonT(60) DEF LeaveInv
  <2> QED
    BY <2>2
<1> QED
  BY <1>1 DEF KnownInv

LEMMA AllStayApplied ==
  ASSUME LeaveInv, UNCHANGED budget \/ Spend("drop"),
         \/ UNCHANGED waiting
         \/ \E d \in Running : waiting' = [waiting EXCEPT ![d] = 0]
         \/ \E d \in Devices : waiting' = [e \in Running |-> IF e = d THEN 0 ELSE waiting[e]]
  PROVE  AllApplied'
<1>1. budget'.left["fail"] = 0
  <2>1. budget \in Budget /\ budget.left["fail"] = 0
    BY DEF LeaveInv, AllApplied, ShowInv, ShapeOK
  <2>2. CASE Spend("drop")
    <3>1. budget' = [budget EXCEPT !.left["drop"] = budget.left["drop"] - 1]
      BY <2>2 DEF Spend
    <3>2. budget'.left = [budget.left EXCEPT !["drop"] = budget.left["drop"] - 1]
      BY <2>1, <3>1 DEF Budget
    <3> QED
      BY <2>1, <3>2 DEF Budget, Faults
  <2> QED
    BY <2>1, <2>2
<1>2. \A e \in Running : waiting'[e] = 0
  BY DEF LeaveInv, AllApplied, ShowInv, ShapeOK
<1> QED
  BY <1>1, <1>2 DEF AllApplied

LEMMA LeaveInitHolds ==
  ASSUME ShowInit, \A b \in Budgets : b.left["fail"] = 0
  PROVE  LeaveInv
<1>1. AllApplied
  BY DEF ShowInit, AllApplied
<1>2. ASSUME NEW d \in Running, NEW r \in Relays
      PROVE  RoundKnows(changes, knows[d], round[d][r], told[d][r], said[d][r])
  BY IdleKnows DEF ShowInit
<1> QED
  BY <1>1, <1>2, ShowInitHolds DEF LeaveInv, KnownInv

LEMMA LeaveStepKeeps ==
  ASSUME LeaveInv, [ShowNext]_showVars
  PROVE  LeaveInv'
<1>1. ShowInv' /\ [Next]_vars
  BY ShowStepKeeps DEF LeaveInv
<1>2. budget.at \subseteq Devices /\ Running \subseteq Devices
  BY RunningAssumption DEF LeaveInv, ShowInv, ShapeOK, Budget
<1>3. ~Spend("fail") /\ \A d \in Running : waiting[d] = 0
  BY DEF LeaveInv, AllApplied, Spend
<1>4. CASE UNCHANGED showVars
  BY <1>1, <1>4, NoRoundKnows, AllStayApplied DEF LeaveInv, showVars, shows
<1>5. ASSUME NEW d \in budget.at, Commands(d) PROVE LeaveInv'
  BY <1>1, <1>5, NoRoundKnows, AllStayApplied DEF LeaveInv, Commands, shows
<1>6. ASSUME NEW d \in budget.at \cup Running, Moves(d) PROVE LeaveInv'
  BY <1>1, <1>2, <1>6, NoRoundKnows, AllStayApplied DEF LeaveInv, Moves
<1>7. ASSUME NEW d \in budget.at \ Running, NEW r \in budget.up, Visits(d, r) PROVE LeaveInv'
  BY <1>1, <1>7, NoRoundKnows, AllStayApplied DEF LeaveInv, Visits, shows
<1>8. ASSUME NEW d \in Running, TryAgain(d) PROVE LeaveInv'
  BY <1>3, <1>8 DEF TryAgain
<1>9. ASSUME NEW d \in Running, Restart(d) PROVE LeaveInv'
  BY <1>1, <1>9, RestartKnows, AllStayApplied DEF LeaveInv, Restart
<1>10. ASSUME NEW d \in Running, NEW r \in Relays, Begin(d, r) PROVE LeaveInv'
  <2>1. UNCHANGED <<waiting, budget>>
    BY <1>3, <1>10 DEF Begin
  <2> QED
    BY <1>1, <1>10, <2>1, BeginKnows, AllStayApplied DEF LeaveInv
<1>11. ASSUME NEW d \in Running, NEW r \in Relays, RelayAnswers(d, r) PROVE LeaveInv'
  BY <1>1, <1>11, RelayAnswersKnows, AllStayApplied DEF LeaveInv, RelayAnswers
<1>12. ASSUME NEW d \in Running, NEW r \in Relays, TakeHeld(d, r) PROVE LeaveInv'
  BY <1>1, <1>12, TakeHeldKnows, AllStayApplied DEF LeaveInv, TakeHeld
<1>13. ASSUME NEW d \in Running, NEW r \in Relays, TakeKept(d, r) PROVE LeaveInv'
  BY <1>1, <1>13, TakeKeptKnows, AllStayApplied DEF LeaveInv, TakeKept
<1>14. ASSUME NEW d \in Running, NEW r \in Relays, Wait(d, r) PROVE LeaveInv'
  BY <1>1, <1>14, WaitKnows, AllStayApplied DEF LeaveInv, Wait
<1>15. ASSUME NEW d \in Running, NEW r \in Relays, Judge(d, r) PROVE LeaveInv'
  BY <1>1, <1>15, JudgeKnows, AllStayApplied DEF LeaveInv, Judge
<1>16. ASSUME NEW d \in Running, NEW r \in Relays, CouldNotApply(d, r) PROVE LeaveInv'
  BY <1>3, <1>16 DEF CouldNotApply
<1>17. ASSUME NEW d \in Running, NEW r \in Relays, ShowFails(d, r) PROVE LeaveInv'
  BY <1>1, <1>17, ShowFailsKnows, AllStayApplied DEF LeaveInv, ShowFails
<1>18. ASSUME NEW d \in Running, NEW r \in Relays, RefusedForNow(d, r) PROVE LeaveInv'
  BY <1>1, <1>18, RefusedForNowKnows, AllStayApplied DEF LeaveInv, RefusedForNow
<1> QED
  BY <1>4, <1>5, <1>6, <1>7, <1>8, <1>9, <1>10, <1>11, <1>12, <1>13, <1>14, <1>15, <1>16,
     <1>17, <1>18 DEF ShowNext, RoundStep

\* Where each change handed can be applied, a device with leave at a relay
\* knows the removals of every head the relay held when it said that it held
\* nothing later: whatever changes are made apart, however the rounds at the
\* relays interleave, and whichever shows and answers are lost or devices
\* restart (leave.rs, device_entries.rs, rule 18).
THEOREM LeaveAlwaysKnows ==
  ASSUME \A b \in Budgets : b.left["fail"] = 0
  PROVE  ShowSpec => []LeaveKnows
<1>1. ShowInit => LeaveInv
  BY LeaveInitHolds
<1>2. LeaveInv /\ [ShowNext]_showVars => LeaveInv'
  BY LeaveStepKeeps
<1>3. LeaveInv => LeaveKnows
  BY DEF LeaveInv, KnownInv, RoundKnows, LeaveKnows, Has, Going
<1> QED
  BY <1>1, <1>2, <1>3, PTL DEF ShowSpec
-----------------------------------------------------------------------------
(***************************************************************************)
(* While a change waits its turn: what a device has left behind it never   *)
(* seals under again.                                                      *)
(***************************************************************************)
\* A device keeps this change no more but behind another, or knows a removal
\* of a key that holds its secret.
Passed(d, of) == Going(d) =>
  BehindOneOf(of, Keeps(d)) /\ (of \in Keeps(d) => ~Clear(knows[d], of))

\* It seals under it no more, though it may follow it still.
Shut(d, of) == Passed(d, of) \/ (follows[d] = of /\ state[d] # "applied")

\* A step leads a device on: what it kept it keeps, or has behind what it
\* keeps, and no change comes back that it had behind.
LeadsOn(d) ==
  /\ \A h \in Keeps(d) : h \in Keeps(d)' \/ \E k \in Keeps(d)' : h \in changes'[k].chain
  /\ \A h \in Keeps(d)' : h \in Keeps(d) \/ ~BehindOneOf(h, Keeps(d))
  /\ follows'[d] # follows[d] =>
       follows[d] \notin Keeps(d)' \/ ~Clear(knows[d], follows[d])
  /\ follows'[d] = follows[d] /\ state[d] # "applied" => state'[d] # "applied"

LEMMA StaysOn ==
  ASSUME NEW d, follows'[d] = follows[d], heads'[d] = heads[d],
         state[d] # "applied" => state'[d] # "applied"
  PROVE  LeadsOn(d)
BY DEF LeadsOn, Keeps

\* Shown a change that it did not have behind what it keeps, a device keeps
\* that one and what it was not made after.
LEMMA TakesOn ==
  ASSUME NEW d, NEW c, UNCHANGED changes, ~BehindOneOf(c, Keeps(d)),
         \/ /\ follows'[d] = c /\ heads'[d] = Apart(d, c)
            /\ follows[d] \in changes[c].chain
         \/ /\ follows'[d] = follows[d] /\ heads'[d] = Apart(d, c) \cup {c}
            /\ state[d] # "applied" => state'[d] # "applied"
  PROVE  LeadsOn(d)
<1> DEFINE kept == heads'[d] \cup {follows'[d]}
<1>1. Keeps(d)' = kept /\ Keeps(d) = heads[d] \cup {follows[d]}
  BY DEF Keeps
<1>2. c \in kept /\ c \notin Keeps(d)
  BY DEF Keeps, BehindOneOf
<1>3. \A h \in Keeps(d) : h \in kept \/ h \in changes[c].chain
  BY <1>1 DEF Apart
<1>4. \A h \in kept : h \in Keeps(d) \/ h = c
  BY <1>1 DEF Apart
<1>5. follows'[d] # follows[d] => follows[d] \notin kept
  BY <1>1, <1>2 DEF Apart
<1>6. follows'[d] = follows[d] /\ state[d] # "applied" => state'[d] # "applied"
  BY <1>1, <1>2
<1> HIDE DEF kept
<1> QED
  BY <1>1, <1>2, <1>3, <1>4, <1>5, <1>6 DEF LeadsOn

LEMMA HearLeadsOn ==
  ASSUME IInv, NEW d \in Devices, NEW c \in Made, Hear(d, c), Going(d)'
  PROVE  LeadsOn(d)
<1>1. /\ follows \in [Devices -> Made] /\ heads \in [Devices -> SUBSET Made]
      /\ state \in [Devices -> {"applied", "closed", "removed", "notListed"}]
  BY DEF IInv, TypeOK
<1>2. CASE Behind(d, c)
  BY <1>2, StaysOn DEF Behind
<1>3. CASE StopRemoved(d, c) \/ StopNotListed(d, c)
  BY <1>1, <1>3 DEF StopRemoved, StopNotListed, Stop, Going
<1>4. CASE ApplyShown(d, c)
  <2>1. /\ UNCHANGED changes /\ ~BehindOneOf(c, Keeps(d))
        /\ follows'[d] = c /\ heads'[d] = Apart(d, c) /\ follows[d] \in changes[c].chain
    BY <1>1, <1>4 DEF ApplyShown, IsNews, IsShown, Applies, After, Follow
  <2> QED
    BY <2>1, TakesOn
<1>5. CASE SetAside(d, c)
  <2>1. /\ UNCHANGED changes /\ ~BehindOneOf(c, Keeps(d))
        /\ follows'[d] = follows[d] /\ heads'[d] = Apart(d, c) \cup {c}
    BY <1>1, <1>5 DEF SetAside, IsAside, IsNews, IsShown
  <2>2. state[d] # "applied" => state'[d] # "applied"
    BY <1>1, <1>5 DEF SetAside
  <2> QED
    BY <2>1, <2>2, TakesOn
<1>6. CASE PastBound(d, c)
  <2>1. heads[d] = Apart(d, c)
    BY <1>6, NoneOnTheChain DEF PastBound, IInv
  <2>2. follows'[d] = follows[d] /\ heads'[d] = heads[d] /\ state'[d] # "applied"
    BY <1>1, <1>6, <2>1 DEF PastBound, IsAside
  <2> QED
    BY <2>2, StaysOn
<1> QED
  BY <1>2, <1>3, <1>4, <1>5, <1>6 DEF Hear

LEMMA MoveLeadsOn ==
  ASSUME IInv, NEW d \in Devices, Move(d)
  PROVE  LeadsOn(d)
<1>1. PICK to \in Open(d) :
        /\ ~Clear(knows[d], follows[d]) /\ UNCHANGED changes
        /\ Follow(d, to, (Keeps(d) \ {to}) \ changes[to].chain)
  BY DEF Move
<1> DEFINE kept == heads'[d] \cup {follows'[d]}
<1>2. follows'[d] = to /\ heads'[d] = (Keeps(d) \ {to}) \ changes[to].chain
  BY <1>1 DEF Follow, IInv, TypeOK
<1>3. to \in Keeps(d) /\ Keeps(d)' = kept /\ follows'[d] # follows[d]
  BY <1>1, <1>2 DEF Open, Keeps
<1>4. \A h \in Keeps(d) : h \in kept \/ h \in changes[to].chain
  BY <1>2
<1>5. kept \subseteq Keeps(d) /\ to \in kept
  BY <1>2, <1>3
<1> HIDE DEF kept
<1> QED
  BY <1>1, <1>3, <1>4, <1>5 DEF LeadsOn

LEMMA MakeLeadsOn ==
  ASSUME IInv, NEW d \in Devices, Make(d)
  PROVE  LeadsOn(d)
<1> DEFINE new == prompt[d].change
           n == Len(changes) + 1
<1>1. /\ prompt[d].over # 0 /\ AsShown(d) /\ changes' = Append(changes, new)
      /\ follows'[d] = n /\ heads'[d] = heads[d] \ new.chain
  BY DEF Make, Answered, Follow, IInv, TypeOK
<1>2. new \in Change /\ Keeps(d) \subseteq new.chain /\ Keeps(d) \subseteq Made
  BY <1>1, Answer, GoesOn
<1>3. n \notin Made /\ changes'[n] = new
  BY <1>1, <1>2, Appended DEF IInv
<1>4. \A h \in Keeps(d) : changes[h].chain \subseteq Made
  BY <1>2 DEF IInv, ChangesInv, ChangeOK, Made
<1> HIDE DEF new, n
<1>5. Keeps(d)' = {n}
  BY <1>1, <1>2 DEF Keeps
<1>6. follows[d] \in Keeps(d)
  BY DEF Keeps
<1> QED
  BY <1>1, <1>2, <1>3, <1>4, <1>5, <1>6 DEF LeadsOn, BehindOneOf

LEMMA StepLeadsOn ==
  ASSUME IInv, [Next]_vars, NEW d \in Devices, Going(d)'
  PROVE  LeadsOn(d)
<1>1. /\ follows \in [Devices -> Made] /\ heads \in [Devices -> SUBSET Made]
      /\ state \in [Devices -> {"applied", "closed", "removed", "notListed"}]
  BY DEF IInv, TypeOK
<1>2. ASSUME UNCHANGED <<follows, heads, state>> PROVE LeadsOn(d)
  BY <1>2, StaysOn
<1>3. ASSUME NEW e \in Devices \ {d},
             \E f, h, s : /\ follows' = [follows EXCEPT ![e] = f]
                          /\ heads' = [heads EXCEPT ![e] = h]
                          /\ state' = [state EXCEPT ![e] = s]
      PROVE  LeadsOn(d)
  BY <1>1, <1>3, StaysOn
<1>4. ASSUME NEW e \in Devices, NEW c \in Made, Hear(e, c) PROVE LeadsOn(d)
  <2>1. CASE e = d
    BY <1>4, <2>1, HearLeadsOn
  <2>2. CASE e # d
    <3>1. /\ follows' = [follows EXCEPT ![e] = follows'[e]]
          /\ heads' = [heads EXCEPT ![e] = heads'[e]]
          /\ state' = [state EXCEPT ![e] = state'[e]]
      BY <1>1, <1>4 DEF Hear, Behind, StopRemoved, StopNotListed, ApplyShown, SetAside,
                        PastBound, IsAside, Follow, Stop
    <3> QED
      BY <1>3, <2>2, <3>1
  <2> QED
    BY <2>1, <2>2
<1>5. ASSUME NEW e \in Devices, NEW c \in Made, KnowShown(e, c) PROVE LeadsOn(d)
  <2>1. UNCHANGED <<follows, heads>> /\ (state[d] # "applied" => state'[d] # "applied")
    BY <1>1, <1>5 DEF KnowShown
  <2> QED
    BY <2>1, StaysOn
<1>6. ASSUME NEW e \in Devices, Move(e) PROVE LeadsOn(d)
  BY <1>3, <1>6, MoveLeadsOn DEF Move, Follow
<1>7. ASSUME NEW e \in Devices, Make(e) PROVE LeadsOn(d)
  BY <1>3, <1>7, MakeLeadsOn DEF Make, Follow
<1>8. ASSUME NEW e \in Devices, Ask(e) \/ NotMade(e) PROVE LeadsOn(d)
  BY <1>2, <1>8 DEF Ask, NotMade, devices
<1>9. CASE UNCHANGED vars
  BY <1>2, <1>9 DEF vars, devices
<1> QED
  BY <1>4, <1>5, <1>6, <1>7, <1>8, <1>9 DEF Next

\* So what a device has passed it has passed for good.
LEMMA PassedStays ==
  ASSUME IInv, [Next]_vars, NEW d \in Devices, NEW of \in Made, Passed(d, of)
  PROVE  Passed(d, of)'
<1> SUFFICES ASSUME Going(d)'
             PROVE  /\ BehindOneOf(of, Keeps(d))'
                    /\ of \in Keeps(d)' => ~Clear(knows[d], of)'
  BY DEF Passed
<1>1. Going(d) /\ LeadsOn(d) /\ Grows /\ knows[d] \subseteq knows'[d] /\ IInv'
  BY StepLeadsOn, StepGrows, OnlyLearns, StepKeeps
<1>2. Keeps(d) \subseteq Made /\ heads'[d] \cup {follows'[d]} \subseteq Made'
  BY <1>1, GoesOn DEF IInv, TypeOK
<1>3. BehindOneOf(of, Keeps(d)) /\ (of \in Keeps(d) => ~Clear(knows[d], of))
  BY <1>1 DEF Passed
<1>4. \E k \in Keeps(d)' : of = k \/ of \in changes'[k].chain
  <2>1. PICK h \in Keeps(d) : of = h \/ of \in changes[h].chain
    BY <1>3 DEF BehindOneOf
  <2>2. PICK k \in Keeps(d)' : h = k \/ h \in changes'[k].chain
    BY <1>1 DEF LeadsOn
  <2>3. changes'[h] = changes[h]
    BY <1>1, <1>2 DEF Grows
  <2>4. k \in Made'
    BY <1>2 DEF Keeps
  <2>5. \A b \in changes'[k].chain : changes'[b].chain \subseteq changes'[k].chain
    BY <1>1, <2>4 DEF IInv, ChangesInv, ChangeOK
  <2> QED
    BY <2>1, <2>2, <2>3, <2>5
<1>5. of \in Keeps(d)' => ~Clear(knows[d], of)
  BY <1>1, <1>3 DEF LeadsOn
<1>6. changes'[of] = changes[of]
  BY <1>1 DEF Grows
<1> QED
  BY <1>1, <1>4, <1>5, <1>6 DEF BehindOneOf, Clear

\* A device that comes to follow another change has passed the one it left.
LEMMA LeftIsPassed ==
  ASSUME IInv, [Next]_vars, NEW d \in Devices, NEW of \in Made,
         follows[d] = of, follows'[d] # of
  PROVE  Passed(d, of)'
<1> SUFFICES ASSUME Going(d)'
             PROVE  /\ BehindOneOf(of, Keeps(d))'
                    /\ of \in Keeps(d)' => ~Clear(knows[d], of)'
  BY DEF Passed
<1>1. LeadsOn(d) /\ Grows /\ knows[d] \subseteq knows'[d] /\ of \in Keeps(d)
  BY StepLeadsOn, StepGrows, OnlyLearns DEF Keeps
<1>2. changes'[of] = changes[of]
  BY <1>1 DEF Grows
<1>3. of \notin Keeps(d)' \/ ~Clear(knows[d], of)
  BY <1>1 DEF LeadsOn
<1>4. \E k \in Keeps(d)' : of = k \/ of \in changes'[k].chain
  BY <1>1 DEF LeadsOn
<1> QED
  BY <1>1, <1>2, <1>3, <1>4 DEF BehindOneOf, Clear

LEMMA ShutStays ==
  ASSUME IInv, [Next]_vars, NEW d \in Devices, NEW of \in Made, Shut(d, of)
  PROVE  Shut(d, of)'
<1>1. CASE Passed(d, of)
  BY <1>1, PassedStays DEF Shut
<1>2. CASE follows[d] = of /\ state[d] # "applied"
  <2>1. CASE follows'[d] # of
    BY <1>2, <2>1, LeftIsPassed DEF Shut
  <2>2. CASE follows'[d] = of /\ Going(d)'
    <3>1. state'[d] # "applied"
      BY <1>2, <2>2, StepLeadsOn DEF LeadsOn
    <3> QED
      BY <2>2, <3>1 DEF Shut
  <2>3. CASE follows'[d] = of /\ ~Going(d)'
    BY <2>3 DEF Shut, Passed
  <2> QED
    BY <2>1, <2>2, <2>3
<1> QED
  BY <1>1, <1>2 DEF Shut

\* It seals under it no more.
LEMMA ShutSealsNot ==
  ASSUME IInv, NEW d \in Devices, NEW of \in Made, Shut(d, of), state[d] = "applied"
  PROVE  follows[d] # of
<1>1. Going(d)
  BY DEF Going
<1>2. follows[d] \in Keeps(d) /\ Clear(knows[d], follows[d])
  BY <1>1, GoesOn
<1> QED
  BY <1>1, <1>2 DEF Shut, Passed

-----------------------------------------------------------------------------
(***************************************************************************)
(* What a round that shows the change followed has come to.                *)
(***************************************************************************)
\* It is followed still, or passed; and what waits its turn removes no more
\* than the device knows, or the device seals no more under the one shown.
WaitOK(d, now) == now.due =>
  /\ now.at # "idle" => now.of = follows[d] \/ Passed(d, now.of)
  /\ now.at = "judge" /\ d \notin changes[now.got].removes =>
       changes[now.got].removes \subseteq knows[d] \/ Shut(d, now.of)

WaitInv == ShowInv /\ \A d \in Running, r \in Relays, now \in Round :
  round[d][r] = now => WaitOK(d, now)

\* A round that is left as it is stays so through any step.
LEMMA WaitStays ==
  ASSUME ShowInv, [Next]_vars, NEW d \in Running, NEW now, NowOK(now), WaitOK(d, now)
  PROVE  WaitOK(d, now)'
<1> USE RunningAssumption
<1>1. IInv /\ d \in Devices /\ Grows /\ knows[d] \subseteq knows'[d]
  BY StepGrows, OnlyLearns DEF ShowInv
<1>2. CASE ~now.due \/ now.at = "idle"
  BY <1>2 DEF WaitOK
<1>3. CASE now.due /\ now.at # "idle"
  <2>1. now.of \in Made /\ (now.at = "judge" => now.got \in Made)
    BY <1>3 DEF NowOK
  <2>2. now.of = follows[d] \/ Passed(d, now.of)
    BY <1>3 DEF WaitOK
  <2>3. now.of = follows'[d] \/ Passed(d, now.of)'
    <3> DEFINE of == now.of
    <3>1. of \in Made /\ (of = follows[d] \/ Passed(d, of))
      BY <2>1, <2>2
    <3> HIDE DEF of
    <3>2. of = follows'[d] \/ Passed(d, of)'
      BY <1>1, <3>1, PassedStays, LeftIsPassed
    <3> QED
      BY <3>2 DEF of
  <2>4. ASSUME now.at = "judge", d \notin changes'[now.got].removes
        PROVE  changes'[now.got].removes \subseteq knows'[d] \/ Shut(d, now.of)'
    <3> DEFINE of == now.of
               got == now.got
    <3>1. of \in Made /\ got \in Made
      BY <2>1, <2>4
    <3>2. changes'[got] = changes[got]
      BY <1>1, <3>1 DEF Grows
    <3>3. changes[got].removes \subseteq knows[d] \/ Shut(d, of)
      BY <1>3, <2>4, <3>2 DEF WaitOK
    <3> HIDE DEF of, got
    <3>4. changes'[got].removes \subseteq knows'[d] \/ Shut(d, of)'
      BY <1>1, <3>1, <3>2, <3>3, ShutStays
    <3> QED
      BY <3>4 DEF of, got
  <2> QED
    BY <2>3, <2>4 DEF WaitOK
<1> QED
  BY <1>2, <1>3

\* One that begins, or goes on, shows the change followed, or one set aside.
LEMMA NextIs ==
  ASSUME NEW f, NEW aside, NEW due \in BOOLEAN, NEW shown, NEW handed
  PROVE  LET now == NextShow(f, aside, due, shown, handed) IN
         now.at # "judge" /\ (now.due => now.of = f)
<1> DEFINE next == [at |-> "asked", of |-> IF due THEN f ELSE Lowest(aside \ shown),
                    due |-> due, mine |-> aside \cup {f},
                    shown |-> shown, handed |-> handed, got |-> 0]
<1>1. /\ next.at # "judge" /\ (next.due => next.of = f)
      /\ Idle.at # "judge" /\ ~Idle.due
  BY DEF Idle
<1>2. NextShow(f, aside, due, shown, handed) \in {next, Idle}
  BY DEF NextShow
<1> HIDE DEF next
<1> QED
  BY <1>1, <1>2

LEMMA NoRoundWaits ==
  ASSUME WaitInv, [ShowNext]_showVars, UNCHANGED round
  PROVE  WaitInv'
<1>1. ShowInv' /\ [Next]_vars
  BY ShowStepKeeps DEF WaitInv
<1>2. ASSUME NEW d \in Running, NEW r \in Relays, NEW now, round'[d][r] = now
      PROVE  WaitOK(d, now)'
  <2>1. now \in Round /\ NowOK(now) /\ WaitOK(d, now)
    BY <1>2 DEF WaitInv, ShowInv, ShapeOK, NowOK
  <2> QED
    BY <1>1, <2>1, WaitStays DEF WaitInv
<1> QED
  BY <1>1, <1>2 DEF WaitInv

LEMMA OneRoundWaits ==
  ASSUME WaitInv, [ShowNext]_showVars, NEW d \in Running, NEW r \in Relays,
         NEW was, round' = [round EXCEPT ![d][r] = was], WaitOK(d, was)'
  PROVE  WaitInv'
<1>1. ShowInv' /\ [Next]_vars
  BY ShowStepKeeps DEF WaitInv
<1>2. ASSUME NEW e \in Running, NEW q \in Relays, NEW now, round'[e][q] = now
      PROVE  WaitOK(e, now)'
  <2>1. CASE e = d /\ q = r
    <3>1. now = was
      BY <1>2, <2>1 DEF WaitInv, ShowInv, ShapeOK
    <3> QED
      BY <2>1, <3>1
  <2>2. CASE e # d \/ q # r
    <3>1. round[e][q] = now
      BY <1>2, <2>2 DEF WaitInv, ShowInv, ShapeOK
    <3>2. now \in Round /\ NowOK(now) /\ WaitOK(e, now)
      BY <3>1 DEF WaitInv, ShowInv, ShapeOK, NowOK
    <3> QED
      BY <1>1, <3>2, WaitStays DEF WaitInv
  <2> QED
    BY <2>1, <2>2
<1> QED
  BY <1>1, <1>2 DEF WaitInv

LEMMA RestartWaits ==
  ASSUME WaitInv, [ShowNext]_showVars, NEW d \in Running, Restart(d)
  PROVE  WaitInv'
<1>1. ShowInv' /\ [Next]_vars
  BY ShowStepKeeps DEF WaitInv
<1>2. ASSUME NEW e \in Running, NEW q \in Relays, NEW now, round'[e][q] = now
      PROVE  WaitOK(e, now)'
  <2>1. round'[e][q] = IF e = d THEN Idle ELSE round[e][q]
    BY DEF Restart, WaitInv, ShowInv, ShapeOK
  <2>2. CASE e = d
    <3>1. now.due = FALSE
      BY <1>2, <2>1, <2>2 DEF Idle
    <3> QED
      BY <3>1 DEF WaitOK
  <2>3. CASE e # d
    <3>1. round[e][q] = now
      BY <1>2, <2>1, <2>3
    <3>2. now \in Round /\ NowOK(now) /\ WaitOK(e, now)
      BY <3>1 DEF WaitInv, ShowInv, ShapeOK, NowOK
    <3> QED
      BY <1>1, <3>2, WaitStays DEF WaitInv
  <2> QED
    BY <2>2, <2>3
<1> QED
  BY <1>1, <1>2 DEF WaitInv

\* A round that goes on with another show, or ends.
LEMMA GoesOnWaits ==
  ASSUME WaitInv, [ShowNext]_showVars, NEW d \in Running, NEW r \in Relays,
         NEW f, NEW aside, NEW due \in BOOLEAN, NEW shown, NEW handed, NEW now,
         now = NextShow(f, aside, due, shown, handed) \/ now = Idle,
         now.due => f = follows'[d],
         round' = [round EXCEPT ![d][r] = now]
  PROVE  WaitInv'
<1>1. now.at # "judge" /\ (now.due => now.of = f)
  <2>1. CASE now = NextShow(f, aside, due, shown, handed)
    BY <2>1, NextIs
  <2>2. CASE now = Idle
    BY <2>2 DEF Idle
  <2> QED
    BY <2>1, <2>2
<1>2. WaitOK(d, now)'
  BY <1>1 DEF WaitOK
<1> QED
  BY <1>2, OneRoundWaits

LEMMA ShowsNextWaits ==
  ASSUME WaitInv, [ShowNext]_showVars, NEW d \in Running, NEW r \in Relays,
         NEW due \in BOOLEAN, NEW shown, NEW handed,
         ShowsNext(d, r, due, shown, handed), UNCHANGED follows
  PROVE  WaitInv'
<1>1. PICK now : now = NextShow(follows[d], heads[d], due, shown, handed)
  OBVIOUS
<1>2. PICK f, aside : f = follows[d] /\ aside = heads[d]
  OBVIOUS
<1>3. now = NextShow(f, aside, due, shown, handed) /\ f = follows'[d]
  BY <1>1, <1>2
<1>4. round' = [round EXCEPT ![d][r] = now]
  BY <1>1 DEF ShowsNext
<1> QED
  BY <1>3, <1>4, GoesOnWaits

LEMMA RelayAnswersWaits ==
  ASSUME WaitInv, [ShowNext]_showVars, NEW d \in Running, NEW r \in Relays, RelayAnswers(d, r)
  PROVE  WaitInv'
<1>1. PICK was, got : /\ was = round[d][r] /\ was.at = "asked" /\ UNCHANGED vars
                      /\ round' = [round EXCEPT ![d][r].at = "answered", ![d][r].got = got]
  BY DEF RelayAnswers
<1>2. PICK now : now = [was EXCEPT !.at = "answered", !.got = got]
  OBVIOUS
<1>3. round' = [round EXCEPT ![d][r] = now]
  BY <1>1, <1>2 DEF WaitInv, ShowInv, ShapeOK
<1>4. was \in Round /\ NowOK(was) /\ WaitOK(d, was)
  BY <1>1 DEF WaitInv, ShowInv, ShapeOK
<1>5. WaitOK(d, was)'
  BY <1>4, ShowStepKeeps, WaitStays DEF WaitInv
<1>6. now.at = "answered" /\ now.of = was.of /\ now.due = was.due
  BY <1>2, <1>4 DEF Round
<1>7. WaitOK(d, now)'
  BY <1>1, <1>5, <1>6 DEF WaitOK
<1> QED
  BY <1>3, <1>7, OneRoundWaits

LEMMA WaitWaits ==
  ASSUME WaitInv, [ShowNext]_showVars, NEW d \in Running, NEW r \in Relays, Wait(d, r)
  PROVE  WaitInv'
<1>1. PICK was : was = round[d][r]
  OBVIOUS
<1>2. PICK now : now = [was EXCEPT !.at = "judge"]
  OBVIOUS
<1>3. /\ IsHanded(was) /\ WaitsItsTurn(d, was.got) /\ KnowsAtOnce(d, was.got)
      /\ round' = [round EXCEPT ![d][r].at = "judge"]
  BY <1>1 DEF Wait
<1>4. round' = [round EXCEPT ![d][r] = now]
  BY <1>1, <1>2, <1>3 DEF WaitInv, ShowInv, ShapeOK
<1>5. was \in Round /\ NowOK(was) /\ WaitOK(d, was) /\ was.at = "answered" /\ was.of \in Made
  BY <1>1, <1>3 DEF WaitInv, ShowInv, ShapeOK, IsHanded, NowOK
<1>6. d \in Devices /\ was.got \in Made
  BY <1>1, <1>3, RoundHolds DEF WaitInv
<1>7. IInv /\ [Next]_vars /\ WaitOK(d, was)'
  BY <1>5, ShowStepKeeps, WaitStays DEF WaitInv, ShowInv
<1>8. now.at = "judge" /\ now.of = was.of /\ now.due = was.due /\ now.got = was.got
  BY <1>2, <1>5 DEF Round
<1>9. ASSUME was.due, d \notin changes'[was.got].removes
      PROVE  changes'[was.got].removes \subseteq knows'[d] \/ Shut(d, was.of)'
  <2>1. changes' = changes /\ Going(d)
    BY <1>3, <1>6, KnowsSteps DEF Steps, WaitsItsTurn, IsJudged
  <2>2. CASE state[d] = "applied"
    <3>1. knows' = [knows EXCEPT ![d] = KnowsWith(d, was.got)]
      BY <1>3, <1>9, <2>1, <2>2 DEF KnowsAtOnce, KnowShown, Learns
    <3>2. changes[was.got].removes \subseteq KnowsWith(d, was.got)
      BY <1>6, <1>7, <1>9, <2>1, GoesOn, KnowsWithTyped
    <3>3. knows'[d] = KnowsWith(d, was.got)
      BY <1>6, <1>7, <3>1 DEF IInv, TypeOK
    <3> QED
      BY <2>1, <3>2, <3>3
  <2>3. CASE state[d] # "applied"
    <3>1. was.of = follows[d] \/ Passed(d, was.of)
      BY <1>5, <1>9 DEF WaitOK
    <3>2. Shut(d, was.of)
      BY <2>3, <3>1 DEF Shut
    <3>3. PICK of : of = was.of
      OBVIOUS
    <3>4. Shut(d, of)'
      BY <1>5, <1>6, <1>7, <3>2, <3>3, ShutStays
    <3> QED
      BY <3>3, <3>4
  <2> QED
    BY <2>2, <2>3
<1>10. WaitOK(d, now)'
  <2>1. was.due => was.of = follows'[d] \/ Passed(d, was.of)'
    BY <1>5, <1>7 DEF WaitOK
  <2> QED
    BY <1>8, <1>9, <2>1 DEF WaitOK
<1> QED
  BY <1>4, <1>10, OneRoundWaits

LEMMA JudgeWaits ==
  ASSUME WaitInv, [ShowNext]_showVars, NEW d \in Running, NEW r \in Relays, Judge(d, r)
  PROVE  WaitInv'
<1>1. PICK was : was = round[d][r]
  OBVIOUS
<1>2. PICK due : due = IsTaken(d, was.got)
  OBVIOUS
<1>3. due \in BOOLEAN
  BY <1>2 DEF IsTaken
<1>4. PICK f, aside, shown, handed :
        /\ f = follows'[d] /\ aside = heads'[d]
        /\ shown = ShownThen(was) /\ handed = was.handed \cup {was.got}
  OBVIOUS
<1>5. PICK now : now = IF was.due /\ ~due THEN Idle ELSE NextShow(f, aside, due, shown, handed)
  OBVIOUS
<1>6. round' = [round EXCEPT ![d][r] = now]
  BY <1>1, <1>2, <1>4, <1>5 DEF Judge
<1> QED
  BY <1>3, <1>4, <1>5, <1>6, GoesOnWaits

LEMMA EndsWaits ==
  ASSUME WaitInv, [ShowNext]_showVars, NEW d \in Running, NEW r \in Relays,
         round' = [round EXCEPT ![d][r] = Idle]
  PROVE  WaitInv'
<1>1. WaitOK(d, Idle)'
  BY DEF WaitOK, Idle
<1> QED
  BY <1>1, OneRoundWaits

LEMMA CouldNotApplyWaits ==
  ASSUME WaitInv, [ShowNext]_showVars, NEW d \in Running, NEW r \in Relays,
         CouldNotApply(d, r)
  PROVE  WaitInv'
<1>1. CASE round' = [round EXCEPT ![d][r] = Idle]
  BY <1>1, EndsWaits
<1>2. CASE ShowsNext(d, r, FALSE, ShownThen(round[d][r]),
                     round[d][r].handed \cup {round[d][r].got})
  BY <1>2, ShowsNextWaits DEF CouldNotApply, KnowsAtOnce, KnowShown, vars, devices
<1> QED
  BY <1>1, <1>2 DEF CouldNotApply

LEMMA WaitInitHolds == ShowInit => WaitInv
BY ShowInitHolds DEF ShowInit, WaitInv, WaitOK, Idle

LEMMA WaitStepKeeps ==
  ASSUME WaitInv, [ShowNext]_showVars
  PROVE  WaitInv'
<1>1. CASE UNCHANGED showVars
  BY <1>1, NoRoundWaits DEF showVars, shows
<1>2. ASSUME NEW d \in budget.at, Commands(d) PROVE WaitInv'
  BY <1>2, NoRoundWaits DEF Commands, shows
<1>3. ASSUME NEW d \in budget.at \cup Running, Moves(d) PROVE WaitInv'
  BY <1>3, NoRoundWaits DEF Moves
<1>4. ASSUME NEW d \in budget.at \ Running, NEW r \in budget.up, Visits(d, r) PROVE WaitInv'
  BY <1>4, NoRoundWaits DEF Visits, shows
<1>5. ASSUME NEW d \in Running, TryAgain(d) PROVE WaitInv'
  BY <1>5, NoRoundWaits DEF TryAgain
<1>6. ASSUME NEW d \in Running, Restart(d) PROVE WaitInv'
  BY <1>6, RestartWaits
<1>7. ASSUME NEW d \in Running, NEW r \in Relays, Begin(d, r) PROVE WaitInv'
  BY <1>7, ShowsNextWaits DEF Begin, vars, devices
<1>8. ASSUME NEW d \in Running, NEW r \in Relays, RelayAnswers(d, r) PROVE WaitInv'
  BY <1>8, RelayAnswersWaits
<1>9. ASSUME NEW d \in Running, NEW r \in Relays, TakeHeld(d, r) PROVE WaitInv'
  BY <1>9, ShowsNextWaits DEF TakeHeld, vars, devices
<1>10. ASSUME NEW d \in Running, NEW r \in Relays, TakeKept(d, r) PROVE WaitInv'
  BY <1>10, ShowsNextWaits, EndsWaits DEF TakeKept, vars, devices
<1>11. ASSUME NEW d \in Running, NEW r \in Relays, Wait(d, r) PROVE WaitInv'
  BY <1>11, WaitWaits
<1>12. ASSUME NEW d \in Running, NEW r \in Relays, Judge(d, r) PROVE WaitInv'
  BY <1>12, JudgeWaits
<1>13. ASSUME NEW d \in Running, NEW r \in Relays, CouldNotApply(d, r) PROVE WaitInv'
  BY <1>13, CouldNotApplyWaits
<1>14. ASSUME NEW d \in Running, NEW r \in Relays, ShowFails(d, r) PROVE WaitInv'
  BY <1>14, EndsWaits DEF ShowFails
<1>15. ASSUME NEW d \in Running, NEW r \in Relays, RefusedForNow(d, r) PROVE WaitInv'
  BY <1>15, EndsWaits DEF RefusedForNow
<1> QED
  BY <1>1, <1>2, <1>3, <1>4, <1>5, <1>6, <1>7, <1>8, <1>9, <1>10, <1>11, <1>12, <1>13,
     <1>14, <1>15 DEF ShowNext, RoundStep

\* So with any devices, relays, losses and failures: while a change handed
\* for the one followed waits its turn, its removals are known to the device,
\* which seals under no change whose secret a removed key holds, or the
\* device seals no more under the one that it showed (rule 5).
THEOREM WaitsStayClosed == ShowSpec => []WaitsClosed
<1>1. WaitInv => WaitsClosed
  <2> SUFFICES ASSUME WaitInv, NEW d \in Running, NEW r \in Relays, NEW other \in Relays,
                      NEW now, round[d][r] = now, now.at = "judge", now.due,
                      follows[d] = now.of, Has(d, other), d \notin changes[now.got].removes
               PROVE  changes[now.got].removes \cap changes[now.of].lists = {}
    BY DEF WaitsClosed
  <2>1. now \in Round /\ now.of \in Made /\ WaitOK(d, now)
    BY DEF WaitInv, ShowInv, ShapeOK, NowOK
  <2>2. IInv /\ d \in Devices /\ Going(d) /\ state[d] = "applied"
    BY RunningAssumption DEF WaitInv, ShowInv, Has, Going
  <2>3. ~Shut(d, now.of)
    BY <2>1, <2>2, ShutSealsNot
  <2>4. changes[now.got].removes \subseteq knows[d]
    BY <2>1, <2>3 DEF WaitOK
  <2>5. Clear(knows[d], follows[d])
    BY <2>2, GoesOn
  <2> QED
    BY <2>4, <2>5 DEF Clear
<1>2. ShowInit => WaitInv
  BY WaitInitHolds
<1>3. WaitInv /\ [ShowNext]_showVars => WaitInv'
  BY WaitStepKeeps
<1> QED
  BY <1>1, <1>2, <1>3, PTL DEF ShowSpec
-----------------------------------------------------------------------------
(***************************************************************************)
(* Every change that a connection handed is dealt with, where each can be  *)
(* applied and none is one head too many.                                  *)
(***************************************************************************)
\* No change that there is would be one past the bound.
HasRoom ==
  \A d \in Running : \A c \in Made \ Keeps(d) : Cardinality(Apart(d, c)) + 1 < MostHeads

\* A change is one of those kept, or behind one.
Under(cs, c, kept) == \E h \in kept : c = h \/ c \in cs[h].chain

\* So is, in a round, what the device kept as it chose what it shows, what it
\* shows, and what the connection saw whole, but for the one that is judged
\* next.
Dealt(cs, kept, now, saw) ==
  /\ \A c \in now.mine : Under(cs, c, kept)
  /\ now.at # "idle" => now.of \in now.mine
  /\ \A c \in saw :
       Under(cs, c, kept) \/ (now.at \in {"answered", "judge"} /\ now.got = c)

DealtInv == \A d \in Running, r \in Relays :
  Going(d) => Dealt(changes, heads[d] \cup {follows[d]}, round[d][r], told[d][r])

HandedInv == LeaveInv /\ DealtInv

\* What is kept, or behind what is kept, stays so.
LEMMA UnderStays ==
  ASSUME IInv, [Next]_vars, NEW d \in Devices, Going(d)', NEW c \in Made,
         Under(changes, c, heads[d] \cup {follows[d]})
  PROVE  Under(changes', c, heads'[d] \cup {follows'[d]})
<1>1. LeadsOn(d) /\ Grows /\ IInv' /\ Keeps(d) \subseteq Made
  BY StepLeadsOn, StepGrows, StepKeeps, KeptMade
<1>2. heads'[d] \cup {follows'[d]} \subseteq Made'
  BY <1>1 DEF IInv, TypeOK
<1>3. PICK h \in Keeps(d) : c = h \/ c \in changes[h].chain
  BY DEF Under, Keeps
<1>4. PICK k \in heads'[d] \cup {follows'[d]} : h = k \/ h \in changes'[k].chain
  BY <1>1 DEF LeadsOn, Keeps
<1>5. changes'[h] = changes[h]
  BY <1>1 DEF Grows
<1>6. k \in Made'
  BY <1>2
<1>7. \A b \in changes'[k].chain : changes'[b].chain \subseteq changes'[k].chain
  BY <1>1, <1>6 DEF IInv, ChangesInv, ChangeOK
<1> QED
  BY <1>3, <1>4, <1>5, <1>7 DEF Under

\* A device that has judged a change keeps it, or has it behind what it keeps.
LEMMA JudgedUnder ==
  ASSUME IInv, HasRoom, NEW d \in Running, NEW c \in Made, Judged(d, c), Going(d)'
  PROVE  Under(changes', c, heads'[d] \cup {follows'[d]})
<1>0. d \in Devices /\ Steps /\ [Next]_vars
  BY JudgedSteps, RunningAssumption DEF Steps
<1>1. Going(d)
  BY <1>0, OnlyLearns
<1>2. CASE BehindOneOf(c, Keeps(d))
  BY <1>0, <1>2, UnderStays DEF Under, BehindOneOf, Keeps
<1>3. CASE ~BehindOneOf(c, Keeps(d))
  <2>1. Hear(d, c) /\ c \notin Keeps(d)
    BY <1>1, <1>3 DEF Judged, BehindOneOf
  <2>2. /\ follows \in [Devices -> Made] /\ heads \in [Devices -> SUBSET Made]
        /\ state \in [Devices -> {"applied", "closed", "removed", "notListed"}]
    BY DEF IInv, TypeOK
  <2>3. ~Behind(d, c)
    BY <1>3 DEF Behind
  <2>4. ~StopRemoved(d, c) /\ ~StopNotListed(d, c)
    BY <1>0, <2>2 DEF StopRemoved, StopNotListed, Stop, Going
  <2>5. ~PastBound(d, c)
    <3>1. Cardinality(Apart(d, c)) \in Nat
      <4>1. IsFiniteSet(Made)
        BY FS_Interval, LenProperties DEF Made, IInv, TypeOK
      <4>2. Apart(d, c) \subseteq Made
        BY <1>0, <2>2 DEF Apart
      <4> QED
        BY <4>1, <4>2, FS_Subset, FS_CardinalityType
    <3>2. Cardinality(Apart(d, c)) + 1 < MostHeads
      BY <2>1 DEF HasRoom
    <3> QED
      BY <3>1, <3>2, MostHeadsAssumption DEF PastBound
  <2>6. CASE ApplyShown(d, c)
    BY <1>0, <2>2, <2>6 DEF ApplyShown, Follow, Under
  <2>7. CASE SetAside(d, c)
    BY <1>0, <2>2, <2>7 DEF SetAside, Under
  <2> QED
    BY <2>1, <2>3, <2>4, <2>5, <2>6, <2>7 DEF Hear
<1> QED
  BY <1>2, <1>3

\* What was dealt with stays so as changes are made and judged.
LEMMA DealtStays ==
  ASSUME IInv, [Next]_vars, NEW d \in Devices, Going(d)',
         NEW now \in Round, NEW saw \in SUBSET Made,
         Dealt(changes, heads[d] \cup {follows[d]}, now, saw)
  PROVE  Dealt(changes', heads'[d] \cup {follows'[d]}, now, saw)
<1>1. now.mine \subseteq Made
  BY DEF Round
<1>2. \A c \in Made : Under(changes, c, heads[d] \cup {follows[d]}) =>
        Under(changes', c, heads'[d] \cup {follows'[d]})
  BY UnderStays
<1> QED
  BY <1>1, <1>2 DEF Dealt

LEMMA DealtBefore ==
  ASSUME HandedInv, [Next]_vars, NEW d \in Running, NEW r \in Relays, Going(d)'
  PROVE  /\ d \in Devices /\ Going(d) /\ IInv
         /\ round[d][r] \in Round /\ told[d][r] \in SUBSET Made
         /\ Dealt(changes, heads[d] \cup {follows[d]}, round[d][r], told[d][r])
         /\ Dealt(changes', heads'[d] \cup {follows'[d]}, round[d][r], told[d][r])
<1>1. /\ d \in Devices /\ Going(d) /\ IInv
      /\ round[d][r] \in Round /\ told[d][r] \in SUBSET Made
  BY KnownBefore DEF HandedInv
<1>2. Dealt(changes, heads[d] \cup {follows[d]}, round[d][r], told[d][r])
  BY <1>1 DEF HandedInv, DealtInv
<1>3. Dealt(changes', heads'[d] \cup {follows'[d]}, round[d][r], told[d][r])
  BY <1>1, <1>2, DealtStays
<1> QED
  BY <1>1, <1>2, <1>3

\* A step of one round keeps the invariant where it does for that round.
LEMMA OneRoundDealt ==
  ASSUME HandedInv, [Next]_vars, NEW d \in Running, NEW r \in Relays,
         \A e \in Running, q \in Relays : e # d \/ q # r =>
           round'[e][q] = round[e][q] /\ told'[e][q] = told[e][q],
         Going(d)' =>
           Dealt(changes', heads'[d] \cup {follows'[d]}, round'[d][r], told'[d][r])
  PROVE  DealtInv'
<1>1. ASSUME NEW e \in Running, NEW q \in Relays, Going(e)'
      PROVE  Dealt(changes', heads'[e] \cup {follows'[e]}, round'[e][q], told'[e][q])
  <2>1. CASE e = d /\ q = r
    BY <1>1, <2>1
  <2>2. CASE e # d \/ q # r
    BY <1>1, <2>2, DealtBefore
  <2> QED
    BY <2>1, <2>2
<1> QED
  BY <1>1 DEF DealtInv

\* A round that goes on shows one of what is kept.
LEMMA NextDealt ==
  ASSUME IInv, NEW f \in Made, NEW aside \in SUBSET Made, NEW due \in BOOLEAN,
         NEW shown \in SUBSET Made, NEW handed \in SUBSET Made, NEW saw,
         \A c \in saw : Under(changes, c, aside \cup {f})
  PROVE  Dealt(changes, aside \cup {f}, NextShow(f, aside, due, shown, handed), saw)
<1> DEFINE of == IF due THEN f ELSE Lowest(aside \ shown)
           next == [at |-> "asked", of |-> of, due |-> due, mine |-> aside \cup {f},
                    shown |-> shown, handed |-> handed, got |-> 0]
<1>1. CASE due \/ aside \ shown # {}
  <2>1. of \in aside \cup {f}
    <3>1. CASE due
      BY <3>1
    <3>2. CASE ~due
      <4>1. aside \ shown \in SUBSET Made /\ aside \ shown # {}
        BY <1>1, <3>2
      <4>2. Lowest(aside \ shown) \in aside \ shown
        BY <4>1, LowestIn DEF IInv
      <4> QED
        BY <3>2, <4>2
    <3> QED
      BY <3>1, <3>2
  <2>2. NextShow(f, aside, due, shown, handed) = next
    BY <1>1 DEF NextShow
  <2>3. next.mine = aside \cup {f} /\ next.of = of /\ next.at = "asked"
    OBVIOUS
  <2> HIDE DEF next, of
  <2>4. \A c \in aside \cup {f} : Under(changes, c, aside \cup {f})
    BY DEF Under
  <2> QED
    BY <2>1, <2>2, <2>3, <2>4 DEF Dealt
<1>2. CASE ~(due \/ aside \ shown # {})
  BY <1>2 DEF NextShow, Dealt, Idle
<1> QED
  BY <1>1, <1>2

LEMMA IdleDealt ==
  ASSUME NEW cs, NEW kept, NEW saw, \A c \in saw : Under(cs, c, kept)
  PROVE  Dealt(cs, kept, Idle, saw)
BY DEF Dealt, Idle

\* A step that goes on with a round, or ends it, once all that the connection
\* saw is dealt with.
LEMMA GoesOnDealt ==
  ASSUME HandedInv, Steps, NEW d \in Running, NEW r \in Relays,
         NEW due \in BOOLEAN, NEW shown \in SUBSET Made, NEW handed \in SUBSET Made, NEW now,
         now = Idle \/ now = NextShow(follows'[d], heads'[d], due, shown, handed),
         round' = [round EXCEPT ![d][r] = now],
         told' = told \/ told' = [told EXCEPT ![d][r] = {}],
         Going(d)' => \A c \in told'[d][r] : Under(changes, c, heads'[d] \cup {follows'[d]})
  PROVE  DealtInv'
<1>1. IInv /\ IInv' /\ [Next]_vars /\ Made' = Made /\ changes' = changes /\ d \in Devices
  BY AfterSteps, RunningAssumption DEF HandedInv, LeaveInv, ShowInv, Steps
<1>2. /\ \A e \in Running, q \in Relays : e # d \/ q # r =>
           round'[e][q] = round[e][q] /\ told'[e][q] = told[e][q]
      /\ round'[d][r] = now
  BY DEF HandedInv, LeaveInv, ShowInv, ShapeOK
<1>3. ASSUME Going(d)'
      PROVE  Dealt(changes', heads'[d] \cup {follows'[d]}, round'[d][r], told'[d][r])
  <2>1. PICK f, aside, saw : f = follows'[d] /\ aside = heads'[d] /\ saw = told'[d][r]
    OBVIOUS
  <2>2. f \in Made /\ aside \in SUBSET Made
    BY <1>1, <2>1 DEF IInv, TypeOK
  <2>3. \A c \in saw : Under(changes, c, aside \cup {f})
    BY <1>3, <2>1
  <2>4. CASE now = Idle
    <3>1. Dealt(changes, aside \cup {f}, Idle, saw)
      BY <2>3, IdleDealt
    <3> QED
      BY <1>1, <1>2, <2>1, <2>4, <3>1
  <2>5. CASE now = NextShow(follows'[d], heads'[d], due, shown, handed)
    <3>1. Dealt(changes, aside \cup {f}, NextShow(f, aside, due, shown, handed), saw)
      BY <1>1, <2>2, <2>3, NextDealt
    <3> QED
      BY <1>1, <1>2, <2>1, <2>5, <3>1
  <2> QED
    BY <2>4, <2>5
<1> QED
  BY <1>1, <1>2, <1>3, OneRoundDealt

LEMMA BeginDealt ==
  ASSUME HandedInv, NEW d \in Running, NEW r \in Relays, Begin(d, r)
  PROVE  DealtInv'
<1>1. /\ UNCHANGED <<vars, told>> /\ round[d][r].at = "idle"
      /\ round' = [round EXCEPT ![d][r] = NextShow(follows[d], heads[d], TRUE, {}, {})]
  BY DEF Begin, ShowsNext
<1>2. Steps /\ follows' = follows /\ heads' = heads
  BY <1>1, StaySteps DEF vars, devices
<1>3. ASSUME Going(d)'
      PROVE  \A c \in told'[d][r] : Under(changes, c, heads'[d] \cup {follows'[d]})
  <2>1. Dealt(changes, heads[d] \cup {follows[d]}, round[d][r], told[d][r])
    BY <1>2, <1>3, DealtBefore DEF Steps
  <2> QED
    BY <1>1, <1>2, <2>1 DEF Dealt
<1>4. PICK now : now = NextShow(follows'[d], heads'[d], TRUE, {}, {})
  OBVIOUS
<1>5. round' = [round EXCEPT ![d][r] = now] /\ told' = told
  BY <1>1, <1>2, <1>4
<1> QED
  BY <1>2, <1>3, <1>4, <1>5, GoesOnDealt

LEMMA RelayAnswersDealt ==
  ASSUME HandedInv, NEW d \in Running, NEW r \in Relays, RelayAnswers(d, r)
  PROVE  DealtInv'
<1> DEFINE was == round[d][r]
           c == was.of
           got == AnswerTo(HeadsWith(held[r], c), told[d][r] \cup {c}, c)
           now == [was EXCEPT !.at = "answered", !.got = got]
<1>1. /\ UNCHANGED vars /\ was.at = "asked"
      /\ told' = [told EXCEPT ![d][r] = (told[d][r] \cup {c, got}) \ {0}]
      /\ round' = [round EXCEPT ![d][r].at = "answered", ![d][r].got = got]
  BY DEF RelayAnswers
<1>2. [Next]_vars
  BY <1>1
<1>3. was \in Round
  BY DEF HandedInv, LeaveInv, ShowInv, ShapeOK
<1>4. \A e \in Running, q \in Relays : e # d \/ q # r =>
        round'[e][q] = round[e][q] /\ told'[e][q] = told[e][q]
  <2> HIDE DEF got, c, was
  <2> QED
    BY <1>1 DEF HandedInv, LeaveInv, ShowInv, ShapeOK
<1>5. /\ now.at = "answered" /\ now.got = got /\ now.mine = was.mine /\ now.of = c
  BY <1>3 DEF Round
<1> HIDE DEF got
<1>6. round'[d][r] = now /\ told'[d][r] = (told[d][r] \cup {c, got}) \ {0}
  BY <1>1 DEF HandedInv, LeaveInv, ShowInv, ShapeOK
<1>7. ASSUME Going(d)'
      PROVE  Dealt(changes', heads'[d] \cup {follows'[d]}, round'[d][r], told'[d][r])
  <2>1. Dealt(changes', heads'[d] \cup {follows'[d]}, was, told[d][r])
    BY <1>2, <1>7, DealtBefore
  <2> HIDE DEF now, was
  <2> QED
    BY <1>1, <1>5, <1>6, <2>1 DEF Dealt, c
<1> HIDE DEF now, was, c
<1> QED
  BY <1>2, <1>4, <1>7, OneRoundDealt

LEMMA TakeHeldDealt ==
  ASSUME HandedInv, NEW d \in Running, NEW r \in Relays, TakeHeld(d, r)
  PROVE  DealtInv'
<1>1. /\ UNCHANGED <<vars, told>> /\ round[d][r].at = "answered" /\ round[d][r].got = 0
      /\ round' = [round EXCEPT ![d][r] =
           NextShow(follows[d], heads[d], FALSE, ShownThen(round[d][r]), round[d][r].handed)]
  BY DEF TakeHeld, ShowsNext
<1>2. Steps /\ follows' = follows /\ heads' = heads
  BY <1>1, StaySteps DEF vars, devices
<1>3. ShownThen(round[d][r]) \in SUBSET Made /\ round[d][r].handed \in SUBSET Made
  BY <1>1, RoundHolds DEF HandedInv, LeaveInv, Round
<1>4. ASSUME Going(d)'
      PROVE  \A c \in told'[d][r] : Under(changes, c, heads'[d] \cup {follows'[d]})
  <2>1. /\ Dealt(changes, heads[d] \cup {follows[d]}, round[d][r], told[d][r])
        /\ told[d][r] \in SUBSET Made /\ IInv
    BY <1>2, <1>4, DealtBefore DEF Steps
  <2>2. 0 \notin told[d][r]
    BY <2>1, ChangeTyped DEF IInv
  <2> QED
    BY <1>1, <1>2, <2>1, <2>2 DEF Dealt
<1>5. PICK shown, handed, now :
        /\ shown = ShownThen(round[d][r]) /\ handed = round[d][r].handed
        /\ now = NextShow(follows'[d], heads'[d], FALSE, shown, handed)
  OBVIOUS
<1>6. round' = [round EXCEPT ![d][r] = now] /\ told' = told
  BY <1>1, <1>2, <1>5
<1> QED
  BY <1>2, <1>3, <1>4, <1>5, <1>6, GoesOnDealt

LEMMA TakeKeptDealt ==
  ASSUME HandedInv, NEW d \in Running, NEW r \in Relays, TakeKept(d, r)
  PROVE  DealtInv'
<1> DEFINE was == round[d][r]
<1>1. /\ UNCHANGED <<vars, told>> /\ was.at = "answered" /\ was.got \in was.mine
      /\ \/ round' = [round EXCEPT ![d][r] = Idle]
         \/ round' = [round EXCEPT ![d][r] = NextShow(follows[d], heads[d], TRUE,
                        ShownThen(was), was.handed \cup {was.got})]
  BY DEF TakeKept, ShowsNext
<1>2. Steps /\ follows' = follows /\ heads' = heads
  BY <1>1, StaySteps DEF vars, devices
<1>3. ShownThen(was) \in SUBSET Made /\ was.handed \cup {was.got} \in SUBSET Made
  BY <1>1, RoundHolds DEF HandedInv, LeaveInv, Round
<1>4. ASSUME Going(d)'
      PROVE  \A c \in told'[d][r] : Under(changes, c, heads'[d] \cup {follows'[d]})
  <2>1. Dealt(changes, heads[d] \cup {follows[d]}, was, told[d][r])
    BY <1>2, <1>4, DealtBefore DEF Steps
  <2> HIDE DEF was
  <2> QED
    BY <1>1, <1>2, <2>1 DEF Dealt
<1>5. PICK shown, handed, next :
        /\ shown = ShownThen(was) /\ handed = was.handed \cup {was.got}
        /\ next = NextShow(follows'[d], heads'[d], TRUE, shown, handed)
  OBVIOUS
<1>6. PICK now : (now = Idle \/ now = next) /\ round' = [round EXCEPT ![d][r] = now]
  BY <1>1, <1>2, <1>5
<1>7. told' = told
  BY <1>1
<1> QED
  BY <1>2, <1>3, <1>4, <1>5, <1>6, <1>7, GoesOnDealt

LEMMA WaitDealt ==
  ASSUME HandedInv, NEW d \in Running, NEW r \in Relays, Wait(d, r)
  PROVE  DealtInv'
<1> DEFINE was == round[d][r]
           now == [was EXCEPT !.at = "judge"]
<1>1. /\ UNCHANGED told /\ was.at = "answered"
      /\ KnowsAtOnce(d, was.got)
      /\ round' = [round EXCEPT ![d][r].at = "judge"]
  BY DEF Wait, IsHanded
<1>2. was.got \in Made /\ d \in Devices /\ was \in Round
  BY RoundHolds DEF HandedInv, LeaveInv, Wait
<1>3. [Next]_vars
  BY <1>1, <1>2, KnowsSteps DEF Steps
<1>4. \A e \in Running, q \in Relays : e # d \/ q # r =>
        round'[e][q] = round[e][q] /\ told'[e][q] = told[e][q]
  BY <1>1 DEF HandedInv, LeaveInv, ShowInv, ShapeOK
<1>5. round'[d][r] = now /\ told'[d][r] = told[d][r]
  BY <1>1 DEF HandedInv, LeaveInv, ShowInv, ShapeOK
<1>6. /\ now.at = "judge" /\ now.got = was.got /\ now.mine = was.mine /\ now.of = was.of
  BY <1>2 DEF Round
<1> HIDE DEF now
<1>7. ASSUME Going(d)'
      PROVE  Dealt(changes', heads'[d] \cup {follows'[d]}, round'[d][r], told'[d][r])
  <2>1. Dealt(changes', heads'[d] \cup {follows'[d]}, was, told[d][r])
    BY <1>3, <1>7, DealtBefore
  <2> HIDE DEF was
  <2> QED
    BY <1>1, <1>5, <1>6, <2>1 DEF Dealt
<1> HIDE DEF was
<1> QED
  BY <1>3, <1>4, <1>7, OneRoundDealt

LEMMA JudgeDealt ==
  ASSUME HandedInv, HasRoom, NEW d \in Running, NEW r \in Relays, Judge(d, r)
  PROVE  DealtInv'
<1> DEFINE was == round[d][r]
<1>1. /\ UNCHANGED told /\ Judged(d, was.got)
      /\ IsHanded(was) \/ was.at = "judge"
      /\ \/ round' = [round EXCEPT ![d][r] = Idle]
         \/ round' = [round EXCEPT ![d][r] = NextShow(follows'[d], heads'[d],
                        IsTaken(d, was.got), ShownThen(was), was.handed \cup {was.got})]
  BY DEF Judge
<1>2. /\ was.got \in Made /\ was.handed \cup {was.got} \in SUBSET Made /\ d \in Devices
      /\ ShownThen(was) \in SUBSET Made /\ IInv
  BY <1>1, RoundHolds DEF HandedInv, LeaveInv, ShowInv, IsHanded
<1>3. Steps /\ changes' = changes
  BY <1>1, <1>2, JudgedSteps DEF Steps
<1>4. ASSUME Going(d)'
      PROVE  \A c \in told'[d][r] : Under(changes, c, heads'[d] \cup {follows'[d]})
  <2>1. Dealt(changes', heads'[d] \cup {follows'[d]}, was, told[d][r])
    BY <1>3, <1>4, DealtBefore DEF Steps
  <2>2. Under(changes', was.got, heads'[d] \cup {follows'[d]})
    BY <1>1, <1>2, <1>4, JudgedUnder
  <2> HIDE DEF was
  <2> QED
    BY <1>1, <1>3, <2>1, <2>2 DEF Dealt
<1>5. PICK due, shown, handed, next :
        /\ due = IsTaken(d, was.got) /\ shown = ShownThen(was)
        /\ handed = was.handed \cup {was.got}
        /\ next = NextShow(follows'[d], heads'[d], due, shown, handed)
  OBVIOUS
<1>6. due \in BOOLEAN
  BY <1>5 DEF IsTaken
<1>7. PICK now : (now = Idle \/ now = next) /\ round' = [round EXCEPT ![d][r] = now]
  BY <1>1, <1>5
<1>8. told' = told
  BY <1>1
<1> QED
  BY <1>2, <1>3, <1>4, <1>5, <1>6, <1>7, <1>8, GoesOnDealt

LEMMA ShowFailsDealt ==
  ASSUME HandedInv, NEW d \in Running, NEW r \in Relays, ShowFails(d, r)
  PROVE  DealtInv'
<1>1. /\ UNCHANGED vars
      /\ round' = [round EXCEPT ![d][r] = Idle]
      /\ told' = [told EXCEPT ![d][r] = {}]
  BY DEF ShowFails
<1>2. /\ \A e \in Running, q \in Relays : e # d \/ q # r =>
           round'[e][q] = round[e][q] /\ told'[e][q] = told[e][q]
      /\ round'[d][r] = Idle /\ told'[d][r] = {}
  BY <1>1 DEF HandedInv, LeaveInv, ShowInv, ShapeOK
<1>3. Dealt(changes', heads'[d] \cup {follows'[d]}, round'[d][r], told'[d][r])
  BY <1>2, IdleDealt
<1> QED
  BY <1>1, <1>2, <1>3, OneRoundDealt

LEMMA RefusedForNowDealt ==
  ASSUME HandedInv, NEW d \in Running, NEW r \in Relays, RefusedForNow(d, r)
  PROVE  DealtInv'
<1>1. /\ UNCHANGED <<vars, told>> /\ round[d][r].at = "asked"
      /\ round' = [round EXCEPT ![d][r] = Idle]
  BY DEF RefusedForNow
<1>2. [Next]_vars
  BY <1>1
<1>3. /\ \A e \in Running, q \in Relays : e # d \/ q # r =>
           round'[e][q] = round[e][q] /\ told'[e][q] = told[e][q]
      /\ round'[d][r] = Idle /\ told'[d][r] = told[d][r]
  BY <1>1 DEF HandedInv, LeaveInv, ShowInv, ShapeOK
<1>4. ASSUME Going(d)'
      PROVE  Dealt(changes', heads'[d] \cup {follows'[d]}, round'[d][r], told'[d][r])
  <2>1. Dealt(changes', heads'[d] \cup {follows'[d]}, round[d][r], told[d][r])
    BY <1>2, <1>4, DealtBefore
  <2>2. \A c \in told[d][r] : Under(changes', c, heads'[d] \cup {follows'[d]})
    BY <1>1, <2>1 DEF Dealt
  <2> QED
    BY <1>3, <2>2, IdleDealt
<1> QED
  BY <1>2, <1>3, <1>4, OneRoundDealt

LEMMA RestartDealt ==
  ASSUME HandedInv, NEW d \in Running, Restart(d)
  PROVE  DealtInv'
<1>1. /\ UNCHANGED vars
      /\ round' = [round EXCEPT ![d] = [r \in Relays |-> Idle]]
      /\ told' = [told EXCEPT ![d] = [r \in Relays |-> {}]]
  BY DEF Restart
<1>2. ASSUME NEW e \in Running, NEW r \in Relays, Going(e)'
      PROVE  Dealt(changes', heads'[e] \cup {follows'[e]}, round'[e][r], told'[e][r])
  <2>1. CASE e = d
    <3>1. round'[e][r] = Idle /\ told'[e][r] = {}
      BY <1>1, <2>1 DEF HandedInv, LeaveInv, ShowInv, ShapeOK
    <3> QED
      BY <3>1, IdleDealt
  <2>2. CASE e # d
    <3>1. round'[e][r] = round[e][r] /\ told'[e][r] = told[e][r]
      BY <1>1, <2>2 DEF HandedInv, LeaveInv, ShowInv, ShapeOK
    <3> QED
      BY <1>1, <1>2, <3>1, DealtBefore
  <2> QED
    BY <2>1, <2>2
<1> QED
  BY <1>2 DEF DealtInv

LEMMA NoRoundDealt ==
  ASSUME HandedInv, [Next]_vars, UNCHANGED <<told, round>>
  PROVE  DealtInv'
<1>1. ASSUME NEW e \in Running, NEW r \in Relays, Going(e)'
      PROVE  Dealt(changes', heads'[e] \cup {follows'[e]}, round'[e][r], told'[e][r])
  BY <1>1, DealtBefore
<1> QED
  BY <1>1 DEF DealtInv

LEMMA HandedInitHolds ==
  ASSUME ShowInit, \A b \in Budgets : b.left["fail"] = 0
  PROVE  HandedInv
<1>1. \A d \in Running, r \in Relays : round[d][r] = Idle /\ told[d][r] = {}
  BY DEF ShowInit
<1>2. DealtInv
  BY <1>1, IdleDealt DEF DealtInv
<1> QED
  BY <1>2, LeaveInitHolds DEF HandedInv

LEMMA HandedStepKeeps ==
  ASSUME HandedInv, HasRoom, [ShowNext]_showVars
  PROVE  HandedInv'
<1>1. LeaveInv' /\ [Next]_vars
  BY LeaveStepKeeps, ShowStepKeeps DEF HandedInv, LeaveInv
<1>2. SUFFICES DealtInv'
  BY <1>1 DEF HandedInv
<1>3. ~Spend("fail") /\ \A d \in Running : waiting[d] = 0
  BY DEF HandedInv, LeaveInv, AllApplied, Spend
<1>4. CASE UNCHANGED showVars
  BY <1>1, <1>4, NoRoundDealt DEF showVars, shows
<1>5. ASSUME NEW d \in budget.at, Commands(d) PROVE DealtInv'
  BY <1>1, <1>5, NoRoundDealt DEF Commands, shows
<1>6. ASSUME NEW d \in budget.at \cup Running, Moves(d) PROVE DealtInv'
  BY <1>1, <1>6, NoRoundDealt DEF Moves
<1>7. ASSUME NEW d \in budget.at \ Running, NEW r \in budget.up, Visits(d, r) PROVE DealtInv'
  BY <1>1, <1>7, NoRoundDealt DEF Visits, shows
<1>8. ASSUME NEW d \in Running, TryAgain(d) PROVE DealtInv'
  BY <1>3, <1>8 DEF TryAgain
<1>9. ASSUME NEW d \in Running, Restart(d) PROVE DealtInv'
  BY <1>9, RestartDealt
<1>10. ASSUME NEW d \in Running, NEW r \in Relays, RoundStep(d, r) PROVE DealtInv'
  BY <1>10, BeginDealt, RelayAnswersDealt, TakeHeldDealt, TakeKeptDealt, WaitDealt, JudgeDealt
     DEF RoundStep
<1>11. ASSUME NEW d \in Running, NEW r \in Relays, CouldNotApply(d, r) PROVE DealtInv'
  BY <1>3, <1>11 DEF CouldNotApply
<1>12. ASSUME NEW d \in Running, NEW r \in Relays, ShowFails(d, r) PROVE DealtInv'
  BY <1>12, ShowFailsDealt
<1>13. ASSUME NEW d \in Running, NEW r \in Relays, RefusedForNow(d, r) PROVE DealtInv'
  BY <1>13, RefusedForNowDealt
<1> QED
  BY <1>4, <1>5, <1>6, <1>7, <1>8, <1>9, <1>10, <1>11, <1>12, <1>13 DEF ShowNext

\* Where each change handed can be applied, and none is one head too many, a
\* device that may use a relay has dealt with every change that any of its
\* connections handed it, but for an answer still to be judged: whatever
\* changes are made apart, however its rounds interleave with one another,
\* with moves and with commands, and whichever shows are lost or devices
\* restart (leave.rs, device_entries.rs).
THEOREM NoneIsUnapplied ==
  ASSUME \A b \in Budgets : b.left["fail"] = 0
  PROVE  ShowSpec /\ []HasRoom => []NoneUnapplied
<1>1. ShowInit => HandedInv
  BY HandedInitHolds
<1>2. HandedInv /\ HasRoom /\ [ShowNext]_showVars => HandedInv'
  BY HandedStepKeeps
<1>3. HandedInv => NoneUnapplied
  <2> SUFFICES ASSUME HandedInv, NEW d \in Running, NEW r \in Relays, NEW other \in Relays,
                      Has(d, r), NEW c \in told[d][other]
               PROVE  \/ BehindOneOf(c, Keeps(d))
                      \/ /\ round[d][other].at \in {"answered", "judge"}
                         /\ round[d][other].got = c
    BY DEF NoneUnapplied
  <2>1. Dealt(changes, heads[d] \cup {follows[d]}, round[d][other], told[d][other])
    BY DEF HandedInv, DealtInv, Has, Going
  <2> QED
    BY <2>1 DEF Dealt, Under, BehindOneOf, Keeps
<1> QED
  BY <1>1, <1>2, <1>3, PTL DEF ShowSpec
=============================================================================
