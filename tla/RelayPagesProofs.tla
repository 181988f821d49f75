-------------------------- MODULE RelayPagesProofs --------------------------
(***************************************************************************)
(* What holds of RelayPages for every number of devices, relays, files and *)
(* revisions, and however often entries are swept, channels dropped, turns *)
(* lost and nodes restarted.                                               *)
(***************************************************************************)
EXTENDS RelayPages, FiniteSetTheorems, TLAPS

KeptThere == [at : Places, sentTo : Nat, refused : SUBSET Nat]
Pages == [mark : Nat, next : Nat, rows : [Keys -> Rows]]
Entries == [key : Keys, row : Rows, room : BOOLEAN]
TurnsAt == [at : Ats, again : BOOLEAN, from : Places, page : Pages, entry : Entries]

(* A highest place there is: a relay's places are never without one.       *)
HasHighest(rows) == \E k \in Keys : \A j \in Keys : rows[j].place <= rows[k].place

(* An entry that is not there has no place.                                *)
NoneWithoutPlace(rows) == \A k \in Keys : rows[k].rev = 0 => rows[k].place = 0

RowsInv == \A r \in Relays : HasHighest(relay[r]) /\ NoneWithoutPlace(relay[r])

-----------------------------------------------------------------------------
(***************************************************************************)
(* Rows, pages and turns.                                                  *)
(***************************************************************************)
LEMMA KeysFinite == IsFiniteSet(Keys) /\ Keys # {}
<1>1. IsFiniteSet(Slots \X Devices)
  BY PagesAssumption, FS_Product
<1>2. PICK d \in Devices, s \in Slots : TRUE
  BY PagesAssumption
<1>3. <<s, d>> \in Keys
  BY DEF Keys
<1> QED
  BY <1>1, <1>3 DEF Keys

LEMMA KeyParts ==
  ASSUME NEW k \in Keys
  PROVE  SlotOf(k) \in Slots /\ AuthorOf(k) \in Devices
BY DEF Keys, SlotOf, AuthorOf

LEMMA NoneTyped ==
  /\ NoRow \in Rows
  /\ NoRows \in [Keys -> Rows]
  /\ NothingKept \in KeptThere
  /\ NoPage \in Pages
  /\ NoEntry \in Entries
<1>1. NoRow \in Rows
  BY DEF NoRow, Rows
<1>2. NoRows \in [Keys -> Rows]
  BY <1>1 DEF NoRows
<1>3. NothingKept \in KeptThere
  BY DEF NothingKept, NoPlace, KeptThere, Places
<1>4. NoPage \in Pages
  BY <1>2 DEF NoPage, Pages
<1>5. (CHOOSE k \in Keys : TRUE) \in Keys
  BY KeysFinite
<1>6. NoEntry \in Entries
  BY <1>1, <1>5 DEF NoEntry, Entries
<1> QED
  BY <1>1, <1>2, <1>3, <1>4, <1>6

LEMMA TurnTyped ==
  ASSUME NEW at \in Ats, NEW again \in BOOLEAN
  PROVE  TurnAt(at, again) \in TurnsAt
<1>1. NoPlace \in Places
  BY DEF NoPlace, Places
<1> QED
  BY <1>1, NoneTyped DEF TurnAt, TurnsAt

LEMMA HighestIs ==
  ASSUME NEW rows \in [Keys -> Rows], HasHighest(rows)
  PROVE  /\ Highest(rows) \in Nat
         /\ \A k \in Keys : rows[k].place <= Highest(rows)
         /\ \E k \in Keys : Highest(rows) = rows[k].place
<1> DEFINE P(p) == \A k \in Keys : rows[k].place <= p
<1>1. PICK top \in Keys : P(rows[top].place)
  BY DEF HasHighest
<1>2. \E p \in {rows[k].place : k \in Keys} : P(p)
  BY <1>1
<1>3. Highest(rows) \in {rows[k].place : k \in Keys} /\ P(Highest(rows))
  BY <1>2 DEF Highest
<1>4. PICK k \in Keys : Highest(rows) = rows[k].place
  BY <1>3
<1>5. rows[k].place \in Nat
  BY DEF Rows
<1> QED
  BY <1>3, <1>4, <1>5

(* The highest place is the only one that is a place and bounds them all.  *)
LEMMA HighestAt ==
  ASSUME NEW rows \in [Keys -> Rows], NEW k \in Keys,
         \A j \in Keys : rows[j].place <= rows[k].place
  PROVE  HasHighest(rows) /\ Highest(rows) = rows[k].place
<1>1. HasHighest(rows)
  BY DEF HasHighest
<1>2. PICK j \in Keys : Highest(rows) = rows[j].place
  BY <1>1, HighestIs
<1>3. rows[k].place <= rows[j].place /\ rows[j].place <= rows[k].place
  BY <1>1, <1>2, HighestIs
<1>4. rows[k].place \in Nat /\ rows[j].place \in Nat
  BY DEF Rows
<1> QED
  BY <1>1, <1>2, <1>3, <1>4

LEMMA TakenFinite ==
  ASSUME NEW d, NEW page
  PROVE  /\ IsFiniteSet(Taken(d, page))
         /\ Taken(d, page) \subseteq Keys
         /\ Cardinality(Taken(d, page)) \in Nat
<1>1. Taken(d, page) \subseteq Keys
  BY DEF Taken, Present
<1> QED
  BY <1>1, KeysFinite, FS_Subset, FS_CardinalityType

(* The entries that a page brings come after all that the store took.      *)
LEMMA SeqTyped ==
  ASSUME NEW d, NEW page \in Pages, NEW k \in Taken(d, page), seqs[d] \in Nat
  PROVE  SeqOf(d, page, k) \in Nat /\ SeqOf(d, page, k) > seqs[d]
<1> DEFINE before == {j \in Taken(d, page) : page.rows[j].place <= page.rows[k].place}
<1>1. IsFiniteSet(before)
  BY TakenFinite, FS_Subset
<1>2. k \in Keys /\ page.rows[k].place \in Nat
  BY TakenFinite DEF Pages, Rows
<1>3. k \in before
  BY <1>2
<1>4. Cardinality(before) \in Nat /\ Cardinality(before) # 0
  BY <1>1, <1>3, FS_CardinalityType, FS_EmptySet
<1> QED
  BY <1>4 DEF SeqOf

-----------------------------------------------------------------------------
(***************************************************************************)
(* Types.                                                                  *)
(***************************************************************************)
TInv == TypeOK /\ RowsInv

LEMMA TypedParts ==
  ASSUME TypeOK, NEW d \in Devices, NEW r \in Relays
  PROVE  /\ relay[r] \in [Keys -> Rows] /\ mark[r] \in Nat
         /\ store[d] \in [Keys -> Rows] /\ seqs[d] \in Nat
         /\ kept[d][r] \in KeptThere /\ turn[d][r] \in TurnsAt
BY DEF TypeOK, KeptThere, TurnsAt, Pages, Entries

LEMMA InitTyped == Init => TInv
<1> SUFFICES ASSUME Init PROVE TInv
  OBVIOUS
<1>1. Idle \in TurnsAt
  BY TurnTyped DEF Idle, Ats
<1>2. TypeOK
  BY <1>1, NoneTyped, PagesAssumption
  DEF Init, TypeOK, KeptThere, TurnsAt, Pages, Entries
<1>3. RowsInv
  <2> SUFFICES ASSUME NEW r \in Relays
               PROVE  HasHighest(relay[r]) /\ NoneWithoutPlace(relay[r])
    BY DEF RowsInv
  <2>1. relay[r] = NoRows
    BY DEF Init
  <2> QED
    BY <2>1, KeysFinite DEF HasHighest, NoneWithoutPlace, NoRows, NoRow
<1> QED
  BY <1>2, <1>3 DEF TInv

LEMMA SpendTyped ==
  ASSUME left \in [Bounded -> Nat], NEW what \in Bounded, Spend(what)
  PROVE  left' \in [Bounded -> Nat]
<1>1. left[what] - 1 \in Nat
  BY DEF Spend
<1> QED
  BY <1>1 DEF Spend

LEMMA ForgottenTyped ==
  ASSUME NEW there \in KeptThere
  PROVE  [there EXCEPT !.at = NoPlace] \in KeptThere
BY DEF KeptThere, NoPlace, Places

LEMMA DeviceTyped ==
  ASSUME TInv, NEW d \in Devices, OfTheDevice(d)
  PROVE  TInv'
<1> USE DEF TInv
<1>1. ASSUME NEW s \in Slots, NEW delete \in Deletes, Write(d, s, delete) PROVE TInv'
  <2>1. PICK rev \in 1 .. TopRev : store' = [store EXCEPT ![d][<<s, d>>] =
            [rev |-> rev, delete |-> delete, place |-> seqs[d] + 1]]
    BY <1>1 DEF Write
  <2>2. [rev |-> rev, delete |-> delete, place |-> seqs[d] + 1] \in Rows
    BY PagesAssumption DEF Rows, TypeOK
  <2>3. <<s, d>> \in Keys
    BY DEF Keys
  <2>4. store' \in [Devices -> [Keys -> Rows]]
    BY <2>1, <2>2, <2>3 DEF TypeOK
  <2>5. left' \in [Bounded -> Nat]
    BY <1>1, SpendTyped DEF Write, TypeOK, Bounded
  <2> QED
    BY <1>1, <2>4, <2>5 DEF Write, TypeOK, RowsInv
<1>2. ASSUME NEW s \in Slots, SweepDeletes(d, s) PROVE TInv'
  <2>1. PICK gone : store' = [store EXCEPT ![d] = [k \in Keys |-> IF k \in gone THEN NoRow ELSE @[k]]]
    BY <1>2 DEF SweepDeletes
  <2>2. store' \in [Devices -> [Keys -> Rows]]
    BY <2>1, NoneTyped DEF TypeOK
  <2>3. kept' = [kept EXCEPT ![d] = [r \in Relays |-> [@[r] EXCEPT !.at = NoPlace]]]
    BY <1>2 DEF SweepDeletes
  <2>4. kept' \in [Devices -> [Relays -> KeptThere]]
    <3>1. \A e \in Devices, r \in Relays : kept[e][r] \in KeptThere
      BY DEF TypeOK, KeptThere
    <3> QED
      BY <2>3, <3>1, ForgottenTyped DEF TypeOK
  <2>5. left' \in [Bounded -> Nat]
    BY <1>2, SpendTyped DEF SweepDeletes, Bounded, TypeOK
  <2> QED
    BY <1>2, <2>2, <2>4, <2>5 DEF SweepDeletes, TypeOK, RowsInv, KeptThere
<1>3. ASSUME NEW a \in Devices, ComeToCount(d, a) PROVE TInv'
  <2>1. kept' = [kept EXCEPT ![d] = [r \in Relays |-> [@[r] EXCEPT !.at = NoPlace]]]
    BY <1>3 DEF ComeToCount
  <2>2. kept' \in [Devices -> [Relays -> KeptThere]]
    <3>1. \A e \in Devices, r \in Relays : kept[e][r] \in KeptThere
      BY DEF TypeOK, KeptThere
    <3> QED
      BY <2>1, <3>1, ForgottenTyped DEF TypeOK
  <2>3. left' \in [Bounded -> Nat]
    BY <1>3, SpendTyped DEF ComeToCount, Bounded, TypeOK
  <2> QED
    BY <1>3, <2>2, <2>3 DEF ComeToCount, TypeOK, RowsInv, KeptThere
<1>4. ASSUME Stop(d) PROVE TInv'
  <2>1. left' \in [Bounded -> Nat]
    BY <1>4, SpendTyped DEF Stop, Bounded, TypeOK
  <2>2. kept' \in [Devices -> [Relays -> KeptThere]]
    BY <1>4, NoneTyped DEF Stop, KeptAfterStop, TypeOK, KeptThere
  <2> QED
    BY <1>4, <2>1, <2>2, NoneTyped DEF Stop, FetchedAfterStop, TypeOK, RowsInv, KeptThere
<1>5. ASSUME HoldName(d) PROVE TInv'
  <2>1. owed' \in [Devices -> [Relays -> [Keys -> Nat]]]
    BY <1>5 DEF HoldName, TypeOK, Rows
  <2> QED
    BY <1>5, <2>1 DEF HoldName, TypeOK, RowsInv
<1>6. ASSUME Restart(d) PROVE TInv'
  <2>1. left' \in [Bounded -> Nat]
    BY <1>6, SpendTyped DEF Restart, Bounded, TypeOK
  <2>2. Idle \in TurnsAt
    BY TurnTyped DEF Idle, Ats
  <2>3. turn' \in [Devices -> [Relays -> TurnsAt]]
    BY <1>6, <2>2 DEF Restart, TypeOK, TurnsAt, Pages, Entries
  <2> QED
    BY <1>6, <2>1, <2>3 DEF Restart, TypeOK, RowsInv, TurnsAt, Pages, Entries
<1> QED
  BY <1>1, <1>2, <1>3, <1>4, <1>5, <1>6 DEF OfTheDevice

(* A turn that is changed at one relay, to one of its type.                *)
LEMMA OneTurnTyped ==
  ASSUME TypeOK, NEW d \in Devices, NEW r \in Relays, NEW t \in TurnsAt,
         turn' = [turn EXCEPT ![d][r] = t]
  PROVE  turn' \in [Devices -> [Relays -> TurnsAt]]
BY DEF TypeOK, TurnsAt, Pages, Entries

LEMMA AskTyped ==
  ASSUME NEW t \in TurnsAt, NEW from \in Places
  PROVE  [t EXCEPT !.at = "asked", !.from = from] \in TurnsAt
BY DEF TurnsAt, Ats

LEMMA PageTyped ==
  ASSUME TInv, NEW r \in Relays, NEW after \in Nat, NEW next \in Nat
  PROVE  [mark |-> mark[r], next |-> next, rows |->
           [k \in Keys |-> IF k \in PageAfter(r, after, next) THEN relay[r][k] ELSE NoRow]]
         \in Pages
BY NoneTyped DEF TInv, TypeOK, Pages

LEMMA KeptAfterPageTyped ==
  ASSUME TInv, NEW d \in Devices, NEW r \in Relays, NEW page \in Pages
  PROVE  KeptAfterPage(d, r, page) \in KeptThere
<1>1. KeptFor(d, r, page) \in KeptThere
  BY NoneTyped, TypedParts DEF TInv, KeptFor
<1>2. SentAfterPage(d, r, page) \in Nat
  BY <1>1, TakenFinite, TypedParts DEF TInv, SentAfterPage, KeptThere
<1> QED
  BY <1>1, <1>2 DEF KeptAfterPage, KeptThere, Places, Pages

(* One above the highest place there is becomes the highest.               *)
LEMMA AboveHighest ==
  ASSUME NEW rows \in [Keys -> Rows], HasHighest(rows), NEW k \in Keys,
         NEW row \in Rows, row.place = Highest(rows) + 1
  PROVE  /\ [rows EXCEPT ![k] = row] \in [Keys -> Rows]
         /\ HasHighest([rows EXCEPT ![k] = row])
         /\ Highest([rows EXCEPT ![k] = row]) = Highest(rows) + 1
<1> DEFINE new == [rows EXCEPT ![k] = row]
<1>1. new \in [Keys -> Rows] /\ new[k].place = Highest(rows) + 1
  OBVIOUS
<1>2. \A j \in Keys : new[j].place <= new[k].place
  BY <1>1, HighestIs DEF Rows
<1> QED
  BY <1>1, <1>2, HighestAt

(* What each step of a turn does to the turn and to what is kept.          *)
LEMMA HandPageIs ==
  ASSUME NEW d, NEW r, HandPage(d, r), mark[r] = 0
  PROVE  turn' = [turn EXCEPT ![d][r].at = "page", ![d][r].page = NoPage]
BY Zenon DEF HandPage

LEMMA TakeAnswerIs ==
  ASSUME TInv, NEW d \in Devices, NEW r \in Relays, TakeAnswer(d, r)
  PROVE  \E sentTo \in Nat : kept' = [kept EXCEPT ![d][r].sentTo = sentTo,
                                                 ![d][r].refused = RefusedAfter(d, r)]
<1> DEFINE e == turn[d][r].entry
<1>1. e.row.place \in Nat /\ kept[d][r].sentTo \in Nat
  BY DEF TInv, TypeOK, Rows
<1>2. (IF e.row.place > kept[d][r].sentTo THEN e.row.place ELSE kept[d][r].sentTo) \in Nat
  BY <1>1
<1> QED
  BY <1>2 DEF TakeAnswer

LEMMA TurnWrittenIs ==
  ASSUME NEW d, NEW r,
         NotHeldAt(d, r) \/ TakePage(d, r) \/ TakeAnswer(d, r) \/ End(d, r)
  PROVE  \E t : turn' = [turn EXCEPT ![d][r] = t]
<1>1. CASE NotHeldAt(d, r)
  BY <1>1 DEF NotHeldAt, Turns
<1>2. CASE TakePage(d, r)
  BY <1>2 DEF TakePage, Turns
<1>3. CASE TakeAnswer(d, r)
  BY <1>3 DEF TakeAnswer, Turns
<1>4. CASE End(d, r)
  BY <1>4 DEF End
<1> QED
  BY <1>1, <1>2, <1>3, <1>4

LEMMA KeptWrittenIs ==
  ASSUME NEW d, NEW r, NotHeldAt(d, r) \/ TakePage(d, r)
  PROVE  \E there : kept' = [kept EXCEPT ![d][r] = there]
<1>1. CASE NotHeldAt(d, r)
  BY <1>1 DEF NotHeldAt
<1>2. CASE TakePage(d, r)
  BY <1>2 DEF TakePage
<1> QED
  BY <1>1, <1>2

LEMMA TurnStepTyped ==
  ASSUME TInv, NEW d \in Devices, NEW r \in Relays, TurnStep(d, r)
  PROVE  TInv'
<1> USE DEF TInv
<1>t. turn[d][r] \in TurnsAt /\ turn[d][r].again \in BOOLEAN
  BY TypedParts DEF TurnsAt
<1>1. ASSUME NotHeldAt(d, r) PROVE TInv'
  <2>1. turn' \in [Devices -> [Relays -> TurnsAt]]
    BY <1>1, <1>t, TurnTyped, OneTurnTyped DEF NotHeldAt, Turns, Ats
  <2>2. kept' \in [Devices -> [Relays -> KeptThere]]
    BY <1>1, NoneTyped DEF NotHeldAt, TypeOK, KeptThere
  <2> QED
    BY <1>1, <2>1, <2>2 DEF NotHeldAt, dvars, TypeOK, RowsInv, TurnsAt, Pages, Entries, KeptThere
<1>2. ASSUME AskPage(d, r) PROVE TInv'
  <2>1. kept[d][r].at \in Places
    BY TypedParts DEF KeptThere
  <2>2. turn' = [turn EXCEPT ![d][r] = [@ EXCEPT !.at = "asked", !.from = kept[d][r].at]]
    BY <1>2 DEF AskPage
  <2>3. turn' \in [Devices -> [Relays -> TurnsAt]]
    BY <2>1, <2>2, <1>t, AskTyped DEF TypeOK, TurnsAt, Pages, Entries
  <2> QED
    BY <1>2, <2>3 DEF AskPage, dvars, TypeOK, RowsInv, TurnsAt, Pages, Entries
<1>3. ASSUME HandPage(d, r) PROVE TInv'
  <2>1. turn' \in [Devices -> [Relays -> TurnsAt]]
    <3> DEFINE after == IF mark[r] = turn[d][r].from.mark THEN turn[d][r].from.place ELSE 0
    <3> DEFINE places == {relay[r][k].place : k \in Present(relay[r])}
    <3> DEFINE page(next) == [mark |-> mark[r], next |-> next, rows |->
           [k \in Keys |-> IF k \in PageAfter(r, after, next) THEN relay[r][k] ELSE NoRow]]
    <3>1. CASE mark[r] = 0
      <4>1. turn' = [turn EXCEPT ![d][r] = [@ EXCEPT !.at = "page", !.page = NoPage]]
        <5>1. turn' = [turn EXCEPT ![d][r].at = "page", ![d][r].page = NoPage]
          BY <1>3, <3>1, HandPageIs
        <5> QED
          BY <5>1
      <4>2. [turn[d][r] EXCEPT !.at = "page", !.page = NoPage] \in TurnsAt
        BY <1>t, NoneTyped DEF TurnsAt, Ats
      <4> QED
        BY <4>1, <4>2, OneTurnTyped
    <3>2. CASE mark[r] # 0
      <4>1. PICK next \in {after} \cup {p \in places : p > after} :
              turn' = [turn EXCEPT ![d][r].at = "page", ![d][r].page = page(next)]
        BY <1>3, <3>2 DEF HandPage
      <4>2. after \in Nat
        BY <1>t DEF TurnsAt, Places
      <4>3. next \in Nat
        <5>1. \A k \in Present(relay[r]) : relay[r][k].place \in Nat
          BY TypedParts DEF Present, Rows
        <5> HIDE DEF after
        <5> QED
          BY <4>1, <4>2, <5>1
      <4>4. page(next) \in Pages
        BY <4>2, <4>3, PageTyped
      <4> HIDE DEF page
      <4>5. turn' = [turn EXCEPT ![d][r] = [@ EXCEPT !.at = "page", !.page = page(next)]]
        BY <4>1
      <4>6. [turn[d][r] EXCEPT !.at = "page", !.page = page(next)] \in TurnsAt
        BY <4>4, <1>t DEF TurnsAt, Ats
      <4> QED
        BY <4>5, <4>6, OneTurnTyped
    <3> QED
      BY <3>1, <3>2
  <2> QED
    BY <1>3, <2>1 DEF HandPage, dvars, TypeOK, RowsInv, TurnsAt, Pages, Entries
<1>4. ASSUME TakePage(d, r) PROVE TInv'
  <2> DEFINE page == turn[d][r].page
  <2>1. page \in Pages
    BY <1>t DEF TurnsAt
  <2>2. turn' \in [Devices -> [Relays -> TurnsAt]]
    BY <1>4, <1>t, TurnTyped, OneTurnTyped DEF TakePage, Turns, Ats
  <2>3. kept' \in [Devices -> [Relays -> KeptThere]]
    <3>1. KeptAfterPage(d, r, page) \in KeptThere
      BY <2>1, KeptAfterPageTyped
    <3> QED
      BY <1>4, <3>1 DEF TakePage, TypeOK, KeptThere
  <2>4. store' \in [Devices -> [Keys -> Rows]]
    <3>1. \A k \in Taken(d, page) : [page.rows[k] EXCEPT !.place = SeqOf(d, page, k)] \in Rows
      BY <2>1, TakenFinite, SeqTyped, TypedParts DEF Pages, Rows
    <3> QED
      BY <1>4, <3>1 DEF TakePage, TypeOK
  <2>5. seqs' \in [Devices -> Nat]
    BY <1>4, TakenFinite DEF TakePage, TypeOK
  <2> QED
    BY <1>4, <2>2, <2>3, <2>4, <2>5 DEF TakePage, TypeOK, RowsInv, TurnsAt, Pages, Entries, KeptThere
<1>5. ASSUME Send(d, r) PROVE TInv'
  <2> DEFINE e(k) == [key |-> k, row |-> store[d][k], room |-> TRUE]
  <2>1. PICK k \in ToSend(d, r) :
          turn' = [turn EXCEPT ![d][r].at = "sent", ![d][r].entry = e(k)]
    BY <1>5 DEF Send
  <2>2. k \in Keys
    BY DEF ToSend, New, Refused, Present
  <2>3. e(k) \in Entries
    BY <2>2, TypedParts DEF Entries
  <2>4. turn' \in [Devices -> [Relays -> TurnsAt]]
    <3> HIDE DEF e
    <3>1. turn' = [turn EXCEPT ![d][r] = [@ EXCEPT !.at = "sent", !.entry = e(k)]]
      BY <2>1
    <3>2. [turn[d][r] EXCEPT !.at = "sent", !.entry = e(k)] \in TurnsAt
      BY <2>3, <1>t DEF TurnsAt, Ats
    <3> QED
      BY <3>1, <3>2, OneTurnTyped
  <2> QED
    BY <1>5, <2>4 DEF Send, dvars, TypeOK, RowsInv, TurnsAt, Pages, Entries
<1>6. ASSUME RelayTakes(d, r) PROVE TInv'
  <2> DEFINE e == turn[d][r].entry
  <2> DEFINE row == [e.row EXCEPT !.place = Highest(relay[r]) + 1]
  <2>1. e \in Entries /\ e.key \in Keys /\ e.row \in Rows
    BY <1>t DEF TurnsAt, Entries
  <2>2. HasHighest(relay[r]) /\ relay[r] \in [Keys -> Rows] /\ Highest(relay[r]) \in Nat
    BY HighestIs, TypedParts DEF RowsInv
  <2>3. row \in Rows /\ row.place = Highest(relay[r]) + 1 /\ row.rev = e.row.rev
    BY <2>1, <2>2 DEF Rows
  <2>4. turn' \in [Devices -> [Relays -> TurnsAt]]
    <3>1. PICK room \in BOOLEAN :
            turn' = [turn EXCEPT ![d][r].at = "answered", ![d][r].entry.room = room]
      BY <1>6 DEF RelayTakes
    <3>2. turn' = [turn EXCEPT ![d][r] =
                     [@ EXCEPT !.at = "answered", !.entry = [e EXCEPT !.room = room]]]
      BY <3>1, <1>t DEF TurnsAt, TypeOK
    <3>3. [e EXCEPT !.room = room] \in Entries
      BY <2>1 DEF Entries
    <3>4. [turn[d][r] EXCEPT !.at = "answered", !.entry = [e EXCEPT !.room = room]] \in TurnsAt
      BY <3>3, <1>t DEF TurnsAt, Ats
    <3> QED
      BY <3>2, <3>4, OneTurnTyped
  <2>5. relay' \in [Relays -> [Keys -> Rows]] /\ RowsInv'
    <3>1. CASE relay' = relay
      BY <3>1 DEF TypeOK, RowsInv
    <3>2. CASE /\ relay' = [relay EXCEPT ![r] = [relay[r] EXCEPT ![e.key] = row]]
               /\ e.row.rev > relay[r][e.key].rev
      <4> DEFINE new == [relay[r] EXCEPT ![e.key] = row]
      <4>1. new \in [Keys -> Rows] /\ HasHighest(new)
        BY <2>1, <2>2, <2>3, AboveHighest
      <4>2. NoneWithoutPlace(new)
        <5>1. e.row.rev \in Nat /\ relay[r][e.key].rev \in Nat
          BY <2>1, <2>2 DEF Rows
        <5> QED
          BY <2>1, <2>2, <2>3, <3>2, <5>1 DEF NoneWithoutPlace, RowsInv
      <4> HIDE DEF new
      <4>3. relay' = [relay EXCEPT ![r] = new]
        BY <3>2 DEF new
      <4>4. relay' \in [Relays -> [Keys -> Rows]]
        BY <4>1, <4>3 DEF TypeOK
      <4>5. relay'[r] = new /\ \A q \in Relays \ {r} : relay'[q] = relay[q]
        BY <4>3 DEF TypeOK
      <4>6. RowsInv'
        BY <4>1, <4>2, <4>5 DEF RowsInv
      <4> QED
        BY <4>4, <4>6
    <3>3. \/ relay' = relay
          \/ /\ relay' = [relay EXCEPT ![r] = [relay[r] EXCEPT ![e.key] = row]]
             /\ e.row.rev > relay[r][e.key].rev
      BY <1>6, <2>1 DEF RelayTakes, TypeOK
    <3> QED
      BY <3>1, <3>2, <3>3
  <2>6. mark' \in [Relays -> Nat] /\ marks' \in Nat
    <3>1. marks + 1 \in Nat /\ marks \in Nat
      BY DEF TypeOK
    <3>2. mark' = mark \/ mark' = [mark EXCEPT ![r] = marks + 1]
      BY <1>6 DEF RelayTakes
    <3>3. marks' = marks \/ marks' = marks + 1
      BY <1>6 DEF RelayTakes
    <3> QED
      BY <3>1, <3>2, <3>3 DEF TypeOK
  <2> QED
    BY <1>6, <2>4, <2>5, <2>6 DEF RelayTakes, dvars, TypeOK, TurnsAt, Pages, Entries
<1>7. ASSUME TakeAnswer(d, r) PROVE TInv'
  <2> DEFINE e == turn[d][r].entry
  <2>1. e.row.place \in Nat /\ e.room \in BOOLEAN
    BY <1>t DEF TurnsAt, Entries, Rows
  <2>2. kept[d][r] \in KeptThere
    BY TypedParts
  <2>3. RefusedAfter(d, r) \in SUBSET Nat
    BY <2>1, <2>2 DEF RefusedAfter, KeptThere
  <2>4. PICK sentTo \in Nat : kept' = [kept EXCEPT ![d][r].sentTo = sentTo,
                                                ![d][r].refused = RefusedAfter(d, r)]
    BY <1>7, TakeAnswerIs
  <2>5. kept' \in [Devices -> [Relays -> KeptThere]]
    <3> DEFINE refused == RefusedAfter(d, r)
    <3>1. refused \in SUBSET Nat
      BY <2>3
    <3> HIDE DEF refused
    <3>2. kept' = [kept EXCEPT ![d][r] = [@ EXCEPT !.sentTo = sentTo, !.refused = refused]]
      BY <2>4 DEF refused
    <3>3. [kept[d][r] EXCEPT !.sentTo = sentTo, !.refused = refused] \in KeptThere
      BY <2>2, <2>4, <3>1 DEF KeptThere
    <3> QED
      BY <3>2, <3>3 DEF TypeOK, KeptThere
  <2>6. turn' \in [Devices -> [Relays -> TurnsAt]]
    <3>1. (turn[d][r].again /\ e.room) \in BOOLEAN
      BY <1>t
    <3>2. TurnAt("push", turn[d][r].again /\ e.room) \in TurnsAt
      BY <3>1, TurnTyped DEF Ats
    <3> QED
      BY <1>7, <3>2, OneTurnTyped DEF TakeAnswer, Turns
  <2> QED
    BY <1>7, <2>5, <2>6 DEF TakeAnswer, dvars, TypeOK, RowsInv, TurnsAt, Pages, Entries, KeptThere
<1>8. ASSUME End(d, r) PROVE TInv'
  <2>1. turn' \in [Devices -> [Relays -> TurnsAt]]
    BY <1>8, TurnTyped, OneTurnTyped DEF End, Idle, Ats
  <2> QED
    BY <1>8, <2>1 DEF End, dvars, TypeOK, RowsInv, TurnsAt, Pages, Entries
<1> QED
  BY <1>1, <1>2, <1>3, <1>4, <1>5, <1>6, <1>7, <1>8 DEF TurnStep

LEMMA OtherTurnTyped ==
  ASSUME TInv, NEW d \in Devices, NEW r \in Relays,
         \/ \E at \in {"no", "pull", "push"}, again \in BOOLEAN : Begin(d, r, at, again)
         \/ LeavePull(d, r) \/ Fail(d, r)
  PROVE  TInv'
<1> USE DEF TInv
<1>1. ASSUME NEW at \in {"no", "pull", "push"}, NEW again \in BOOLEAN, Begin(d, r, at, again)
      PROVE  TInv'
  <2>1. turn' \in [Devices -> [Relays -> TurnsAt]]
    BY <1>1, TurnTyped, OneTurnTyped DEF Begin, Turns, Ats
  <2> QED
    BY <1>1, <2>1 DEF Begin, dvars, TypeOK, RowsInv, TurnsAt, Pages, Entries
<1>2. ASSUME LeavePull(d, r) PROVE TInv'
  <2>1. turn[d][r].again \in BOOLEAN
    BY TypedParts DEF TurnsAt
  <2>2. turn' \in [Devices -> [Relays -> TurnsAt]]
    BY <1>2, <2>1, TurnTyped, OneTurnTyped DEF LeavePull, Turns, Ats
  <2>3. left' \in [Bounded -> Nat]
    BY <1>2, SpendTyped DEF LeavePull, Bounded, TypeOK
  <2> QED
    BY <1>2, <2>2, <2>3 DEF LeavePull, dvars, TypeOK, RowsInv, TurnsAt, Pages, Entries
<1>3. ASSUME Fail(d, r) PROVE TInv'
  <2>1. turn' \in [Devices -> [Relays -> TurnsAt]]
    BY <1>3, TurnTyped, OneTurnTyped DEF Fail, Idle, Ats
  <2>2. left' \in [Bounded -> Nat]
    BY <1>3, SpendTyped DEF Fail, Bounded, TypeOK
  <2> QED
    BY <1>3, <2>1, <2>2 DEF Fail, dvars, TypeOK, RowsInv, TurnsAt, Pages, Entries
<1> QED
  BY <1>1, <1>2, <1>3

(* The place moved to the last of what is left is the highest there is.    *)
LEMMA MovedIs ==
  ASSUME NEW r \in Relays, relay[r] \in [Keys -> Rows], HasHighest(relay[r]),
         NEW rest \in [Keys -> Rows], \A k \in Keys : rest[k] \in {NoRow, relay[r][k]},
         NEW last \in Keys, \A k \in Keys : rest[k].place <= rest[last].place
  PROVE  /\ Moved(r, rest, last) \in [Keys -> Rows]
         /\ HasHighest(Moved(r, rest, last))
         /\ Highest(Moved(r, rest, last)) = Highest(relay[r])
<1> DEFINE new == Moved(r, rest, last)
<1>1. Highest(relay[r]) \in Nat
  BY HighestIs
<1>2. new \in [Keys -> Rows] /\ new[last].place = Highest(relay[r])
  BY <1>1 DEF Moved, Rows
<1>3. \A k \in Keys : rest[k].place <= Highest(relay[r])
  BY <1>1, HighestIs DEF NoRow
<1>4. \A k \in Keys : new[k].place <= new[last].place
  BY <1>1, <1>2, <1>3 DEF Moved
<1> HIDE DEF new
<1>5. HasHighest(new) /\ Highest(new) = Highest(relay[r])
  BY <1>2, <1>4, HighestAt
<1> QED
  BY <1>2, <1>5 DEF new

LEMMA RelayTyped ==
  ASSUME TInv, NEW r \in Relays, DropChannel(r) \/ RelaySweep(r)
  PROVE  TInv'
<1> USE DEF TInv
<1>1. HasHighest(NoRows) /\ NoneWithoutPlace(NoRows)
  BY KeysFinite DEF HasHighest, NoneWithoutPlace, NoRows, NoRow
<1>2. ASSUME NEW new \in [Keys -> Rows], relay' = [relay EXCEPT ![r] = new],
             HasHighest(new), NoneWithoutPlace(new)
      PROVE  relay' \in [Relays -> [Keys -> Rows]] /\ RowsInv'
  <2>1. relay'[r] = new /\ \A q \in Relays \ {r} : relay'[q] = relay[q]
    BY <1>2 DEF TypeOK
  <2> QED
    BY <1>2, <2>1 DEF TypeOK, RowsInv
<1>3. CASE DropChannel(r)
  <2>1. relay' \in [Relays -> [Keys -> Rows]] /\ RowsInv'
    BY <1>1, <1>2, <1>3, NoneTyped DEF DropChannel
  <2>2. left' \in [Bounded -> Nat]
    BY <1>3, SpendTyped DEF DropChannel, Bounded, TypeOK
  <2> QED
    BY <1>3, <2>1, <2>2 DEF DropChannel, dvars, TypeOK
<1>4. CASE RelaySweep(r)
  <2> DEFINE rest(gone) == [k \in Keys |-> IF SlotOf(k) \in gone THEN NoRow ELSE relay[r][k]]
  <2>1. left' \in [Bounded -> Nat]
    BY <1>4, SpendTyped DEF RelaySweep, Bounded, TypeOK
  <2>2. PICK gone \in SUBSET Slots :
          \/ /\ relay' = [relay EXCEPT ![r] = rest(gone)]
             /\ Present(rest(gone)) = {}
             /\ mark' = [mark EXCEPT ![r] = 0]
          \/ \E last \in Present(rest(gone)) :
               /\ \A k \in Keys : rest(gone)[k].place <= rest(gone)[last].place
               /\ relay' = [relay EXCEPT ![r] = Moved(r, rest(gone), last)]
               /\ UNCHANGED mark
    BY <1>4 DEF RelaySweep
  <2>3. rest(gone) \in [Keys -> Rows] /\ \A k \in Keys : rest(gone)[k] \in {NoRow, relay[r][k]}
    BY NoneTyped, TypedParts, <1>4 DEF TypeOK
  <2>4. NoneWithoutPlace(rest(gone))
    BY DEF RowsInv, NoneWithoutPlace, NoRow
  <2> HIDE DEF rest
  <2>5. CASE /\ relay' = [relay EXCEPT ![r] = rest(gone)]
             /\ Present(rest(gone)) = {}
             /\ mark' = [mark EXCEPT ![r] = 0]
    <3>1. \A k \in Keys : rest(gone)[k].place = 0
      BY <2>3, <2>4, <2>5 DEF Present, NoneWithoutPlace, Rows
    <3>2. HasHighest(rest(gone))
      BY <3>1, KeysFinite DEF HasHighest
    <3>3. relay' \in [Relays -> [Keys -> Rows]] /\ RowsInv'
      BY <1>2, <2>3, <2>4, <2>5, <3>2
    <3> QED
      BY <1>4, <2>1, <2>5, <3>3 DEF RelaySweep, dvars, TypeOK
  <2>6. CASE \E last \in Present(rest(gone)) :
               /\ \A k \in Keys : rest(gone)[k].place <= rest(gone)[last].place
               /\ relay' = [relay EXCEPT ![r] = Moved(r, rest(gone), last)]
               /\ UNCHANGED mark
    <3>1. PICK last \in Present(rest(gone)) :
               /\ \A k \in Keys : rest(gone)[k].place <= rest(gone)[last].place
               /\ relay' = [relay EXCEPT ![r] = Moved(r, rest(gone), last)]
               /\ UNCHANGED mark
      BY <2>6
    <3> DEFINE new == Moved(r, rest(gone), last)
    <3>2. last \in Keys /\ rest(gone)[last].rev > 0
      BY DEF Present
    <3>r. relay[r] \in [Keys -> Rows] /\ HasHighest(relay[r])
      BY DEF TypeOK, RowsInv
    <3>3. new \in [Keys -> Rows] /\ HasHighest(new)
      BY <2>3, <3>1, <3>2, <3>r, MovedIs
    <3>4. NoneWithoutPlace(new)
      BY <2>3, <2>4, <3>2 DEF Moved, NoneWithoutPlace, Rows
    <3> HIDE DEF new
    <3>5. relay' \in [Relays -> [Keys -> Rows]] /\ RowsInv'
      BY <1>2, <3>1, <3>3, <3>4 DEF new
    <3> QED
      BY <1>4, <2>1, <3>1, <3>5 DEF RelaySweep, dvars, TypeOK
  <2> QED
    BY <2>2, <2>5, <2>6
<1> QED
  BY <1>3, <1>4

LEMMA NextTyped == TInv /\ [Next]_vars => TInv'
<1> SUFFICES ASSUME TInv, [Next]_vars PROVE TInv'
  OBVIOUS
<1>1. CASE UNCHANGED vars
  BY <1>1 DEF TInv, TypeOK, RowsInv, vars, dvars
<1>2. CASE \E d \in Devices : OfTheDevice(d)
  BY <1>2, DeviceTyped
<1>3. CASE \E d \in Devices, r \in Relays :
             \/ \E at \in {"no", "pull", "push"}, again \in BOOLEAN : Begin(d, r, at, again)
             \/ TurnStep(d, r) \/ LeavePull(d, r) \/ Fail(d, r)
  BY <1>3, TurnStepTyped, OtherTurnTyped
<1>4. CASE \E r \in Relays : DropChannel(r) \/ RelaySweep(r)
  BY <1>4, RelayTyped
<1> QED
  BY <1>1, <1>2, <1>3, <1>4 DEF Next

(* Every value of RelayPages keeps its type, and a relay's places never    *)
(* come to be without a highest, whatever is sent, read, swept and dropped *)
(* (entries.rs, highest_place).                                            *)
THEOREM PagesTyped == Spec => []TypeOK
<1>1. Spec => []TInv
  BY InitTyped, NextTyped, PTL DEF Spec
<1>2. TInv => TypeOK
  BY DEF TInv
<1> QED
  BY <1>1, <1>2, PTL

-----------------------------------------------------------------------------
(***************************************************************************)
(* No entry is passed over.  NothingPassedOver alone is not inductive: a   *)
(* page on its way moves the place when it is taken, so the page has to    *)
(* bring, or the device to hold, all there is up to where it ends.  And a  *)
(* new entry's place is above every place that was handed, in the holding  *)
(* it was handed in.                                                       *)
(***************************************************************************)
(* A place is of a mark that was made, and within the holding where it is  *)
(* of that one.                                                            *)
Within(p, rows, m, made) ==
  /\ p.mark <= made
  /\ m # 0 /\ p.mark = m => p.place <= Highest(rows)

Held ==
  \A r \in Relays :
    /\ mark[r] <= marks
    /\ mark[r] = 0 => Present(relay[r]) = {}
    /\ \A k \in Present(relay[r]) : relay[r][k].place > 0

PageEnd(d, r) == [mark |-> turn[d][r].page.mark, place |-> turn[d][r].page.next]

Asking(t) == t.at \in {"asked", "page"}

Marked(d, r) ==
  /\ Within(kept[d][r].at, relay[r], mark[r], marks)
  /\ Asking(turn[d][r]) => /\ Within(turn[d][r].from, relay[r], mark[r], marks)
                           /\ kept[d][r].at \in {turn[d][r].from, NoPlace}
  /\ turn[d][r].at = "page" => Within(PageEnd(d, r), relay[r], mark[r], marks)
  /\ ~holds[d] => kept[d][r].at = NoPlace /\ turn[d][r] = Idle

Has(d, k, rev) == AuthorOf(k) \in counts[d] => store[d][k].rev >= rev

PageCovers(d, r) ==
  LET t == turn[d][r]
  IN t.at = "page" /\ ~Stale(d, r) /\ mark[r] # 0 /\ t.page.mark = mark[r] =>
       \A k \in Present(relay[r]) : relay[r][k].place <= t.page.next =>
         \/ t.page.rows[k].rev >= relay[r][k].rev
         \/ t.from.mark = t.page.mark /\ Has(d, k, relay[r][k].rev)

NonePassed(d, r) ==
  \A k \in Keys :
    holds[d] /\ AuthorOf(k) \in counts[d] /\ PassedOver(d, r, k)
      => Holds(d, k, relay[r][k].rev)

PlaceInv(d, r) == Marked(d, r) /\ PageCovers(d, r) /\ NonePassed(d, r)

IInv == TInv /\ Held /\ \A d \in Devices, r \in Relays : PlaceInv(d, r)

(* What a relay may do to a holding: an entry gets a place above all there *)
(* were, or keeps its own, or gets a later one.  Or the holding is over.   *)
SameHolding(r) ==
  /\ mark'[r] = mark[r] /\ marks' >= marks
  /\ Highest(relay'[r]) >= Highest(relay[r])
  /\ \A k \in Present(relay'[r]) :
       \/ /\ relay'[r][k].rev = relay[r][k].rev
          /\ relay'[r][k].place >= relay[r][k].place
       \/ relay'[r][k].place > Highest(relay[r])

OtherHolding(r) ==
  \/ mark'[r] = 0 /\ marks' = marks /\ Present(relay'[r]) = {}
  \/ mark'[r] = marks + 1 /\ marks' = marks + 1

LEMMA SameHoldingStays ==
  ASSUME TInv, NEW r \in Relays, relay'[r] = relay[r], mark'[r] = mark[r], marks' >= marks
  PROVE  SameHolding(r)
<1>1. Highest(relay[r]) \in Nat
  BY HighestIs DEF TInv, TypeOK, RowsInv
<1>2. \A k \in Keys : relay[r][k].place \in Nat
  BY DEF TInv, TypeOK, Rows
<1> QED
  BY <1>1, <1>2 DEF SameHolding, Present

LEMMA WithinStays ==
  ASSUME TInv, TInv', Held, NEW r \in Relays, NEW p \in Places, Within(p, relay[r], mark[r], marks),
         SameHolding(r) \/ OtherHolding(r)
  PROVE  Within(p, relay'[r], mark'[r], marks')
<1>1. Highest(relay[r]) \in Nat /\ Highest(relay'[r]) \in Nat
  BY HighestIs DEF TInv, TypeOK, RowsInv
<1>2. marks \in Nat /\ marks' \in Nat /\ mark[r] \in Nat /\ p.mark \in Nat /\ p.place \in Nat
  BY DEF TInv, TypeOK, Places
<1>3. CASE SameHolding(r)
  BY <1>1, <1>2, <1>3 DEF SameHolding, Within
<1>4. CASE OtherHolding(r)
  BY <1>1, <1>2, <1>4 DEF OtherHolding, Within
<1> QED
  BY <1>3, <1>4

(* What was passed, at or before a place in the holding, is as it was.     *)
LEMMA PassedStays ==
  ASSUME TInv, TInv', Held, NEW r \in Relays, NEW p \in Places, Within(p, relay[r], mark[r], marks),
         SameHolding(r) \/ OtherHolding(r),
         NEW k \in Keys, relay'[r][k].rev > 0, mark'[r] # 0, mark'[r] = p.mark,
         relay'[r][k].place <= p.place
  PROVE  /\ relay[r][k].rev = relay'[r][k].rev
         /\ mark[r] = p.mark
         /\ relay[r][k].place <= p.place
<1>1. Highest(relay[r]) \in Nat /\ relay[r][k] \in Rows /\ relay'[r][k] \in Rows
  BY HighestIs DEF TInv, TypeOK, RowsInv
<1>2. marks \in Nat /\ marks' \in Nat /\ mark[r] \in Nat /\ p.mark \in Nat /\ p.place \in Nat
  BY DEF TInv, TypeOK, Places
<1>3. k \in Present(relay'[r])
  BY DEF Present
<1>4. CASE SameHolding(r)
  <2>1. mark[r] = p.mark
    BY <1>4 DEF SameHolding
  <2>2. p.place <= Highest(relay[r])
    BY <1>4, <2>1 DEF Within, SameHolding
  <2> QED
    BY <1>1, <1>2, <1>3, <1>4, <2>1, <2>2 DEF SameHolding, Rows
<1>5. CASE OtherHolding(r)
  BY <1>2, <1>3, <1>5 DEF OtherHolding, Within
<1> QED
  BY <1>4, <1>5

(* A step that leaves the place, and the device's turn but for its end or  *)
(* what it sends, and by which the device only comes to hold more.         *)
LEMMA PlaceStays ==
  ASSUME TInv, TInv', Held, Held', NEW d \in Devices, NEW r \in Relays, PlaceInv(d, r),
         SameHolding(r) \/ OtherHolding(r),
         kept'[d][r].at = kept[d][r].at,
         holds'[d] = holds[d], counts'[d] = counts[d],
         \A k \in Keys : store'[d][k].rev >= store[d][k].rev,
         \/ turn'[d][r] = turn[d][r]
         \/ ~Asking(turn'[d][r]) /\ (holds[d] \/ turn'[d][r] = Idle)
  PROVE  PlaceInv(d, r)'
<1>1. /\ kept[d][r].at \in Places /\ turn[d][r].from \in Places
      /\ turn[d][r].page.mark \in Nat /\ turn[d][r].page.next \in Nat
  BY DEF TInv, TypeOK, Places
<1>2. PageEnd(d, r) \in Places
  BY <1>1 DEF PageEnd, Places
<1>3. /\ \A k \in Keys : store[d][k].rev \in Nat /\ store'[d][k].rev \in Nat
      /\ \A k \in Keys : relay[r][k].rev \in Nat /\ relay'[r][k].rev \in Nat
  BY DEF TInv, TypeOK, Rows
<1>4. Marked(d, r)'
  <2>1. Within(kept[d][r].at, relay'[r], mark'[r], marks')
    BY <1>1, WithinStays DEF PlaceInv, Marked
  <2>2. Within(kept'[d][r].at, relay'[r], mark'[r], marks')
    BY <2>1 DEF Within
  <2>3. CASE turn'[d][r] = turn[d][r]
    <3>1. Asking(turn[d][r]) => Within(turn[d][r].from, relay'[r], mark'[r], marks')
      BY <1>1, WithinStays DEF PlaceInv, Marked
    <3>2. turn[d][r].at = "page" => Within(PageEnd(d, r), relay'[r], mark'[r], marks')
      BY <1>2, WithinStays DEF PlaceInv, Marked
    <3>3. PageEnd(d, r)' = PageEnd(d, r)
      BY <2>3 DEF PageEnd
    <3>4. Asking(turn[d][r])' <=> Asking(turn[d][r])
      BY <2>3 DEF Asking
    <3> QED
      BY <2>2, <2>3, <3>1, <3>2, <3>3, <3>4 DEF PlaceInv, Marked
  <2>4. CASE ~Asking(turn'[d][r]) /\ (holds[d] \/ turn'[d][r] = Idle)
    BY <2>2, <2>4 DEF PlaceInv, Marked, Asking
  <2> QED
    BY <2>3, <2>4
<1>5. PageCovers(d, r)'
  <2> SUFFICES ASSUME turn'[d][r].at = "page", turn'[d][r].from = kept'[d][r].at,
                      mark'[r] # 0, turn'[d][r].page.mark = mark'[r],
                      NEW k \in Present(relay'[r]),
                      relay'[r][k].place <= turn'[d][r].page.next
               PROVE  \/ turn'[d][r].page.rows[k].rev >= relay'[r][k].rev
                      \/ /\ turn'[d][r].from.mark = turn'[d][r].page.mark
                         /\ Has(d, k, relay[r][k].rev)'
    BY DEF PageCovers, Stale
  <2>1. turn'[d][r] = turn[d][r]
    BY DEF Asking
  <2> DEFINE end == [mark |-> turn[d][r].page.mark, place |-> turn[d][r].page.next]
  <2>2. Within(end, relay[r], mark[r], marks) /\ end \in Places
    BY <1>2, <2>1 DEF PlaceInv, Marked, PageEnd
  <2>3. k \in Keys /\ relay'[r][k].rev > 0
    BY DEF Present
  <2>4. /\ relay[r][k].rev = relay'[r][k].rev
        /\ mark[r] = end.mark
        /\ relay[r][k].place <= end.place
    BY <2>1, <2>2, <2>3, PassedStays
  <2>5. \/ turn[d][r].page.rows[k].rev >= relay[r][k].rev
        \/ turn[d][r].from.mark = turn[d][r].page.mark /\ Has(d, k, relay[r][k].rev)
    BY <2>1, <2>3, <2>4 DEF PlaceInv, PageCovers, Stale, Present
  <2> QED
    BY <1>3, <2>1, <2>3, <2>4, <2>5 DEF Has
<1>6. NonePassed(d, r)'
  <2> SUFFICES ASSUME NEW k \in Keys, holds'[d], AuthorOf(k) \in counts'[d],
                      relay'[r][k].rev > 0, mark'[r] = kept'[d][r].at.mark,
                      relay'[r][k].place <= kept'[d][r].at.place
               PROVE  store'[d][k].rev >= relay'[r][k].rev
    BY DEF NonePassed, PassedOver, Holds
  <2>1. mark'[r] # 0
    BY DEF Held, Present
  <2>2. /\ relay[r][k].rev = relay'[r][k].rev
        /\ mark[r] = kept[d][r].at.mark
        /\ relay[r][k].place <= kept[d][r].at.place
    BY <1>1, <2>1, PassedStays DEF PlaceInv, Marked
  <2>3. store[d][k].rev >= relay[r][k].rev
    BY <2>2 DEF PlaceInv, NonePassed, PassedOver, Holds
  <2> QED
    BY <1>3, <2>2, <2>3
<1> QED
  BY <1>4, <1>5, <1>6 DEF PlaceInv

(* A step by which nothing is kept of how far the channel was read.        *)
LEMMA ForgottenStays ==
  ASSUME TInv, TInv', Held', NEW d \in Devices, NEW r \in Relays, PlaceInv(d, r),
         UNCHANGED <<relay, mark, marks>>,
         kept'[d][r].at = NoPlace,
         \/ turn'[d][r] = turn[d][r] /\ (holds'[d] \/ turn[d][r] = Idle)
         \/ ~Asking(turn'[d][r]) /\ holds'[d]
  PROVE  PlaceInv(d, r)'
<1>1. marks' \in Nat /\ NoPlace.mark = 0 /\ NoPlace.place = 0
  BY DEF TInv, TypeOK, NoPlace
<1>2. Marked(d, r)'
  <2>1. Within(kept'[d][r].at, relay'[r], mark'[r], marks')
    BY <1>1 DEF Within
  <2> QED
    BY <2>1 DEF PlaceInv, Marked, Asking, Within, PageEnd
<1>3. PageCovers(d, r)'
  <2> SUFFICES ASSUME turn'[d][r].at = "page", turn'[d][r].from = NoPlace,
                      mark'[r] # 0, turn'[d][r].page.mark = mark'[r],
                      NEW k \in Present(relay'[r]),
                      relay'[r][k].place <= turn'[d][r].page.next
               PROVE  turn'[d][r].page.rows[k].rev >= relay'[r][k].rev
    BY DEF PageCovers, Stale
  <2>1. turn'[d][r] = turn[d][r]
    BY DEF Asking
  <2>2. kept[d][r].at = NoPlace
    BY <2>1 DEF PlaceInv, Marked, Asking
  <2> QED
    BY <1>1, <2>1, <2>2 DEF PlaceInv, PageCovers, Stale
<1>4. NonePassed(d, r)'
  BY <1>1 DEF NonePassed, PassedOver, Held, Present
<1> QED
  BY <1>2, <1>3, <1>4 DEF PlaceInv

-----------------------------------------------------------------------------
(***************************************************************************)
(* The steps.                                                              *)
(***************************************************************************)
LEMMA InitPlaced == Init => IInv
<1> SUFFICES ASSUME Init PROVE IInv
  OBVIOUS
<1>1. TInv
  BY InitTyped
<1>2. \A r \in Relays : Present(relay[r]) = {}
  BY DEF Init, NoRows, NoRow, Present
<1>3. Held
  BY <1>2 DEF Init, Held
<1>4. ASSUME NEW d \in Devices, NEW r \in Relays PROVE PlaceInv(d, r)
  <2>1. kept[d][r].at = NoPlace /\ turn[d][r].at = "idle" /\ holds[d] /\ mark[r] = 0 /\ marks = 0
    BY DEF Init, NothingKept, Idle, TurnAt
  <2>2. Marked(d, r)
    BY <2>1 DEF Marked, Within, Asking, NoPlace
  <2> QED
    BY <1>2, <2>1, <2>2 DEF PlaceInv, PageCovers, NonePassed, PassedOver, Present
<1> QED
  BY <1>1, <1>3, <1>4 DEF IInv

(* What the relays have is left as it is.                                  *)
LEMMA HeldStays ==
  ASSUME TInv, Held, UNCHANGED <<relay, mark, marks>>
  PROVE  /\ Held'
         /\ \A r \in Relays : SameHolding(r)
<1>1. marks \in Nat
  BY DEF TInv, TypeOK
<1> QED
  BY <1>1, SameHoldingStays DEF Held, Present

(* What a device does by itself leaves what the others have.               *)
LEMMA OthersLeftAlone ==
  ASSUME TInv, NEW d \in Devices, OfTheDevice(d), NEW e \in Devices, e # d
  PROVE  /\ kept'[e] = kept[e] /\ holds'[e] = holds[e] /\ counts'[e] = counts[e]
         /\ store'[e] = store[e] /\ turn'[e] = turn[e]
         /\ fetched'[e] = fetched[e] /\ owed'[e] = owed[e]
<1>0. /\ e \in DOMAIN kept /\ e \in DOMAIN holds /\ e \in DOMAIN counts
      /\ e \in DOMAIN store /\ e \in DOMAIN turn
      /\ e \in DOMAIN fetched /\ e \in DOMAIN owed
  BY DEF TInv, TypeOK
<1> DEFINE Left == /\ kept'[e] = kept[e] /\ holds'[e] = holds[e] /\ counts'[e] = counts[e]
                   /\ store'[e] = store[e] /\ turn'[e] = turn[e]
                   /\ fetched'[e] = fetched[e] /\ owed'[e] = owed[e]
<1>1. ASSUME NEW s \in Slots, NEW delete \in Deletes, Write(d, s, delete) PROVE Left
  BY <1>0, <1>1 DEF Write
<1>2. ASSUME NEW s \in Slots, SweepDeletes(d, s) PROVE Left
  BY <1>0, <1>2 DEF SweepDeletes
<1>3. ASSUME NEW a \in Devices, ComeToCount(d, a) PROVE Left
  BY <1>0, <1>3 DEF ComeToCount
<1>4. CASE Stop(d)
  BY <1>0, <1>4 DEF Stop
<1>5. CASE HoldName(d)
  BY <1>0, <1>5 DEF HoldName
<1>6. CASE Restart(d)
  BY <1>0, <1>6 DEF Restart
<1> QED
  BY <1>1, <1>2, <1>3, <1>4, <1>5, <1>6 DEF OfTheDevice

LEMMA DevicePlaced ==
  ASSUME IInv, TInv', ~StopsInPass, NEW d \in Devices, OfTheDevice(d)
  PROVE  IInv'
<1> USE DEF IInv
<1>1. UNCHANGED <<relay, mark, marks>>
  BY DEF OfTheDevice, Write, SweepDeletes, ComeToCount, Stop, HoldName, Restart
<1>2. Held' /\ \A r \in Relays : SameHolding(r)
  BY <1>1, HeldStays
<1> SUFFICES ASSUME NEW e \in Devices, NEW r \in Relays PROVE PlaceInv(e, r)'
  BY <1>2
<1>3. PlaceInv(e, r) /\ (~holds[e] => kept[e][r].at = NoPlace /\ turn[e][r] = Idle)
  BY DEF PlaceInv, Marked
<1>4. \A k \in Keys : store[e][k].rev \in Nat /\ store'[e][k].rev \in Nat
  BY DEF TInv, TypeOK, Rows
<1>5. CASE e # d /\ UNCHANGED turn
  <2>1. /\ kept'[e] = kept[e] /\ holds'[e] = holds[e] /\ counts'[e] = counts[e]
        /\ store'[e] = store[e]
    BY <1>5, OthersLeftAlone
  <2> QED
    BY <1>2, <1>3, <1>4, <1>5, <2>1, PlaceStays
<1>6. ASSUME e = d, NEW s \in Slots, NEW delete \in Deletes, Write(d, s, delete)
      PROVE  PlaceInv(e, r)'
  <2>1. PICK rev \in 1 .. TopRev :
          /\ \A a \in Devices : store[d][<<s, a>>].rev < rev
          /\ store' = [store EXCEPT ![d][<<s, d>>] =
               [rev |-> rev, delete |-> delete, place |-> seqs[d] + 1]]
    BY <1>6 DEF Write
  <2>2. \A k \in Keys : store'[e][k].rev >= store[e][k].rev
    BY <1>4, <1>6, <2>1 DEF TInv, TypeOK
  <2> QED
    BY <1>2, <1>3, <1>6, <2>2, PlaceStays DEF Write
<1>7. ASSUME e = d, NEW s \in Slots, SweepDeletes(d, s)
      PROVE  PlaceInv(e, r)'
  <2>1. kept'[e][r].at = NoPlace /\ holds' = holds /\ turn' = turn
    BY <1>7 DEF SweepDeletes, TInv, TypeOK
  <2> QED
    BY <1>1, <1>2, <1>3, <2>1, ForgottenStays
<1>8. ASSUME e = d, NEW a \in Devices, ComeToCount(d, a)
      PROVE  PlaceInv(e, r)'
  <2>1. kept'[e][r].at = NoPlace /\ holds' = holds /\ turn' = turn
    BY <1>8 DEF ComeToCount, TInv, TypeOK
  <2> QED
    BY <1>1, <1>2, <1>3, <2>1, ForgottenStays
<1>9. ASSUME e = d, Stop(d) PROVE PlaceInv(e, r)'
  <2>1. kept'[e][r].at = NoPlace /\ turn' = turn /\ turn[e][r] = Idle
    BY <1>9 DEF Stop, KeptAfterStop, NothingKept, NoTurns, TInv, TypeOK
  <2> QED
    BY <1>1, <1>2, <1>3, <2>1, ForgottenStays
<1>10. ASSUME e = d, HoldName(d) PROVE PlaceInv(e, r)'
  <2>1. kept'[e][r].at = NoPlace /\ turn' = turn /\ turn[e][r] = Idle
    BY <1>3, <1>10 DEF HoldName
  <2> QED
    BY <1>1, <1>2, <1>3, <2>1, ForgottenStays
<1>11. ASSUME Restart(d) PROVE PlaceInv(e, r)'
  <2>1. turn'[e][r] = turn[e][r] \/ turn'[e][r] = Idle
    BY <1>11 DEF Restart, TInv, TypeOK
  <2>2. ~Asking(Idle)
    BY DEF Asking, Idle, TurnAt
  <2> QED
    BY <1>2, <1>3, <1>4, <1>11, <2>1, <2>2, PlaceStays DEF Restart
<1>12. Restart(d) \/ UNCHANGED turn
  BY DEF OfTheDevice, Write, SweepDeletes, ComeToCount, Stop, HoldName
<1> QED
  BY <1>5, <1>6, <1>7, <1>8, <1>9, <1>10, <1>11, <1>12 DEF OfTheDevice

(* What a relay does keeps every holding, or ends it, or begins another.   *)
LEMMA RelayHolding ==
  ASSUME IInv, TInv', NEW r \in Relays, DropChannel(r) \/ RelaySweep(r)
  PROVE  /\ Held'
         /\ \A q \in Relays : SameHolding(q) \/ OtherHolding(q)
<1> USE DEF IInv
<1>1. /\ relay[r] \in [Keys -> Rows] /\ HasHighest(relay[r]) /\ Highest(relay[r]) \in Nat
      /\ relay'[r] \in [Keys -> Rows] /\ mark[r] \in Nat /\ marks \in Nat
  BY HighestIs DEF TInv, TypeOK, RowsInv
<1>2. \A k \in Keys : relay[r][k].rev \in Nat /\ relay[r][k].place \in Nat
  BY <1>1 DEF Rows
<1>3. \A q \in Relays \ {r} : relay'[q] = relay[q] /\ mark'[q] = mark[q]
  BY DEF DropChannel, RelaySweep, TInv, TypeOK
<1>4. UNCHANGED <<marks, dvars, kept, turn>>
  BY DEF DropChannel, RelaySweep
<1>5. /\ SameHolding(r) \/ OtherHolding(r)
      /\ mark'[r] <= marks
      /\ mark'[r] = 0 => Present(relay'[r]) = {}
      /\ \A k \in Present(relay'[r]) : relay'[r][k].place > 0
  <2>1. CASE DropChannel(r)
    <3>1. mark'[r] = 0 /\ relay'[r] = NoRows
      BY <2>1 DEF DropChannel, TInv, TypeOK
    <3>2. Present(relay'[r]) = {}
      BY <3>1 DEF Present, NoRows, NoRow
    <3> QED
      BY <1>1, <1>4, <3>1, <3>2 DEF OtherHolding
  <2>2. CASE RelaySweep(r)
    <3> DEFINE rest(gone) == [k \in Keys |-> IF SlotOf(k) \in gone THEN NoRow ELSE relay[r][k]]
    <3>1. PICK gone \in SUBSET Slots :
            \/ /\ relay' = [relay EXCEPT ![r] = rest(gone)]
               /\ Present(rest(gone)) = {}
               /\ mark' = [mark EXCEPT ![r] = 0]
            \/ \E last \in Present(rest(gone)) :
                 /\ \A k \in Keys : rest(gone)[k].place <= rest(gone)[last].place
                 /\ relay' = [relay EXCEPT ![r] = Moved(r, rest(gone), last)]
                 /\ UNCHANGED mark
      BY <2>2 DEF RelaySweep
    <3>2. rest(gone) \in [Keys -> Rows] /\ \A k \in Keys : rest(gone)[k] \in {NoRow, relay[r][k]}
      BY NoneTyped, <1>1
    <3> HIDE DEF rest
    <3>3. CASE /\ relay' = [relay EXCEPT ![r] = rest(gone)]
               /\ Present(rest(gone)) = {}
               /\ mark' = [mark EXCEPT ![r] = 0]
      <4>1. mark'[r] = 0 /\ Present(relay'[r]) = {}
        BY <3>3 DEF TInv, TypeOK
      <4> QED
        BY <1>1, <1>4, <4>1 DEF OtherHolding
    <3>4. CASE \E last \in Present(rest(gone)) :
                 /\ \A k \in Keys : rest(gone)[k].place <= rest(gone)[last].place
                 /\ relay' = [relay EXCEPT ![r] = Moved(r, rest(gone), last)]
                 /\ UNCHANGED mark
      <4>1. PICK last \in Present(rest(gone)) :
                 /\ \A k \in Keys : rest(gone)[k].place <= rest(gone)[last].place
                 /\ relay' = [relay EXCEPT ![r] = Moved(r, rest(gone), last)]
                 /\ UNCHANGED mark
        BY <3>4
      <4>2. last \in Keys /\ rest(gone)[last].rev > 0
        BY DEF Present
      <4>3. Highest(relay'[r]) = Highest(relay[r]) /\ relay'[r] = Moved(r, rest(gone), last)
        <5>1. relay'[r] = Moved(r, rest(gone), last)
          BY <4>1 DEF TInv, TypeOK
        <5>2. Highest(Moved(r, rest(gone), last)) = Highest(relay[r])
          BY <1>1, <3>2, <4>1, <4>2, MovedIs
        <5> QED
          BY <5>1, <5>2
      <4>4. ASSUME NEW k \in Present(relay'[r])
            PROVE  /\ relay'[r][k].rev = relay[r][k].rev
                   /\ relay'[r][k].place >= relay[r][k].place
                   /\ k \in Present(relay[r])
        <5>1. k \in Keys /\ relay'[r][k].rev > 0
          BY DEF Present
        <5>2. relay'[r][k].rev = rest(gone)[k].rev
          BY <3>2, <4>2, <4>3, <5>1 DEF Moved, Rows
        <5>3. rest(gone)[k] = relay[r][k]
          BY <3>2, <5>1, <5>2 DEF NoRow
        <5>4. relay'[r][k].place \in {relay[r][k].place, Highest(relay[r])}
          BY <3>2, <4>2, <4>3, <5>1, <5>3 DEF Moved, Rows
        <5> QED
          BY <1>1, <1>2, <5>1, <5>2, <5>3, <5>4, HighestIs DEF Present
      <4>5. SameHolding(r)
        BY <1>1, <1>4, <4>1, <4>3, <4>4 DEF SameHolding
      <4>6. mark'[r] = mark[r] /\ mark[r] <= marks
        BY <4>1 DEF Held
      <4>7. \A k \in Present(relay'[r]) : relay'[r][k].place > 0
        <5>1. ASSUME NEW k \in Present(relay'[r]) PROVE relay'[r][k].place > 0
          <6>1. relay[r][k].place > 0 /\ relay'[r][k].place >= relay[r][k].place
            BY <4>4 DEF Held
          <6>2. relay'[r][k].place \in Nat /\ relay[r][k].place \in Nat
            BY <1>1, <1>2 DEF Present, Rows
          <6> QED
            BY <6>1, <6>2
        <5> QED
          BY <5>1
      <4>8. mark'[r] = 0 => Present(relay'[r]) = {}
        BY <4>4, <4>6 DEF Held
      <4> QED
        BY <4>5, <4>6, <4>7, <4>8
    <3> QED
      BY <3>1, <3>3, <3>4
  <2> QED
    BY <2>1, <2>2
<1>6. Held'
  BY <1>3, <1>4, <1>5 DEF Held, Present
<1>7. \A q \in Relays : SameHolding(q) \/ OtherHolding(q)
  <2>1. \A q \in Relays \ {r} : SameHolding(q)
    BY <1>1, <1>3, <1>4, SameHoldingStays
  <2> QED
    BY <1>5, <2>1
<1> QED
  BY <1>6, <1>7

LEMMA RelayPlaced ==
  ASSUME IInv, TInv', NEW r \in Relays, DropChannel(r) \/ RelaySweep(r)
  PROVE  IInv'
<1> USE DEF IInv
<1>1. UNCHANGED <<marks, dvars, kept, turn>>
  BY DEF DropChannel, RelaySweep
<1>2. Held' /\ \A q \in Relays : SameHolding(q) \/ OtherHolding(q)
  BY RelayHolding
<1>3. ASSUME NEW d \in Devices, NEW q \in Relays PROVE PlaceInv(d, q)'
  <2>1. \A k \in Keys : store'[d][k].rev >= store[d][k].rev
    BY <1>1 DEF dvars, TInv, TypeOK, Rows
  <2> QED
    BY <1>1, <1>2, <2>1, PlaceStays DEF dvars
<1> QED
  BY <1>2, <1>3

LEMMA OtherTurnPlaced ==
  ASSUME IInv, TInv', NEW d \in Devices, NEW r \in Relays,
         \/ \E at \in {"no", "pull", "push"}, again \in BOOLEAN : Begin(d, r, at, again)
         \/ LeavePull(d, r) \/ Fail(d, r)
  PROVE  IInv'
<1> USE DEF IInv
<1>1. UNCHANGED <<relay, mark, marks, dvars, kept>>
  BY DEF Begin, LeavePull, Fail
<1>2. Held' /\ \A q \in Relays : SameHolding(q)
  BY <1>1, HeldStays
<1>3. ASSUME NEW e \in Devices, NEW q \in Relays PROVE PlaceInv(e, q)'
  <2>1. \A k \in Keys : store'[e][k].rev >= store[e][k].rev
    BY <1>1 DEF dvars, TInv, TypeOK, Rows
  <2>2. \/ turn'[e][q] = turn[e][q]
        \/ ~Asking(turn'[e][q]) /\ (holds[e] \/ turn'[e][q] = Idle)
    <3>1. \A again : ~Asking(Idle) /\ ~Asking(TurnAt("no", again)) /\ ~Asking(TurnAt("pull", again))
                     /\ ~Asking(TurnAt("push", again))
      BY DEF Asking, Idle, TurnAt
    <3>2. CASE LeavePull(d, r)
      <4>1. turn[d][r].at = "pull" /\ Idle.at = "idle"
        BY <3>2 DEF LeavePull, Idle, TurnAt
      <4>2. holds[d]
        BY <4>1 DEF PlaceInv, Marked
      <4> QED
        BY <3>1, <3>2, <4>2 DEF LeavePull, Turns, TInv, TypeOK
    <3>3. CASE Fail(d, r)
      BY <3>1, <3>3 DEF Fail, TInv, TypeOK
    <3>4. ASSUME NEW at \in {"no", "pull", "push"}, NEW again \in BOOLEAN, Begin(d, r, at, again)
          PROVE  \/ turn'[e][q] = turn[e][q]
                 \/ ~Asking(turn'[e][q]) /\ holds[e]
      <4>1. turn' = [turn EXCEPT ![d][r] = TurnAt(at, again)] /\ holds[d]
        BY <3>4 DEF Begin, Turns
      <4> QED
        BY <3>1, <4>1 DEF TInv, TypeOK
    <3> QED
      BY <3>2, <3>3, <3>4
  <2> QED
    BY <1>1, <1>2, <2>1, <2>2, PlaceStays DEF dvars
<1> QED
  BY <1>2, <1>3

(* The relay hands what it has after the place it was asked from.          *)
LEMMA HandedPlaced ==
  ASSUME IInv, TInv', NEW d \in Devices, NEW r \in Relays, HandPage(d, r)
  PROVE  PlaceInv(d, r)'
<1> DEFINE t == turn[d][r]
<1> DEFINE after == IF mark[r] = t.from.mark THEN t.from.place ELSE 0
<1> DEFINE places == {relay[r][k].place : k \in Present(relay[r])}
<1>1. t.at = "asked" /\ UNCHANGED <<relay, mark, marks, dvars, kept, left>>
  BY DEF HandPage
<1>2. /\ turn'[d][r].at = "page" /\ turn'[d][r].from = t.from
      /\ \/ mark[r] = 0 /\ turn'[d][r].page = NoPage
         \/ /\ mark[r] # 0
            /\ \E next \in {after} \cup {p \in places : p > after} :
                 turn'[d][r].page =
                   [mark |-> mark[r], next |-> next, rows |->
                     [k \in Keys |-> IF k \in PageAfter(r, after, next)
                                     THEN relay[r][k] ELSE NoRow]]
  <2>t. turn \in [Devices -> [Relays -> TurnsAt]]
    BY DEF IInv, TInv, TypeOK, TurnsAt, Pages, Entries
  <2> DEFINE page(next) == [mark |-> mark[r], next |-> next, rows |->
                [k \in Keys |-> IF k \in PageAfter(r, after, next) THEN relay[r][k] ELSE NoRow]]
  <2>1. \A new : turn' = [turn EXCEPT ![d][r].at = "page", ![d][r].page = new]
           => /\ turn'[d][r].at = "page" /\ turn'[d][r].from = t.from
              /\ turn'[d][r].page = new
    BY <2>t DEF TurnsAt
  <2>2. CASE mark[r] = 0 /\ turn' = [turn EXCEPT ![d][r].at = "page", ![d][r].page = NoPage]
    BY <2>1, <2>2
  <2>3. ASSUME mark[r] # 0, NEW next \in {after} \cup {p \in places : p > after},
               turn' = [turn EXCEPT ![d][r].at = "page", ![d][r].page = page(next)]
        PROVE  /\ turn'[d][r].at = "page" /\ turn'[d][r].from = t.from
               /\ turn'[d][r].page = page(next)
    BY <2>1, <2>3
  <2>4. \/ mark[r] = 0 /\ turn' = [turn EXCEPT ![d][r].at = "page", ![d][r].page = NoPage]
        \/ /\ mark[r] # 0
           /\ \E next \in {after} \cup {p \in places : p > after} :
                turn' = [turn EXCEPT ![d][r].at = "page", ![d][r].page = page(next)]
    BY DEF HandPage
  <2> QED
    BY <2>2, <2>3, <2>4
<1>3. /\ TInv /\ Held /\ PlaceInv(d, r)
      /\ relay[r] \in [Keys -> Rows] /\ HasHighest(relay[r]) /\ Highest(relay[r]) \in Nat
      /\ mark[r] \in Nat /\ marks \in Nat /\ t.page.mark \in Nat
      /\ t.from.mark \in Nat /\ t.from.place \in Nat
  BY HighestIs DEF IInv, TInv, TypeOK, RowsInv, Places
<1>4. \A k \in Keys : relay[r][k].rev \in Nat /\ relay[r][k].place \in Nat
  BY <1>3 DEF Rows
<1>5. /\ Within(t.from, relay[r], mark[r], marks)
      /\ kept[d][r].at \in {t.from, NoPlace} /\ holds[d]
  BY <1>1, <1>3 DEF PlaceInv, Marked, Asking, Idle, TurnAt
<1>6. NonePassed(d, r)'
  BY <1>1, <1>3 DEF PlaceInv, NonePassed, PassedOver, Holds, dvars
<1>7. /\ Within(kept[d][r].at, relay[r], mark[r], marks)
  BY <1>3 DEF PlaceInv, Marked
<1>8. CASE mark[r] = 0
  <2>1. turn'[d][r].page.mark = 0 /\ turn'[d][r].page.next = 0
    BY <1>2, <1>8 DEF NoPage
  <2>2. Within(PageEnd(d, r)', relay[r], mark[r], marks)
    BY <1>3, <1>8, <2>1 DEF Within, PageEnd
  <2>3. Marked(d, r)'
    BY <1>1, <1>2, <1>5, <1>7, <2>2 DEF Marked, dvars
  <2> QED
    BY <1>1, <1>6, <1>8, <2>3 DEF PlaceInv, PageCovers
<1>9. ASSUME mark[r] # 0,
             NEW next \in {after} \cup {p \in places : p > after},
             turn'[d][r].page =
               [mark |-> mark[r], next |-> next, rows |->
                 [k \in Keys |-> IF k \in PageAfter(r, after, next) THEN relay[r][k] ELSE NoRow]]
      PROVE  PlaceInv(d, r)'
  <2>1. after \in Nat /\ after <= Highest(relay[r])
    <3>1. CASE mark[r] = t.from.mark
      BY <1>3, <1>5, <1>9, <3>1 DEF Within
    <3>2. CASE mark[r] # t.from.mark
      BY <1>3, <3>2
    <3> QED
      BY <3>1, <3>2
  <2>2. next \in Nat /\ next <= Highest(relay[r])
    <3>1. ASSUME NEW k \in Present(relay[r]), next = relay[r][k].place
          PROVE  next \in Nat /\ next <= Highest(relay[r])
      BY <1>3, <1>4, <3>1, HighestIs DEF Present
    <3>2. next = after \/ \E k \in Present(relay[r]) : next = relay[r][k].place
      BY <1>9
    <3> HIDE DEF after
    <3> QED
      BY <2>1, <3>1, <3>2
  <2>3. mark[r] <= marks
    BY <1>3 DEF Held
  <2> HIDE DEF places, after
  <2>e. PageEnd(d, r)' = [mark |-> mark[r], place |-> next]
    BY <1>9 DEF PageEnd
  <2>w. Within(PageEnd(d, r)', relay[r], mark[r], marks)
    BY <2>2, <2>3, <2>e DEF Within
  <2>4. Marked(d, r)'
    BY <1>1, <1>2, <1>5, <1>7, <2>w DEF Marked, dvars
  <2> USE DEF after
  <2>5. PageCovers(d, r)'
    <3> SUFFICES ASSUME kept[d][r].at = t.from,
                        NEW k \in Present(relay[r]), relay[r][k].place <= next
                 PROVE  \/ turn'[d][r].page.rows[k].rev >= relay[r][k].rev
                        \/ t.from.mark = mark[r] /\ Has(d, k, relay[r][k].rev)'
      <4>1. turn'[d][r].page.mark = mark[r] /\ turn'[d][r].page.next = next
        BY <1>9
      <4>2. /\ relay' = relay /\ mark' = mark /\ kept' = kept
            /\ turn'[d][r].from = t.from
        BY <1>1, <1>2
      <4> QED
        BY <4>1, <4>2 DEF PageCovers, Stale
    <3>1. k \in Keys /\ relay[r][k].rev > 0 /\ relay[r][k].place > 0
      BY <1>3 DEF Present, Held
    <3>2. CASE relay[r][k].place > after
      BY <1>4, <1>9, <3>1, <3>2 DEF PageAfter
    <3>3. CASE relay[r][k].place <= after
      <4>1. mark[r] = t.from.mark /\ relay[r][k].place <= t.from.place
        BY <1>4, <3>1, <3>3
      <4>2. Has(d, k, relay[r][k].rev)
        BY <1>3, <1>5, <3>1, <4>1 DEF Has, PlaceInv, NonePassed, PassedOver, Holds
      <4> QED
        BY <1>1, <4>1, <4>2 DEF Has, dvars
    <3> QED
      BY <1>4, <2>1, <3>1, <3>2, <3>3
  <2> QED
    BY <1>6, <2>4, <2>5 DEF PlaceInv
<1> QED
  BY <1>2, <1>8, <1>9

(* What is taken of a page only adds to what the device holds, and the     *)
(* device then holds all that the page brought of the authors that count.  *)
LEMMA TakenHeld ==
  ASSUME TInv, TInv', NEW d \in Devices, NEW r \in Relays, TakePage(d, r)
  PROVE  /\ \A e \in Devices, k \in Keys : store'[e][k].rev >= store[e][k].rev
         /\ \A k \in Keys :
              LET row == turn[d][r].page.rows[k]
              IN holds[d] /\ AuthorOf(k) \in counts[d] => store'[d][k].rev >= row.rev
<1> DEFINE page == turn[d][r].page
<1>1. store' = [store EXCEPT ![d] = [k \in Keys |->
          IF k \in Taken(d, page)
          THEN [page.rows[k] EXCEPT !.place = SeqOf(d, page, k)] ELSE @[k]]]
  BY DEF TakePage
<1>2. \A e \in Devices, k \in Keys : store[e][k].rev \in Nat /\ store[e][k] \in Rows
  BY DEF TInv, TypeOK, Rows
<1>3. \A k \in Keys : page.rows[k] \in Rows
  BY DEF TInv, TypeOK
<1>4. ASSUME NEW k \in Keys
      PROVE  store'[d][k] = IF k \in Taken(d, page)
                            THEN [page.rows[k] EXCEPT !.place = SeqOf(d, page, k)]
                            ELSE store[d][k]
  BY <1>1 DEF TInv, TypeOK
<1>5. \A k \in Keys : store'[d][k].rev = IF k \in Taken(d, page) THEN page.rows[k].rev
                                        ELSE store[d][k].rev
  BY <1>3, <1>4 DEF Rows
<1>6. \A e \in Devices \ {d} : store'[e] = store[e]
  BY <1>1 DEF TInv, TypeOK
<1>7. \A k \in Keys : page.rows[k].rev \in Nat
  BY <1>3 DEF Rows
<1>8. \A k \in Keys : store'[d][k].rev >= store[d][k].rev
  BY <1>2, <1>5, <1>7 DEF Taken
<1>9. \A k \in Keys : holds[d] /\ AuthorOf(k) \in counts[d] => store'[d][k].rev >= page.rows[k].rev
  BY <1>2, <1>5, <1>7 DEF Taken, Present
<1> QED
  BY <1>2, <1>6, <1>8, <1>9

(* A page that is taken moves the place only past what it covers.          *)
LEMMA TakenPlaced ==
  ASSUME IInv, TInv', NEW d \in Devices, NEW r \in Relays, TakePage(d, r)
  PROVE  PlaceInv(d, r)'
<1> DEFINE t == turn[d][r]
<1>1. /\ t.at = "page"
      /\ UNCHANGED <<relay, mark, marks, counts, holds, owed, left>>
      /\ turn'[d][r].at \in {"push", "pull"}
  BY DEF TakePage, Turns, TurnAt, IInv, TInv, TypeOK
<1>2. /\ TInv /\ Held /\ PlaceInv(d, r) /\ marks \in Nat
      /\ holds[d] /\ Held' /\ SameHolding(r)
  <2>1. TInv /\ Held /\ PlaceInv(d, r) /\ marks \in Nat
    BY DEF IInv, TInv, TypeOK
  <2>2. holds[d]
    BY <1>1, <2>1 DEF PlaceInv, Marked, Idle, TurnAt
  <2> QED
    BY <1>1, <2>1, <2>2, HeldStays
<1>3. /\ \A k \in Keys : store'[d][k].rev >= store[d][k].rev
      /\ \A k \in Keys : AuthorOf(k) \in counts[d] => store'[d][k].rev >= t.page.rows[k].rev
  BY <1>2, TakenHeld
<1>4. ~Asking(turn'[d][r])
  BY <1>1 DEF Asking
<1>5. CASE kept'[d][r].at = kept[d][r].at
  BY <1>1, <1>2, <1>3, <1>4, <1>5, PlaceStays
<1>6. CASE kept'[d][r].at = NoPlace
  BY <1>1, <1>2, <1>4, <1>6, ForgottenStays
<1>7. CASE ~Stale(d, r) /\ t.page.mark # 0
           /\ kept'[d][r].at = [mark |-> t.page.mark, place |-> t.page.next]
  <2>1. Within(PageEnd(d, r), relay[r], mark[r], marks)
    BY <1>1, <1>2 DEF PlaceInv, Marked
  <2>2. Marked(d, r)'
    <3>1. Within(kept'[d][r].at, relay'[r], mark'[r], marks')
      BY <1>1, <1>7, <2>1 DEF PageEnd
    <3> QED
      BY <1>1, <1>2, <1>4, <3>1 DEF Marked, Asking
  <2>3. PageCovers(d, r)'
    BY <1>1 DEF PageCovers
  <2>4. NonePassed(d, r)'
    <3> SUFFICES ASSUME NEW k \in Keys, AuthorOf(k) \in counts[d], relay[r][k].rev > 0,
                        mark[r] = t.page.mark, relay[r][k].place <= t.page.next
                 PROVE  store'[d][k].rev >= relay[r][k].rev
      BY <1>1, <1>7 DEF NonePassed, PassedOver, Holds
    <3>1. \/ t.page.rows[k].rev >= relay[r][k].rev
          \/ Has(d, k, relay[r][k].rev)
      BY <1>1, <1>2, <1>7 DEF PlaceInv, PageCovers, Present
    <3>2. /\ store'[d][k].rev \in Nat /\ store[d][k].rev \in Nat /\ relay[r][k].rev \in Nat
          /\ t.page.rows[k].rev \in Nat
      BY <1>2 DEF TInv, TypeOK, Rows
    <3> QED
      BY <1>3, <3>1, <3>2 DEF Has
  <2> QED
    BY <2>2, <2>3, <2>4 DEF PlaceInv
<1>8. \/ kept'[d][r].at = kept[d][r].at
      \/ kept'[d][r].at = NoPlace
      \/ /\ ~Stale(d, r) /\ t.page.mark # 0
         /\ kept'[d][r].at = [mark |-> t.page.mark, place |-> t.page.next]
  <2>1. kept'[d][r] = IF Stale(d, r) THEN kept[d][r] ELSE KeptAfterPage(d, r, t.page)
    BY DEF TakePage, IInv, TInv, TypeOK
  <2> QED
    BY <2>1 DEF KeptAfterPage, KeptFor, NothingKept
<1> QED
  BY <1>5, <1>6, <1>7, <1>8

LEMMA RelayTakesHolding ==
  ASSUME IInv, TInv', NEW d \in Devices, NEW r \in Relays, RelayTakes(d, r)
  PROVE  /\ Held'
         /\ \A q \in Relays : SameHolding(q) \/ OtherHolding(q)
<1> DEFINE e == turn[d][r].entry
<1> DEFINE row == [e.row EXCEPT !.place = Highest(relay[r]) + 1]
<1>1. /\ e.key \in Keys /\ e.row \in Rows /\ e.row.rev \in Nat
      /\ relay[r] \in [Keys -> Rows] /\ HasHighest(relay[r]) /\ Highest(relay[r]) \in Nat
      /\ relay \in [Relays -> [Keys -> Rows]] /\ mark \in [Relays -> Nat] /\ marks \in Nat
      /\ \A q \in Relays : mark[q] \in Nat
  BY HighestIs DEF IInv, TInv, TypeOK, RowsInv, Rows
<1>2. row \in Rows /\ row.place = Highest(relay[r]) + 1 /\ row.rev = e.row.rev
  <2>1. Highest(relay[r]) + 1 \in Nat
    BY <1>1
  <2> QED
    BY <1>1, <2>1 DEF Rows
<1>3. TInv /\ Held
  BY DEF IInv
<1>4. CASE relay' = relay /\ mark' = mark /\ marks' = marks
  BY <1>3, <1>4, HeldStays
<1>5. CASE /\ relay' = [relay EXCEPT ![r] = [relay[r] EXCEPT ![e.key] = row]]
           /\ \/ mark[r] # 0 /\ mark' = mark /\ marks' = marks
              \/ mark' = [mark EXCEPT ![r] = marks + 1] /\ marks' = marks + 1
  <2>1. /\ relay'[r] = [relay[r] EXCEPT ![e.key] = row]
        /\ \A q \in Relays \ {r} : relay'[q] = relay[q] /\ mark'[q] = mark[q]
        /\ marks' >= marks
    BY <1>1, <1>5
  <2>2. \A q \in Relays \ {r} : SameHolding(q)
    BY <1>3, <2>1, SameHoldingStays
  <2>3. Highest(relay'[r]) = Highest(relay[r]) + 1
    <3> HIDE DEF e, row
    <3>1. Highest([relay[r] EXCEPT ![e.key] = row]) = Highest(relay[r]) + 1
      BY <1>1, <1>2, AboveHighest
    <3> QED
      BY <2>1, <3>1
  <2>4. \A k \in Keys : k # e.key => relay'[r][k] = relay[r][k]
    BY <1>1, <2>1
  <2>5. relay'[r][e.key].place > Highest(relay[r])
    BY <1>1, <1>2, <2>1
  <2>6. \A k \in Keys : relay[r][k].place \in Nat
    BY <1>1 DEF Rows
  <2>7. SameHolding(r) \/ OtherHolding(r)
    <3> HIDE DEF e, row
    <3>1. CASE mark' = mark /\ marks' = marks
      BY <1>1, <2>1, <2>3, <2>4, <2>5, <2>6, <3>1 DEF SameHolding, Present
    <3>2. CASE mark' = [mark EXCEPT ![r] = marks + 1] /\ marks' = marks + 1
      BY <1>1, <3>2 DEF OtherHolding
    <3> QED
      BY <1>5, <3>1, <3>2
  <2>8. Held'
    <3> SUFFICES ASSUME NEW q \in Relays
                 PROVE  /\ mark'[q] <= marks'
                        /\ mark'[q] = 0 => Present(relay'[q]) = {}
                        /\ \A k \in Present(relay'[q]) : relay'[q][k].place > 0
      BY DEF Held
    <3>1. CASE q # r
      <4>1. relay'[q] = relay[q] /\ mark'[q] = mark[q] /\ mark[q] \in Nat /\ marks' \in Nat
        BY <1>1, <1>5, <2>1, <3>1
      <4>2. /\ mark[q] <= marks /\ (mark[q] = 0 => Present(relay[q]) = {})
            /\ \A k \in Present(relay[q]) : relay[q][k].place > 0
        BY <1>3 DEF Held
      <4> QED
        BY <1>1, <2>1, <4>1, <4>2
    <3>2. CASE q = r
      <4>1. mark'[r] # 0 /\ mark'[r] <= marks'
        BY <1>1, <1>3, <1>5 DEF Held
      <4>2. ASSUME NEW k \in Present(relay'[r]) PROVE relay'[r][k].place > 0
        <5>1. k \in Keys /\ relay'[r][k].rev > 0
          BY DEF Present
        <5>2. CASE k = e.key
          <6>1. relay'[r][e.key].place = Highest(relay[r]) + 1
            BY <1>1, <1>2, <2>1
          <6> QED
            BY <1>1, <5>2, <6>1
        <5>3. CASE k # e.key
          BY <1>3, <2>4, <5>1, <5>3 DEF Held, Present
        <5> QED
          BY <5>2, <5>3
      <4> QED
        BY <3>2, <4>1, <4>2
    <3> QED
      BY <3>1, <3>2
  <2> QED
    BY <2>2, <2>7, <2>8
<1>6. \/ relay' = relay /\ mark' = mark /\ marks' = marks
      \/ /\ relay' = [relay EXCEPT ![r] = [relay[r] EXCEPT ![e.key] = row]]
         /\ \/ mark[r] # 0 /\ mark' = mark /\ marks' = marks
            \/ mark' = [mark EXCEPT ![r] = marks + 1] /\ marks' = marks + 1
  BY DEF RelayTakes
<1> QED
  BY <1>4, <1>5, <1>6

LEMMA TurnStepPlaced ==
  ASSUME IInv, TInv', NEW d \in Devices, NEW r \in Relays, TurnStep(d, r)
  PROVE  IInv'
<1>1. /\ TInv /\ Held /\ \A e \in Devices, q \in Relays : PlaceInv(e, q)
      /\ turn \in [Devices -> [Relays -> TurnsAt]] /\ kept \in [Devices -> [Relays -> KeptThere]]
  BY DEF IInv, TInv, TypeOK, TurnsAt, KeptThere, Pages, Entries
<1>2. RelayTakes(d, r) \/ UNCHANGED <<relay, mark, marks>>
  BY DEF TurnStep, NotHeldAt, AskPage, HandPage, TakePage, Send, TakeAnswer, End
<1>3. Held' /\ \A q \in Relays : SameHolding(q) \/ OtherHolding(q)
  BY <1>1, <1>2, HeldStays, RelayTakesHolding
<1>4. holds' = holds /\ counts' = counts
  BY DEF TurnStep, NotHeldAt, AskPage, HandPage, TakePage, Send, RelayTakes, TakeAnswer, End, dvars
<1>5. \A e \in Devices, k \in Keys : store'[e][k].rev >= store[e][k].rev
  <2>1. TakePage(d, r) \/ store' = store
    BY DEF TurnStep, NotHeldAt, AskPage, HandPage, Send, RelayTakes, TakeAnswer, End, dvars
  <2>2. \A e \in Devices, k \in Keys : store[e][k].rev \in Nat
    BY <1>1 DEF TInv, TypeOK, Rows
  <2> QED
    BY <1>1, <2>1, <2>2, TakenHeld
<1>6. turn[d][r] # Idle /\ holds[d]
  <2>1. turn[d][r].at # "idle"
    BY DEF TurnStep, NotHeldAt, AskPage, HandPage, TakePage, Send, RelayTakes, TakeAnswer, End
  <2> QED
    BY <1>1, <2>1 DEF Idle, TurnAt, PlaceInv, Marked
<1>s. Send(d, r) =>
        \E e : turn' = [turn EXCEPT ![d][r].at = "sent", ![d][r].entry = e]
  BY DEF Send
<1>a. RelayTakes(d, r) =>
        \E room : turn' = [turn EXCEPT ![d][r].at = "answered", ![d][r].entry.room = room]
  BY DEF RelayTakes
<1>t. \A e \in Devices, q \in Relays : e # d \/ q # r => turn'[e][q] = turn[e][q]
  <2>1. CASE NotHeldAt(d, r) \/ TakePage(d, r) \/ TakeAnswer(d, r) \/ End(d, r)
    <3>1. PICK t : turn' = [turn EXCEPT ![d][r] = t]
      BY <2>1, TurnWrittenIs
    <3> QED
      BY <1>1, <3>1
  <2>2. CASE AskPage(d, r) \/ HandPage(d, r)
    BY <1>1, <2>2 DEF AskPage, HandPage
  <2>3. CASE Send(d, r) \/ RelayTakes(d, r)
    BY <1>1, <1>s, <1>a, <2>3
  <2> QED
    BY <2>1, <2>2, <2>3 DEF TurnStep
<1>k. \A e \in Devices, q \in Relays : e # d \/ q # r => kept'[e][q] = kept[e][q]
  <2>1. CASE UNCHANGED kept
    BY <2>1
  <2>2. CASE NotHeldAt(d, r) \/ TakePage(d, r)
    <3>1. PICK there : kept' = [kept EXCEPT ![d][r] = there]
      BY <2>2, KeptWrittenIs
    <3> QED
      BY <1>1, <3>1
  <2>3. CASE TakeAnswer(d, r)
    <3> DEFINE refused == RefusedAfter(d, r)
    <3>1. PICK sentTo \in Nat : kept' = [kept EXCEPT ![d][r].sentTo = sentTo,
                                                  ![d][r].refused = refused]
      BY <1>1, <2>3, TakeAnswerIs
    <3> HIDE DEF refused
    <3> QED
      BY <1>1, <3>1
  <2>4. UNCHANGED kept \/ NotHeldAt(d, r) \/ TakePage(d, r) \/ TakeAnswer(d, r)
    BY DEF TurnStep, AskPage, HandPage, Send, RelayTakes, End
  <2> QED
    BY <2>1, <2>2, <2>3, <2>4
<1>7. ASSUME NEW e \in Devices, NEW q \in Relays, e # d \/ q # r
      PROVE  PlaceInv(e, q)'
  <2>1. turn'[e][q] = turn[e][q]
    BY <1>1, <1>7, <1>t
  <2>2. kept'[e][q] = kept[e][q]
    BY <1>1, <1>7, <1>k
  <2> QED
    BY <1>1, <1>3, <1>4, <1>5, <2>1, <2>2, PlaceStays
<1>8. PlaceInv(d, r)'
  <2>1. CASE NotHeldAt(d, r)
    <3>1. kept'[d][r].at = NoPlace /\ turn'[d][r].at = "pull" /\ UNCHANGED <<relay, mark, marks>>
      BY <1>1, <2>1 DEF NotHeldAt, Turns, TurnAt, NothingKept
    <3> QED
      BY <1>1, <1>3, <1>4, <1>6, <3>1, ForgottenStays DEF Asking
  <2>2. CASE AskPage(d, r)
    <3>1. /\ turn'[d][r].at = "asked" /\ turn'[d][r].from = kept[d][r].at
          /\ UNCHANGED <<relay, mark, marks, dvars, kept>>
      BY <1>1, <2>2 DEF AskPage, TurnsAt
    <3>2. Marked(d, r)'
      BY <1>1, <1>6, <3>1 DEF PlaceInv, Marked, dvars
    <3> QED
      BY <1>1, <3>1, <3>2 DEF PlaceInv, PageCovers, NonePassed, PassedOver, Holds, dvars
  <2>3. CASE HandPage(d, r)
    BY <2>3, HandedPlaced
  <2>4. CASE TakePage(d, r)
    BY <2>4, TakenPlaced
  <2>5. CASE Send(d, r) \/ RelayTakes(d, r) \/ TakeAnswer(d, r) \/ End(d, r)
    <3>1. turn'[d][r].at \in {"sent", "answered", "push", "idle"}
      <4>1. CASE Send(d, r) \/ RelayTakes(d, r)
        BY <1>1, <1>s, <1>a, <4>1 DEF TurnsAt
      <4>2. CASE TakeAnswer(d, r) \/ End(d, r)
        BY <1>1, <4>2 DEF TakeAnswer, End, Turns, TurnAt, Idle
      <4> QED
        BY <2>5, <4>1, <4>2
    <3>2. kept'[d][r].at = kept[d][r].at
      <4>1. CASE TakeAnswer(d, r)
        <5> DEFINE refused == RefusedAfter(d, r)
        <5>1. PICK sentTo \in Nat : kept' = [kept EXCEPT ![d][r].sentTo = sentTo,
                                                      ![d][r].refused = refused]
          BY <1>1, <4>1, TakeAnswerIs
        <5> HIDE DEF refused
        <5> QED
          BY <1>1, <5>1 DEF KeptThere
      <4>2. CASE UNCHANGED kept
        BY <4>2
      <4> QED
        BY <2>5, <4>1, <4>2 DEF Send, RelayTakes, End
    <3> QED
      BY <1>1, <1>3, <1>4, <1>5, <1>6, <3>1, <3>2, PlaceStays DEF Asking
  <2> QED
    BY <2>1, <2>2, <2>3, <2>4, <2>5 DEF TurnStep
<1>9. \A e \in Devices, q \in Relays : PlaceInv(e, q)'
  BY <1>7, <1>8
<1> QED
  BY <1>3, <1>9 DEF IInv

LEMMA NextPlaced == ~StopsInPass /\ IInv /\ [Next]_vars => IInv'
<1> SUFFICES ASSUME ~StopsInPass, IInv, [Next]_vars PROVE IInv'
  OBVIOUS
<1>1. TInv'
  BY NextTyped DEF IInv
<1>2. CASE UNCHANGED vars
  <2>1. UNCHANGED <<relay, mark, marks, kept, turn, store, holds, counts>>
    BY <1>2 DEF vars, dvars
  <2>2. Held'
    BY <2>1, HeldStays DEF IInv
  <2>3. ASSUME NEW d \in Devices, NEW r \in Relays PROVE PlaceInv(d, r)'
    <3>1. PlaceInv(d, r) /\ TInv /\ Held
      BY DEF IInv
    <3>2. \A k \in Keys : store'[d][k].rev >= store[d][k].rev
      BY <2>1, <3>1 DEF TInv, TypeOK, Rows
    <3>3. SameHolding(r)
      BY <2>1, <3>1, HeldStays
    <3> QED
      BY <1>1, <2>1, <2>2, <3>1, <3>2, <3>3, PlaceStays
  <2> QED
    BY <1>1, <2>2, <2>3 DEF IInv
<1>3. CASE \E d \in Devices : OfTheDevice(d)
  BY <1>1, <1>3, DevicePlaced
<1>4. CASE \E d \in Devices, r \in Relays :
             \/ \E at \in {"no", "pull", "push"}, again \in BOOLEAN : Begin(d, r, at, again)
             \/ TurnStep(d, r) \/ LeavePull(d, r) \/ Fail(d, r)
  BY <1>1, <1>4, TurnStepPlaced, OtherTurnPlaced
<1>5. CASE \E r \in Relays : DropChannel(r) \/ RelaySweep(r)
  BY <1>1, <1>5, RelayPlaced
<1> QED
  BY <1>2, <1>3, <1>4, <1>5 DEF Next

(* No entry is passed over, where no name is stopped while a pass goes     *)
(* through it: however entries are replaced and swept, channels dropped    *)
(* and taken again, places forgotten, and turns lost between a page's      *)
(* question and its answer (at_relays.rs, take_page).                      *)
THEOREM NothingIsPassedOver ==
  ASSUME ~StopsInPass
  PROVE  Spec => []NothingPassedOver
<1>1. IInv /\ [Next]_vars => IInv'
  BY NextPlaced
<1>2. Spec => []IInv
  BY <1>1, InitPlaced, PTL DEF Spec
<1>3. IInv => NothingPassedOver
  BY DEF IInv, PlaceInv, NonePassed, NothingPassedOver
<1> QED
  BY <1>2, <1>3, PTL

-----------------------------------------------------------------------------
(***************************************************************************)
(* RelayPages implements ToRead.                                           *)
(***************************************************************************)
RowsNow == [r \in Relays |-> [k \in Keys |-> relay[r][k].rev]]
HeldNow == [d \in Devices |-> [k \in Keys |-> store[d][k].rev]]
ToReadNow == [d \in Devices |-> [r \in Relays |-> StillToRead(d, r)]]

LEMMA SameKeys == Reading!Keys = Keys
BY DEF Reading!Keys, Keys

LEMMA NowAt ==
  ASSUME NEW r \in Relays
  PROVE  /\ Reading!At(r) = Present(relay[r])
         /\ \A k \in Keys : RowsNow[r][k] = relay[r][k].rev
BY SameKeys DEF Reading!At, Present, RowsNow

(* What is not to be read after a relay's step was not to be read before.  *)
LEMMA StillToReadStays ==
  ASSUME TInv, TInv', Held, Held', NEW d \in Devices, NEW r \in Relays, PlaceInv(d, r),
         SameHolding(r) \/ OtherHolding(r), kept' = kept,
         NEW k \in Present(relay'[r]), k \notin StillToRead(d, r)'
  PROVE  k \notin StillToRead(d, r) /\ relay'[r][k].rev = relay[r][k].rev
<1>1. k \in Keys /\ relay'[r][k].rev > 0
  BY DEF Present
<1>2. /\ mark'[r] = kept[d][r].at.mark
      /\ ~(relay'[r][k].place > kept[d][r].at.place)
  BY DEF StillToRead
<1>3. /\ kept[d][r].at \in Places /\ kept[d][r].at.place \in Nat
      /\ relay'[r][k].place \in Nat /\ relay[r][k].place \in Nat
  BY <1>1 DEF TInv, TypeOK, Places, Rows
<1>4. mark'[r] # 0
  BY DEF Held
<1>5. /\ relay[r][k].rev = relay'[r][k].rev
      /\ mark[r] = kept[d][r].at.mark
      /\ relay[r][k].place <= kept[d][r].at.place
  BY <1>1, <1>2, <1>3, <1>4, PassedStays DEF PlaceInv, Marked
<1> QED
  BY <1>3, <1>5 DEF StillToRead

(* A step that changes what a relay has, and nothing of any device but the *)
(* turn, is the abstract change.                                           *)
LEMMA ChangeImplemented ==
  ASSUME IInv, IInv', NEW r \in Relays,
         \A q \in Relays : SameHolding(q) \/ OtherHolding(q),
         \A q \in Relays \ {r} : relay'[q] = relay[q] /\ mark'[q] = mark[q],
         UNCHANGED <<dvars, kept>>
  PROVE  Reading!Change(r)
<1>1. UNCHANGED <<store, counts, kept>>
  BY DEF dvars
<1>2. \A q \in Relays \ {r} : RowsNow'[q] = RowsNow[q]
  BY DEF RowsNow
<1>3. ASSUME NEW d \in Devices
      PROVE  /\ ToReadNow'[d][r] \subseteq Reading!At(r)'
             /\ {k \in Reading!At(r)' : k \in ToReadNow[d][r] \/ RowsNow'[r][k] # RowsNow[r][k]}
                  \subseteq ToReadNow'[d][r]
             /\ \A q \in Relays \ {r} : ToReadNow'[d][q] = ToReadNow[d][q]
  <2>1. /\ Reading!At(r)' = Present(relay'[r])
        /\ \A k \in Keys : RowsNow'[r][k] = relay'[r][k].rev
    BY SameKeys DEF Reading!At, Present, RowsNow
  <2>2. /\ ToReadNow[d][r] = StillToRead(d, r) /\ ToReadNow'[d][r] = StillToRead(d, r)'
    BY DEF ToReadNow
  <2>3. ToReadNow'[d][r] \subseteq Reading!At(r)'
    BY <2>1, <2>2 DEF StillToRead
  <2>4. \A k \in Present(relay'[r]) : k \notin StillToRead(d, r)' =>
          k \notin StillToRead(d, r) /\ relay'[r][k].rev = relay[r][k].rev
    BY <1>1, StillToReadStays DEF IInv
  <2>5. \A k \in Present(relay'[r]) : k \in Keys
    BY DEF Present
  <2>6. \A q \in Relays \ {r} : StillToRead(d, q)' = StillToRead(d, q)
    BY <1>1 DEF StillToRead, Present
  <2> QED
    BY <2>1, <2>2, <2>3, <2>4, <2>5, <2>6, NowAt DEF ToReadNow
<1> QED
  BY <1>1, <1>2, <1>3 DEF Reading!Change, RowsNow, HeldNow, ToReadNow

(* The places of every other turn are as they were.                        *)
LEMMA OthersAsTheyWere ==
  ASSUME UNCHANGED <<relay, mark>>, NEW d \in Devices, NEW r \in Relays,
         \A e \in Devices, q \in Relays : e # d \/ q # r => kept'[e][q].at = kept[e][q].at
  PROVE  Reading!OthersToRead(d, r)
<1>1. \A e \in Devices, q \in Relays : e # d \/ q # r => StillToRead(e, q)' = StillToRead(e, q)
  BY DEF StillToRead, Present
<1>2. \A e \in Devices, q \in Relays : e # d \/ q # r => ToReadNow'[e][q] = ToReadNow[e][q]
  BY <1>1 DEF ToReadNow
<1> QED
  BY <1>2 DEF Reading!OthersToRead, ToReadNow

LEMMA NothingChanges ==
  ASSUME UNCHANGED <<relay, mark, store, counts>>,
         \A d \in Devices, r \in Relays : kept'[d][r].at = kept[d][r].at
  PROVE  UNCHANGED Reading!vars
<1>1. \A d \in Devices, r \in Relays : StillToRead(d, r)' = StillToRead(d, r)
  BY DEF StillToRead, Present
<1>2. ToReadNow' = ToReadNow
  BY <1>1 DEF ToReadNow
<1> QED
  BY <1>2 DEF Reading!vars, ToReadNow

LEMMA ReadImplemented ==
  ASSUME IInv, IInv', UNCHANGED <<relay, mark, counts, holds>>,
         NEW d \in Devices, NEW r \in Relays, holds[d],
         \A e \in Devices, q \in Relays : e # d \/ q # r => kept'[e][q].at = kept[e][q].at,
         \A e \in Devices \ {d} : store'[e] = store[e],
         \A k \in Keys : store'[d][k].rev >= store[d][k].rev
  PROVE  Reading!Read(d, r)
<1>1. Reading!OthersToRead(d, r)
  BY OthersAsTheyWere
<1>2. /\ \A e \in Devices \ {d} : HeldNow'[e] = HeldNow[e]
      /\ \A k \in Keys : HeldNow'[d][k] >= HeldNow[d][k]
      /\ RowsNow' = RowsNow
  BY DEF HeldNow, RowsNow
<1>3. ToReadNow'[d][r] \subseteq Reading!At(r)
  BY NowAt DEF ToReadNow, StillToRead, Present
<1>4. ASSUME NEW k \in ToReadNow[d][r] \ ToReadNow'[d][r], k[2] \in counts[d]
      PROVE  HeldNow'[d][k] >= RowsNow[r][k]
  <2>1. k \in Keys /\ relay[r][k].rev > 0
    BY DEF ToReadNow, StillToRead, Present
  <2>2. k \notin StillToRead(d, r)'
    BY <1>4 DEF ToReadNow
  <2>3. /\ mark[r] = kept'[d][r].at.mark
        /\ ~(relay[r][k].place > kept'[d][r].at.place)
    BY <2>1, <2>2 DEF StillToRead, Present
  <2>4. relay[r][k].place \in Nat /\ kept'[d][r].at.place \in Nat
    BY <2>1 DEF IInv, TInv, TypeOK, Rows, Places
  <2>5. store'[d][k].rev >= relay[r][k].rev
    BY <1>4, <2>1, <2>3, <2>4 DEF IInv, PlaceInv, NonePassed, PassedOver, Holds, AuthorOf
  <2> QED
    BY <2>1, <2>5 DEF HeldNow, RowsNow
<1> QED
  BY <1>1, <1>2, <1>3, <1>4, SameKeys DEF Reading!Read, HeldNow, RowsNow, ToReadNow

LEMMA AgainImplemented ==
  ASSUME IInv, IInv', UNCHANGED <<relay, mark>>, NEW d \in Devices,
         \A e \in Devices \ {d} :
           store'[e] = store[e] /\ counts'[e] = counts[e] /\ kept'[e] = kept[e],
         \A r \in Relays : kept'[d][r].at = NoPlace
  PROVE  Reading!Again(d)
<1>1. ASSUME NEW r \in Relays PROVE StillToRead(d, r)' = Present(relay[r])
  <2>1. kept'[d][r].at.mark = 0 /\ kept'[d][r].at.place = 0
    BY DEF NoPlace
  <2>2. mark[r] = 0 => Present(relay[r]) = {}
    BY DEF IInv, Held
  <2>3. \A k \in Present(relay[r]) : relay[r][k].place > 0
    BY DEF IInv, Held
  <2> QED
    BY <2>1, <2>2, <2>3 DEF StillToRead, Present
<1>2. \A e \in Devices \ {d}, r \in Relays : StillToRead(e, r)' = StillToRead(e, r)
  BY DEF StillToRead, Present
<1>3. \A e \in Devices \ {d} : ToReadNow'[e] = ToReadNow[e]
  BY <1>2 DEF ToReadNow
<1>4. \A r \in Relays : ToReadNow'[d][r] = Reading!At(r)
  BY <1>1, NowAt DEF ToReadNow
<1> QED
  BY <1>3, <1>4 DEF Reading!Again, ToReadNow

LEMMA DeviceImplemented ==
  ASSUME IInv, IInv', NEW d \in Devices, OfTheDevice(d)
  PROVE  [Reading!Next]_(Reading!vars)
<1>1. /\ kept \in [Devices -> [Relays -> KeptThere]] /\ store \in [Devices -> [Keys -> Rows]]
      /\ counts \in [Devices -> SUBSET Devices]
      /\ store' \in [Devices -> [Keys -> Rows]]
  BY DEF IInv, TInv, TypeOK, KeptThere
<1>2. ASSUME NEW s \in Slots, NEW delete \in Deletes, Write(d, s, delete)
      PROVE  Reading!Write(d)
  <2>1. PICK rev \in 1 .. TopRev :
          /\ \A a \in Devices : store[d][<<s, a>>].rev < rev
          /\ store' = [store EXCEPT ![d][<<s, d>>] =
               [rev |-> rev, delete |-> delete, place |-> seqs[d] + 1]]
    BY <1>2 DEF Write
  <2>2. \A k \in Keys : store'[d][k].rev >= store[d][k].rev
    BY <1>1, <2>1 DEF Rows
  <2>3. \A e \in Devices \ {d} : store'[e] = store[e]
    BY <1>1, <2>1
  <2>4. UNCHANGED <<relay, mark, counts, kept>>
    BY <1>2 DEF Write
  <2>5. ToReadNow' = ToReadNow /\ RowsNow' = RowsNow
    BY <2>4 DEF ToReadNow, RowsNow, StillToRead, Present
  <2> QED
    BY <2>2, <2>3, <2>4, <2>5, SameKeys DEF Reading!Write, ToReadNow, RowsNow
<1>3. ASSUME (\E s \in Slots : SweepDeletes(d, s)) \/ (\E a \in Devices : ComeToCount(d, a)) \/ Stop(d)
      PROVE  Reading!Again(d)
  <2>1. /\ UNCHANGED <<relay, mark>>
        /\ \A r \in Relays : kept'[d][r].at = NoPlace
        /\ \A e \in Devices \ {d} :
             store'[e] = store[e] /\ counts'[e] = counts[e] /\ kept'[e] = kept[e]
    <3>1. ASSUME NEW s \in Slots, SweepDeletes(d, s) PROVE <2>1!:
      BY <1>1, <3>1 DEF SweepDeletes, KeptThere
    <3>2. ASSUME NEW a \in Devices, ComeToCount(d, a) PROVE <2>1!:
      BY <1>1, <3>2 DEF ComeToCount, KeptThere
    <3>3. ASSUME Stop(d) PROVE <2>1!:
      BY <1>1, <3>3 DEF Stop, KeptAfterStop, NothingKept
    <3> QED
      BY <1>3, <3>1, <3>2, <3>3
  <2> QED
    BY <2>1, AgainImplemented
<1>4. ASSUME HoldName(d) \/ Restart(d) PROVE UNCHANGED Reading!vars
  <2>1. UNCHANGED <<relay, mark, store, counts, kept>>
    BY <1>4 DEF HoldName, Restart
  <2> QED
    BY <2>1, NothingChanges
<1> QED
  BY <1>2, <1>3, <1>4 DEF OfTheDevice, Reading!Next

LEMMA TurnImplemented ==
  ASSUME IInv, IInv', NEW d \in Devices, NEW r \in Relays,
         \/ \E at \in {"no", "pull", "push"}, again \in BOOLEAN : Begin(d, r, at, again)
         \/ TurnStep(d, r) \/ LeavePull(d, r) \/ Fail(d, r)
  PROVE  [Reading!Next]_(Reading!vars)
<1>1. /\ kept \in [Devices -> [Relays -> KeptThere]] /\ store \in [Devices -> [Keys -> Rows]]
      /\ relay \in [Relays -> [Keys -> Rows]] /\ mark \in [Relays -> Nat]
      /\ turn \in [Devices -> [Relays -> TurnsAt]]
      /\ \A e \in Devices, k \in Keys : store[e][k].rev \in Nat
  BY DEF IInv, TInv, TypeOK, KeptThere, Rows, TurnsAt, Pages, Entries
<1>2. CASE NotHeldAt(d, r) \/ TakePage(d, r)
  <2>1. UNCHANGED <<relay, mark, counts, holds>>
    BY <1>2 DEF NotHeldAt, TakePage, dvars
  <2>2. \A e \in Devices, q \in Relays : e # d \/ q # r => kept'[e][q].at = kept[e][q].at
    BY <1>1, <1>2 DEF NotHeldAt, TakePage
  <2>3. \A e \in Devices \ {d} : store'[e] = store[e]
    BY <1>1, <1>2 DEF NotHeldAt, TakePage, dvars
  <2>4. \A k \in Keys : store'[d][k].rev >= store[d][k].rev
    BY <1>1, <1>2, TakenHeld DEF NotHeldAt, dvars, IInv
  <2>5. holds[d]
    <3>1. turn[d][r].at # "idle"
      BY <1>2 DEF NotHeldAt, TakePage
    <3> QED
      BY <3>1 DEF IInv, PlaceInv, Marked, Idle, TurnAt
  <2>6. Reading!Read(d, r)
    BY <2>1, <2>2, <2>3, <2>4, <2>5, ReadImplemented
  <2> QED
    BY <2>6 DEF Reading!Next
<1>3. CASE RelayTakes(d, r)
  <2>1. \A q \in Relays : SameHolding(q) \/ OtherHolding(q)
    BY <1>3, RelayTakesHolding DEF IInv
  <2>2. \A q \in Relays \ {r} : relay'[q] = relay[q] /\ mark'[q] = mark[q]
    BY <1>1, <1>3 DEF RelayTakes
  <2>3. UNCHANGED <<dvars, kept>>
    BY <1>3 DEF RelayTakes
  <2>4. Reading!Change(r)
    BY <2>1, <2>2, <2>3, ChangeImplemented
  <2> QED
    BY <2>4 DEF Reading!Next
<1>4. CASE \/ \E at \in {"no", "pull", "push"}, again \in BOOLEAN : Begin(d, r, at, again)
           \/ AskPage(d, r) \/ HandPage(d, r) \/ Send(d, r) \/ TakeAnswer(d, r) \/ End(d, r)
           \/ LeavePull(d, r) \/ Fail(d, r)
  <2>1. UNCHANGED <<relay, mark, store, counts>>
    BY <1>4 DEF Begin, AskPage, HandPage, Send, TakeAnswer, End, LeavePull, Fail, dvars
  <2>2. ASSUME NEW e \in Devices, NEW q \in Relays PROVE kept'[e][q].at = kept[e][q].at
    <3>1. CASE TakeAnswer(d, r)
      <4> DEFINE refused == RefusedAfter(d, r)
      <4>1. PICK sentTo \in Nat : kept' = [kept EXCEPT ![d][r].sentTo = sentTo,
                                                    ![d][r].refused = refused]
        BY <1>1, <3>1, TakeAnswerIs DEF IInv
      <4> HIDE DEF refused
      <4> QED
        BY <1>1, <4>1 DEF KeptThere
    <3> QED
      BY <1>4, <3>1 DEF Begin, AskPage, HandPage, Send, End, LeavePull, Fail
  <2>3. UNCHANGED Reading!vars
    BY <2>1, <2>2, NothingChanges
  <2> QED
    BY <2>3
<1> QED
  BY <1>2, <1>3, <1>4 DEF TurnStep

LEMMA RelayImplemented ==
  ASSUME IInv, IInv', NEW r \in Relays, DropChannel(r) \/ RelaySweep(r)
  PROVE  [Reading!Next]_(Reading!vars)
<1>1. \A q \in Relays : SameHolding(q) \/ OtherHolding(q)
  BY RelayHolding DEF IInv
<1>2. \A q \in Relays \ {r} : relay'[q] = relay[q] /\ mark'[q] = mark[q]
  BY DEF DropChannel, RelaySweep, IInv, TInv, TypeOK
<1>3. UNCHANGED <<dvars, kept>>
  BY DEF DropChannel, RelaySweep
<1>4. Reading!Change(r)
  BY <1>1, <1>2, <1>3, ChangeImplemented
<1> QED
  BY <1>4 DEF Reading!Next

LEMMA InitImplemented == Init => Reading!Init
<1> SUFFICES ASSUME Init, NEW d \in Devices, NEW r \in Relays
             PROVE  Reading!At(r) = {} /\ ToReadNow[d][r] = {}
  BY SameKeys DEF Reading!Init, ToReadNow
<1>1. Present(relay[r]) = {}
  BY DEF Init, Present, NoRows, NoRow
<1> QED
  BY <1>1, NowAt DEF ToReadNow, StillToRead

(* Reading by pages, places and marks implements that nothing leaves what  *)
(* is to be read unread, where no name is stopped while a pass goes        *)
(* through it (at_relays.rs, take_page; relay.rs, pull).                   *)
THEOREM PagesImplementToRead ==
  ASSUME ~StopsInPass
  PROVE  Spec => ImplementsToRead
<1>1. IInv /\ [Next]_vars => IInv'
  BY NextPlaced
<1>2. IInv /\ IInv' /\ [Next]_vars => [Reading!Next]_(Reading!vars)
  <2> SUFFICES ASSUME IInv, IInv', [Next]_vars
               PROVE  [Reading!Next]_(Reading!vars)
    OBVIOUS
  <2>1. CASE UNCHANGED vars
    <3>1. UNCHANGED <<relay, mark, store, counts, kept>>
      BY <2>1 DEF vars, dvars
    <3> QED
      BY <3>1, NothingChanges
  <2>2. CASE Next
    BY <2>2, DeviceImplemented, TurnImplemented, RelayImplemented DEF Next
  <2> QED
    BY <2>1, <2>2
<1> QED
  BY <1>1, <1>2, InitPlaced, InitImplemented, PTL DEF Spec, ImplementsToRead, Reading!Spec
-----------------------------------------------------------------------------
(***************************************************************************)
(* What counts as sent is there.  The relay had the entry, or refused it   *)
(* for room, when its answer was taken; an answer is of the first entry    *)
(* that was not sent yet, or of one that waits for room, so the place in   *)
(* the store's order that it moves to has nothing unsent before it.  What  *)
(* a page brings gets places of its own above all there were, and is       *)
(* counted as sent at once only where nothing waits before it: the relay   *)
(* that handed the page has it.                                            *)
(***************************************************************************)
Dropping == {"drop", "relay sweep"}
NothingDropped == \A what \in Dropping : left[what] = 0

OwnPlaces(rows) == \A j, k \in Present(rows) : rows[j].place = rows[k].place => j = k

(* Each entry has a place of its own, of those that the store has given.   *)
Ordered(d) ==
  /\ OwnPlaces(store[d])
  /\ \A k \in Present(store[d]) : store[d][k].place > 0 /\ store[d][k].place <= seqs[d]

CountedSent(d, r, k) ==
  /\ k \in Present(store[d])
  /\ store[d][k].place <= kept[d][r].sentTo
  /\ store[d][k].place \notin kept[d][r].refused

SentHeld(d, r) ==
  /\ kept[d][r].sentTo <= seqs[d]
  /\ \A k \in Keys : CountedSent(d, r, k) => relay[r][k].rev >= store[d][k].rev

(* What a page brings, its relay has still, or something later.            *)
PageThere(d, r) ==
  turn[d][r].at = "page" =>
    /\ OwnPlaces(turn[d][r].page.rows)
    /\ \A k \in Keys : turn[d][r].page.rows[k].rev <= relay[r][k].rev

(* An entry that is on its way has nothing unsent before it, and its place *)
(* is given to no other.                                                   *)
NextSent(d, r) ==
  LET e == turn[d][r].entry
  IN turn[d][r].at \in {"sent", "answered"} =>
       /\ e.row.place > 0 /\ e.row.place <= seqs[d]
       /\ \A k \in Present(store[d]) :
            /\ store[d][k].place = e.row.place => k = e.key /\ store[d][k].rev = e.row.rev
            /\ store[d][k].place > kept[d][r].sentTo => store[d][k].place >= e.row.place

AnsweredHas(d, r) ==
  LET e == turn[d][r].entry
  IN turn[d][r].at = "answered" /\ e.room => relay[r][e.key].rev >= e.row.rev

PairInv(d, r) == SentHeld(d, r) /\ PageThere(d, r) /\ NextSent(d, r) /\ AnsweredHas(d, r)

SentInv ==
  /\ NothingDropped
  /\ \A r \in Relays : OwnPlaces(relay[r])
  /\ \A d \in Devices : Ordered(d)
  /\ \A d \in Devices, r \in Relays : PairInv(d, r)

LEMMA Counts ==
  ASSUME TInv, NEW d \in Devices, NEW r \in Relays
  PROVE  /\ \A k \in Keys : relay[r][k].rev \in Nat /\ relay[r][k].place \in Nat
         /\ \A k \in Keys : store[d][k].rev \in Nat /\ store[d][k].place \in Nat
         /\ seqs[d] \in Nat /\ kept[d][r].sentTo \in Nat
         /\ turn[d][r].entry.row.place \in Nat /\ turn[d][r].entry.row.rev \in Nat
         /\ turn[d][r].entry.key \in Keys
         /\ turn[d][r].page \in Pages
         /\ \A k \in Keys : turn[d][r].page.rows[k].rev \in Nat
                            /\ turn[d][r].page.rows[k].place \in Nat
<1>1. /\ relay[r] \in [Keys -> Rows] /\ store[d] \in [Keys -> Rows] /\ seqs[d] \in Nat
      /\ kept[d][r] \in KeptThere /\ turn[d][r] \in TurnsAt
  BY TypedParts DEF TInv
<1>2. turn[d][r].page \in Pages /\ turn[d][r].entry \in Entries
  BY <1>1 DEF TurnsAt
<1>3. kept[d][r].sentTo \in Nat
  BY <1>1 DEF KeptThere
<1>4. turn[d][r].entry.row \in Rows /\ turn[d][r].entry.key \in Keys
  BY <1>2 DEF Entries
<1>5. \A k \in Keys : turn[d][r].page.rows[k] \in Rows
  BY <1>2 DEF Pages
<1> QED
  BY <1>1, <1>2, <1>3, <1>4, <1>5 DEF Rows

LEMMA CountsAfter ==
  ASSUME TInv', NEW d \in Devices, NEW r \in Relays
  PROVE  /\ \A k \in Keys : relay'[r][k].rev \in Nat /\ relay'[r][k].place \in Nat
         /\ \A k \in Keys : store'[d][k].rev \in Nat /\ store'[d][k].place \in Nat
         /\ seqs'[d] \in Nat /\ kept'[d][r].sentTo \in Nat
BY DEF TInv, TypeOK, Rows

(* The store's places, as it takes entries above all it has, or lets go.   *)
LEMMA OrderedGoesOn ==
  ASSUME TInv, TInv', NEW d \in Devices, Ordered(d), seqs'[d] >= seqs[d],
         \A k \in Present(store'[d]) :
            \/ store'[d][k] = store[d][k]
            \/ store'[d][k].place > seqs[d] /\ store'[d][k].place <= seqs'[d],
         \A j, k \in Present(store'[d]) :
            store'[d][j].place > seqs[d] /\ store'[d][j].place = store'[d][k].place => j = k
  PROVE  Ordered(d)'
<1>1. /\ seqs[d] \in Nat /\ seqs'[d] \in Nat
      /\ \A k \in Keys : store[d][k].place \in Nat /\ store'[d][k].place \in Nat
  BY DEF TInv, TypeOK, Rows
<1>2. ASSUME NEW k \in Present(store'[d]), store'[d][k] = store[d][k]
      PROVE  k \in Present(store[d])
  BY <1>2 DEF Present
<1>3. OwnPlaces(store'[d])
  <2> SUFFICES ASSUME NEW j \in Present(store'[d]), NEW k \in Present(store'[d]),
                      store'[d][j].place = store'[d][k].place
               PROVE  j = k
    BY DEF OwnPlaces
  <2>1. CASE store'[d][j].place > seqs[d]
    BY <2>1
  <2>2. CASE ~(store'[d][j].place > seqs[d])
    <3>1. store'[d][j] = store[d][j] /\ store'[d][k] = store[d][k]
      BY <2>2
    <3> QED
      BY <1>2, <3>1 DEF Ordered, OwnPlaces
  <2> QED
    BY <2>1, <2>2
<1>4. ASSUME NEW k \in Present(store'[d])
      PROVE  store'[d][k].place > 0 /\ store'[d][k].place <= seqs'[d]
  <2>1. k \in Keys
    BY DEF Present
  <2>2. CASE store'[d][k] = store[d][k]
    BY <1>1, <1>2, <2>1, <2>2 DEF Ordered
  <2>3. CASE store'[d][k].place > seqs[d] /\ store'[d][k].place <= seqs'[d]
    BY <1>1, <2>1, <2>3
  <2> QED
    BY <2>2, <2>3
<1> QED
  BY <1>3, <1>4 DEF Ordered

(* A step that leaves what is kept of a relay, and the turn there but for  *)
(* its end or a question.                                                  *)
LEMMA PairStays ==
  ASSUME TInv, TInv', NEW d \in Devices, NEW r \in Relays, PairInv(d, r),
         \A k \in Keys : relay'[r][k].rev >= relay[r][k].rev,
         seqs'[d] >= seqs[d],
         \A k \in Present(store'[d]) :
            store'[d][k] = store[d][k] \/ store'[d][k].place > seqs[d],
         kept'[d][r].sentTo = kept[d][r].sentTo, kept'[d][r].refused = kept[d][r].refused,
         turn'[d][r] = turn[d][r] \/ turn'[d][r].at \notin {"page", "sent", "answered"}
  PROVE  PairInv(d, r)'
<1> DEFINE e == turn[d][r].entry
<1>1. /\ \A k \in Keys : relay[r][k].rev \in Nat /\ relay'[r][k].rev \in Nat
      /\ \A k \in Keys : store[d][k].rev \in Nat /\ store[d][k].place \in Nat
      /\ \A k \in Keys : store'[d][k].rev \in Nat /\ store'[d][k].place \in Nat
      /\ seqs[d] \in Nat /\ seqs'[d] \in Nat /\ kept[d][r].sentTo \in Nat
      /\ e.row.place \in Nat /\ e.row.rev \in Nat /\ e.key \in Keys
      /\ \A k \in Keys : turn[d][r].page.rows[k].rev \in Nat
  BY Counts, CountsAfter
<1>2. ASSUME NEW k \in Present(store'[d]), store'[d][k] = store[d][k]
      PROVE  k \in Present(store[d])
  BY <1>2 DEF Present
<1>3. SentHeld(d, r)'
  <2>1. kept'[d][r].sentTo <= seqs'[d]
    BY <1>1 DEF PairInv, SentHeld
  <2>2. ASSUME NEW k \in Keys, CountedSent(d, r, k)'
        PROVE  relay'[r][k].rev >= store'[d][k].rev
    <3>1. store'[d][k].place <= kept[d][r].sentTo /\ kept[d][r].sentTo <= seqs[d]
          /\ k \in Present(store'[d])
      BY <2>2 DEF CountedSent, PairInv, SentHeld
    <3>2. store'[d][k] = store[d][k]
      BY <1>1, <3>1
    <3>3. CountedSent(d, r, k)
      BY <1>2, <2>2, <3>1, <3>2 DEF CountedSent
    <3> QED
      BY <1>1, <3>2, <3>3 DEF PairInv, SentHeld
  <2> QED
    BY <2>1, <2>2 DEF SentHeld
<1>4. PageThere(d, r)'
  BY <1>1 DEF PairInv, PageThere
<1>5. NextSent(d, r)'
  <2> SUFFICES ASSUME turn'[d][r] = turn[d][r], turn[d][r].at \in {"sent", "answered"}
               PROVE  /\ e.row.place > 0 /\ e.row.place <= seqs'[d]
                      /\ \A k \in Present(store'[d]) :
                           /\ store'[d][k].place = e.row.place =>
                                k = e.key /\ store'[d][k].rev = e.row.rev
                           /\ store'[d][k].place > kept[d][r].sentTo =>
                                store'[d][k].place >= e.row.place
    BY DEF NextSent
  <2>1. e.row.place > 0 /\ e.row.place <= seqs[d]
    BY DEF PairInv, NextSent
  <2>2. ASSUME NEW k \in Present(store'[d])
        PROVE  /\ store'[d][k].place = e.row.place => k = e.key /\ store'[d][k].rev = e.row.rev
               /\ store'[d][k].place > kept[d][r].sentTo => store'[d][k].place >= e.row.place
    <3>1. k \in Keys
      BY DEF Present
    <3>2. CASE store'[d][k] = store[d][k]
      BY <1>2, <3>2 DEF PairInv, NextSent
    <3>3. CASE store'[d][k].place > seqs[d]
      <4> HIDE DEF e
      <4> QED
        BY <1>1, <2>1, <3>1, <3>3
    <3> QED
      BY <3>2, <3>3
  <2> QED
    BY <1>1, <2>1, <2>2
<1>6. AnsweredHas(d, r)'
  <2> SUFFICES ASSUME turn'[d][r] = turn[d][r], turn[d][r].at = "answered", e.room
               PROVE  relay'[r][e.key].rev >= e.row.rev
    BY DEF AnsweredHas
  <2>1. relay[r][e.key].rev >= e.row.rev
    BY DEF PairInv, AnsweredHas
  <2> HIDE DEF e
  <2> QED
    BY <1>1, <2>1
<1> QED
  BY <1>3, <1>4, <1>5, <1>6 DEF PairInv

(* A step by which nothing is kept of a relay.                             *)
LEMMA PairForgotten ==
  ASSUME TInv, TInv', NEW d \in Devices, NEW r \in Relays, PairInv(d, r), Ordered(d)',
         UNCHANGED relay, seqs'[d] >= seqs[d], kept'[d][r].sentTo = 0,
         \/ turn'[d][r] = turn[d][r] /\ Present(store'[d]) = {}
         \/ turn'[d][r].at \notin {"page", "sent", "answered"}
  PROVE  PairInv(d, r)'
<1>1. /\ \A k \in Keys : store'[d][k].place \in Nat
      /\ seqs[d] \in Nat /\ seqs'[d] \in Nat /\ turn[d][r].entry.row.place \in Nat
  BY Counts, CountsAfter
<1>2. SentHeld(d, r)'
  <2>1. ASSUME NEW k \in Keys PROVE ~CountedSent(d, r, k)'
    <3>1. k \in Present(store'[d]) => store'[d][k].place > 0
      BY DEF Ordered
    <3> QED
      BY <1>1, <3>1 DEF CountedSent
  <2> QED
    BY <1>1, <2>1 DEF SentHeld
<1>3. PageThere(d, r)' /\ AnsweredHas(d, r)'
  BY DEF PairInv, PageThere, AnsweredHas
<1>4. NextSent(d, r)'
  BY <1>1 DEF PairInv, NextSent
<1> QED
  BY <1>2, <1>3, <1>4 DEF PairInv

(* Two that a page brings get places apart, of those above all there were. *)
LEMMA SeqsApart ==
  ASSUME TInv, NEW d \in Devices, NEW page \in Pages, OwnPlaces(page.rows),
         NEW k \in Taken(d, page)
  PROVE  /\ SeqOf(d, page, k) <= seqs[d] + Cardinality(Taken(d, page))
         /\ \A j \in Taken(d, page) : SeqOf(d, page, j) = SeqOf(d, page, k) => j = k
<1> DEFINE before(i) == {j \in Taken(d, page) : page.rows[j].place <= page.rows[i].place}
<1>1. /\ IsFiniteSet(Taken(d, page)) /\ Taken(d, page) \subseteq Present(page.rows)
      /\ Taken(d, page) \subseteq Keys /\ Cardinality(Taken(d, page)) \in Nat
  BY TakenFinite DEF Taken
<1>2. \A i \in Keys : page.rows[i].place \in Nat
  BY DEF Pages, Rows
<1>3. seqs[d] \in Nat
  BY TypedParts DEF TInv, TypeOK
<1>4. \A i : IsFiniteSet(before(i)) /\ Cardinality(before(i)) \in Nat
  BY <1>1, FS_Subset, FS_CardinalityType
<1>5. \A i : SeqOf(d, page, i) = seqs[d] + Cardinality(before(i))
  BY DEF SeqOf
<1>6. Cardinality(before(k)) <= Cardinality(Taken(d, page))
  BY <1>1, FS_Subset
<1>7. ASSUME NEW i \in Taken(d, page), NEW j \in Taken(d, page),
             page.rows[i].place <= page.rows[j].place,
             Cardinality(before(i)) = Cardinality(before(j))
      PROVE  i = j
  <2>1. page.rows[i].place \in Nat /\ page.rows[j].place \in Nat
    BY <1>1, <1>2
  <2>2. before(i) \subseteq before(j)
    BY <1>1, <1>2, <1>7
  <2>3. j \in before(j)
    BY <2>1
  <2>4. before(i) = before(j)
    BY <1>4, <1>7, <2>2, FS_Subset
  <2>5. page.rows[i].place = page.rows[j].place
    BY <1>7, <2>1, <2>3, <2>4
  <2> QED
    BY <1>1, <2>5 DEF OwnPlaces
<1>8. ASSUME NEW j \in Taken(d, page), SeqOf(d, page, j) = SeqOf(d, page, k)
      PROVE  j = k
  <2>1. Cardinality(before(j)) = Cardinality(before(k))
    <3> HIDE DEF before
    <3> QED
      BY <1>3, <1>4, <1>5, <1>8
  <2>2. page.rows[j].place \in Nat /\ page.rows[k].place \in Nat
    BY <1>1, <1>2
  <2>3. page.rows[j].place <= page.rows[k].place \/ page.rows[k].place <= page.rows[j].place
    BY <2>2
  <2> HIDE DEF before
  <2> QED
    BY <1>7, <2>1, <2>3
<1> HIDE DEF before
<1> QED
  BY <1>1, <1>3, <1>4, <1>5, <1>6, <1>8

-----------------------------------------------------------------------------
(* What a device does by itself.                                           *)
LEMMA DeviceSent ==
  ASSUME TInv, TInv', SentInv, NEW d \in Devices, OfTheDevice(d)
  PROVE  /\ \A x \in Devices : Ordered(x)'
         /\ \A x \in Devices, r \in Relays : PairInv(x, r)'
<1> USE DEF SentInv
<1>1. UNCHANGED relay
  BY DEF OfTheDevice, Write, SweepDeletes, ComeToCount, Stop, HoldName, Restart
<1>2. /\ \A x \in Devices, r \in Relays, k \in Keys : relay'[r][k].rev >= relay[r][k].rev
      /\ \A x \in Devices : seqs[x] \in Nat /\ seqs'[x] \in Nat
  <2>1. /\ \A r \in Relays, k \in Keys : relay[r][k].rev \in Nat
        /\ \A x \in Devices : seqs[x] \in Nat /\ seqs'[x] \in Nat
    BY DEF TInv, TypeOK, Rows
  <2> QED
    BY <1>1, <2>1
<1>3. ASSUME NEW x \in Devices, x # d
      PROVE  Ordered(x)' /\ \A r \in Relays : PairInv(x, r)'
  <2>1. kept'[x] = kept[x] /\ store'[x] = store[x] /\ turn'[x] = turn[x]
    BY <1>3, OthersLeftAlone
  <2>2. seqs'[x] = seqs[x]
    BY <1>3 DEF OfTheDevice, Write, SweepDeletes, ComeToCount, Stop, HoldName, Restart, TInv, TypeOK
  <2>3. Ordered(x)'
    BY <2>1, <2>2 DEF Ordered
  <2> QED
    BY <1>2, <2>1, <2>2, <2>3, PairStays
<1>4. ASSUME NEW s \in Slots, NEW delete \in Deletes, Write(d, s, delete)
      PROVE  Ordered(d)' /\ \A r \in Relays : PairInv(d, r)'
  <2>1. PICK rev \in 1 .. TopRev : store' = [store EXCEPT ![d][<<s, d>>] =
            [rev |-> rev, delete |-> delete, place |-> seqs[d] + 1]]
    BY <1>4 DEF Write
  <2>2. seqs'[d] = seqs[d] + 1 /\ UNCHANGED <<kept, turn>>
    BY <1>4 DEF Write, TInv, TypeOK
  <2>3. /\ store'[d][<<s, d>>].place = seqs[d] + 1
        /\ \A k \in Keys \ {<<s, d>>} : store'[d][k] = store[d][k]
    <3>1. <<s, d>> \in Keys /\ store \in [Devices -> [Keys -> Rows]]
      BY DEF Keys, TInv, TypeOK
    <3> QED
      BY <2>1, <3>1
  <2>4. \A k \in Present(store'[d]) :
            \/ store'[d][k] = store[d][k]
            \/ store'[d][k].place > seqs[d] /\ store'[d][k].place <= seqs'[d]
    BY <1>2, <2>2, <2>3 DEF Present
  <2>5. \A j, k \in Present(store'[d]) :
            store'[d][j].place > seqs[d] /\ store'[d][j].place = store'[d][k].place => j = k
    <3>1. ASSUME NEW k \in Present(store'[d]), k # <<s, d>>
          PROVE  ~(store'[d][k].place > seqs[d])
      <4>1. k \in Present(store[d]) /\ store'[d][k] = store[d][k]
        BY <2>3, <3>1 DEF Present
      <4>2. store[d][k].place <= seqs[d] /\ store[d][k].place \in Nat
        BY <4>1 DEF Ordered, Present, TInv, TypeOK, Rows
      <4> QED
        BY <1>2, <4>1, <4>2
    <3> QED
      BY <3>1
  <2>6. Ordered(d)'
    BY <1>2, <2>2, <2>4, <2>5, OrderedGoesOn
  <2> QED
    BY <1>2, <2>2, <2>4, <2>6, PairStays
<1>5. ASSUME \/ \E s \in Slots : SweepDeletes(d, s)
             \/ \E a \in Devices : ComeToCount(d, a)
      PROVE  Ordered(d)' /\ \A r \in Relays : PairInv(d, r)'
  <2>1. seqs' = seqs /\ turn' = turn
    BY <1>5 DEF SweepDeletes, ComeToCount
  <2>2. kept' = [kept EXCEPT ![d] = [r \in Relays |-> [@[r] EXCEPT !.at = NoPlace]]]
    BY <1>5 DEF SweepDeletes, ComeToCount
  <2>3. \A r \in Relays : /\ kept'[d][r].sentTo = kept[d][r].sentTo
                          /\ kept'[d][r].refused = kept[d][r].refused
    <3>1. ASSUME NEW r \in Relays PROVE kept'[d][r] = [kept[d][r] EXCEPT !.at = NoPlace]
      BY <2>2 DEF TInv, TypeOK
    <3>2. \A r \in Relays : kept[d][r] \in KeptThere
      BY TypedParts DEF TInv
    <3> QED
      BY <3>1, <3>2 DEF KeptThere
  <2>4. \A k \in Present(store'[d]) : store'[d][k] = store[d][k]
    <3>1. CASE store' = store
      BY <3>1
    <3>2. ASSUME NEW s \in Slots, SweepDeletes(d, s)
          PROVE  \A k \in Present(store'[d]) : store'[d][k] = store[d][k]
      <4>1. PICK gone : store' = [store EXCEPT ![d] = [k \in Keys |-> IF k \in gone THEN NoRow ELSE @[k]]]
        BY <3>2 DEF SweepDeletes
      <4>2. \A k \in Keys : store'[d][k] = store[d][k] \/ store'[d][k].rev = 0
        BY <4>1 DEF TInv, TypeOK, NoRow
      <4> QED
        BY <4>2 DEF Present
    <3> QED
      BY <1>5, <3>1, <3>2 DEF ComeToCount
  <2>5. \A j, k \in Present(store'[d]) :
            store'[d][j].place > seqs[d] /\ store'[d][j].place = store'[d][k].place => j = k
    <3> SUFFICES ASSUME NEW j \in Present(store'[d]) PROVE ~(store'[d][j].place > seqs[d])
      OBVIOUS
    <3>1. j \in Present(store[d]) /\ store'[d][j] = store[d][j]
      BY <2>4 DEF Present
    <3>2. store[d][j].place <= seqs[d] /\ store[d][j].place \in Nat
      BY <3>1 DEF Ordered, Present, TInv, TypeOK, Rows
    <3> QED
      BY <1>2, <3>1, <3>2
  <2>6. Ordered(d)'
    BY <1>2, <2>1, <2>4, <2>5, OrderedGoesOn
  <2> QED
    BY <1>2, <2>1, <2>3, <2>4, <2>6, PairStays
<1>6. ASSUME Stop(d) PROVE Ordered(d)' /\ \A r \in Relays : PairInv(d, r)'
  <2>1. /\ store'[d] = NoRows /\ UNCHANGED <<seqs, turn, relay>>
        /\ \A r \in Relays : kept'[d][r].sentTo = 0
    BY <1>6 DEF Stop, KeptAfterStop, NothingKept, TInv, TypeOK
  <2>2. Present(store'[d]) = {}
    BY <2>1 DEF Present, NoRows, NoRow
  <2>3. Ordered(d)'
    BY <2>2 DEF Ordered, OwnPlaces
  <2> QED
    BY <1>2, <2>1, <2>2, <2>3, PairForgotten
<1>7. ASSUME HoldName(d) \/ Restart(d) PROVE Ordered(d)' /\ \A r \in Relays : PairInv(d, r)'
  <2>1. UNCHANGED <<store, seqs, kept>>
    BY <1>7 DEF HoldName, Restart
  <2>2. \A r \in Relays : turn'[d][r] = turn[d][r] \/ turn'[d][r].at \notin {"page", "sent", "answered"}
    <3>1. CASE turn' = turn
      BY <3>1
    <3>2. CASE Restart(d)
      <4>1. \A r \in Relays : turn'[d][r] = Idle
        BY <3>2 DEF Restart, TInv, TypeOK
      <4> QED
        BY <4>1 DEF Idle, TurnAt
    <3> QED
      BY <1>7, <3>1, <3>2 DEF HoldName
  <2>3. Ordered(d)'
    BY <2>1 DEF Ordered
  <2> QED
    BY <1>2, <2>1, <2>2, <2>3, PairStays
<1>8. Ordered(d)' /\ \A r \in Relays : PairInv(d, r)'
  BY <1>4, <1>5, <1>6, <1>7 DEF OfTheDevice
<1> QED
  BY <1>3, <1>8

(* A step of a turn leaves the turns at other relays, and of other devices. *)
LEMMA OtherTurnsStay ==
  ASSUME TInv, NEW d \in Devices, NEW r \in Relays, TurnStep(d, r)
  PROVE  \A e \in Devices, q \in Relays :
            e # d \/ q # r => turn'[e][q] = turn[e][q] /\ kept'[e][q] = kept[e][q]
<1>1. /\ turn \in [Devices -> [Relays -> TurnsAt]] /\ kept \in [Devices -> [Relays -> KeptThere]]
  BY DEF TInv, TypeOK, TurnsAt, KeptThere, Pages, Entries
<1>s. Send(d, r) =>
        \E e : turn' = [turn EXCEPT ![d][r].at = "sent", ![d][r].entry = e]
  BY DEF Send
<1>a. RelayTakes(d, r) =>
        \E room : turn' = [turn EXCEPT ![d][r].at = "answered", ![d][r].entry.room = room]
  BY DEF RelayTakes
<1>t. \A e \in Devices, q \in Relays : e # d \/ q # r => turn'[e][q] = turn[e][q]
  <2>1. CASE NotHeldAt(d, r) \/ TakePage(d, r) \/ TakeAnswer(d, r) \/ End(d, r)
    <3>1. PICK t : turn' = [turn EXCEPT ![d][r] = t]
      BY <2>1, TurnWrittenIs
    <3> QED
      BY <1>1, <3>1
  <2>2. CASE AskPage(d, r) \/ HandPage(d, r)
    BY <1>1, <2>2 DEF AskPage, HandPage
  <2>3. CASE Send(d, r) \/ RelayTakes(d, r)
    BY <1>1, <1>s, <1>a, <2>3
  <2> QED
    BY <2>1, <2>2, <2>3 DEF TurnStep
<1>k. \A e \in Devices, q \in Relays : e # d \/ q # r => kept'[e][q] = kept[e][q]
  <2>1. CASE UNCHANGED kept
    BY <2>1
  <2>2. CASE NotHeldAt(d, r) \/ TakePage(d, r)
    <3>1. PICK there : kept' = [kept EXCEPT ![d][r] = there]
      BY <2>2, KeptWrittenIs
    <3> QED
      BY <1>1, <3>1
  <2>3. CASE TakeAnswer(d, r)
    <3> DEFINE refused == RefusedAfter(d, r)
    <3>1. PICK sentTo \in Nat : kept' = [kept EXCEPT ![d][r].sentTo = sentTo,
                                                  ![d][r].refused = refused]
      BY <2>3, TakeAnswerIs
    <3> HIDE DEF refused
    <3> QED
      BY <1>1, <3>1
  <2>4. UNCHANGED kept \/ NotHeldAt(d, r) \/ TakePage(d, r) \/ TakeAnswer(d, r)
    BY DEF TurnStep, AskPage, HandPage, Send, RelayTakes, End
  <2> QED
    BY <2>1, <2>2, <2>3, <2>4
<1> QED
  BY <1>t, <1>k

(* What the relay has of each entry is what it had, or something later.    *)
LEMMA TakesLater ==
  ASSUME TInv, TInv', NEW d \in Devices, NEW r \in Relays, RelayTakes(d, r),
         \A q \in Relays : OwnPlaces(relay[q])
  PROVE  /\ \A q \in Relays, k \in Keys : relay'[q][k].rev >= relay[q][k].rev
         /\ \A q \in Relays : OwnPlaces(relay'[q])
         /\ AnsweredHas(d, r)'
<1> DEFINE e == turn[d][r].entry
           row == [e.row EXCEPT !.place = Highest(relay[r]) + 1]
           newer == e.row.rev > relay[r][e.key].rev
           room == RoomFor(r, e.key)
<1>1. /\ e.key \in Keys /\ e.row \in Rows /\ e.row.rev \in Nat
      /\ relay[r] \in [Keys -> Rows] /\ HasHighest(relay[r]) /\ Highest(relay[r]) \in Nat
      /\ \A q \in Relays, k \in Keys : relay[q][k].rev \in Nat /\ relay[q][k].place \in Nat
      /\ \A k \in Keys : relay[r][k].place <= Highest(relay[r])
  BY HighestIs DEF TInv, TypeOK, RowsInv, Rows
<1>2. row.place = Highest(relay[r]) + 1 /\ row.rev = e.row.rev
  BY <1>1 DEF Rows
<1>3. relay' = IF newer /\ room THEN [relay EXCEPT ![r] = [relay[r] EXCEPT ![e.key] = row]] ELSE relay
  BY DEF RelayTakes, TInv, TypeOK
<1>4. PICK answer : /\ turn' = [turn EXCEPT ![d][r].at = "answered", ![d][r].entry.room = answer]
                    /\ answer = (~newer \/ room)
  BY DEF RelayTakes
<1>5. /\ turn'[d][r].entry.key = e.key /\ turn'[d][r].entry.row = e.row
      /\ turn'[d][r].entry.room = answer
  <2>1. turn \in [Devices -> [Relays -> TurnsAt]]
    BY DEF TInv, TypeOK, TurnsAt, Pages, Entries
  <2>2. turn[d][r] \in TurnsAt /\ turn[d][r].entry \in Entries
    BY <2>1 DEF TurnsAt
  <2> HIDE DEF e, row, newer, room
  <2>3. turn'[d][r] = [turn[d][r] EXCEPT !.at = "answered",
                                         !.entry = [turn[d][r].entry EXCEPT !.room = answer]]
    BY <1>4, <2>1
  <2>4. turn'[d][r].entry = [turn[d][r].entry EXCEPT !.room = answer]
    BY <2>2, <2>3 DEF TurnsAt
  <2> QED
    BY <2>2, <2>4 DEF e, Entries
<1> HIDE DEF e, row, newer, room
<1>6. CASE ~(newer /\ room)
  <2>1. relay' = relay
    BY <1>3, <1>6
  <2>2. answer => ~newer
    BY <1>4, <1>6, Zenon
  <2>3. answer => relay[r][e.key].rev >= e.row.rev
    BY <1>1, <2>2 DEF newer
  <2> QED
    BY <1>1, <1>5, <2>1, <2>3 DEF AnsweredHas, e
<1>7. CASE newer /\ room
  <2>1. /\ relay'[r][e.key] = row
        /\ \A q \in Relays, k \in Keys : q # r \/ k # e.key => relay'[q][k] = relay[q][k]
    BY <1>1, <1>3, <1>7 DEF TInv, TypeOK
  <2>2. \A q \in Relays, k \in Keys : relay'[q][k].rev >= relay[q][k].rev
    BY <1>1, <1>2, <1>7, <2>1 DEF newer
  <2>3. AnsweredHas(d, r)'
    BY <1>1, <1>2, <1>5, <2>1 DEF AnsweredHas
  <2>4. ASSUME NEW q \in Relays, NEW j \in Present(relay'[q]), NEW k \in Present(relay'[q]),
               relay'[q][j].place = relay'[q][k].place
        PROVE  j = k
    <3>1. j \in Keys /\ k \in Keys
      BY DEF Present
    <3>2. CASE q # r \/ (j # e.key /\ k # e.key)
      <4>1. j \in Present(relay[q]) /\ k \in Present(relay[q])
        BY <2>1, <3>1, <3>2 DEF Present
      <4> QED
        BY <2>1, <2>4, <3>1, <3>2, <4>1 DEF OwnPlaces
    <3>3. ASSUME q = r, NEW i \in Keys, i # e.key PROVE relay'[r][i].place # relay'[r][e.key].place
      <4>1. relay[r][i].place <= Highest(relay[r]) /\ relay[r][i].place \in Nat
        BY <1>1
      <4>2. relay'[r][i].place = relay[r][i].place /\ relay'[r][e.key].place = Highest(relay[r]) + 1
        BY <1>2, <2>1, <3>3
      <4> QED
        BY <1>1, <4>1, <4>2
    <3> QED
      BY <2>4, <3>1, <3>2, <3>3
  <2> QED
    BY <2>2, <2>3, <2>4 DEF OwnPlaces
<1> QED
  BY <1>6, <1>7

(* What a page is, as the relay hands it.                                  *)
LEMMA HandedThere ==
  ASSUME TInv, NEW d \in Devices, NEW r \in Relays, OwnPlaces(relay[r]), HandPage(d, r)
  PROVE  PageThere(d, r)'
<1> DEFINE after == IF mark[r] = turn[d][r].from.mark THEN turn[d][r].from.place ELSE 0
           handed(next) == [mark |-> mark[r], next |-> next, rows |->
             [k \in Keys |-> IF k \in PageAfter(r, after, next) THEN relay[r][k] ELSE NoRow]]
<1>1. PICK page : /\ turn' = [turn EXCEPT ![d][r].at = "page", ![d][r].page = page]
                  /\ \A k \in Keys : page.rows[k] \in {NoRow, relay[r][k]}
  <2>1. CASE mark[r] = 0
    <3>1. \A k \in Keys : NoPage.rows[k] = NoRow
      BY DEF NoPage, NoRows
    <3> QED
      BY <2>1, <3>1, HandPageIs
  <2>2. CASE mark[r] # 0
    <3>1. PICK next : turn' = [turn EXCEPT ![d][r].at = "page", ![d][r].page = handed(next)]
      BY <2>2 DEF HandPage
    <3>2. \A k \in Keys : handed(next).rows[k] \in {NoRow, relay[r][k]}
      OBVIOUS
    <3> HIDE DEF handed
    <3> QED
      BY <3>1, <3>2
  <2> QED
    BY <2>1, <2>2
<1>2. turn'[d][r].page = page
  <2>1. turn \in [Devices -> [Relays -> TurnsAt]] /\ turn[d][r] \in TurnsAt
    BY DEF TInv, TypeOK, TurnsAt, Pages, Entries
  <2>2. turn'[d][r] = [turn[d][r] EXCEPT !.at = "page", !.page = page]
    BY <1>1, <2>1
  <2> QED
    BY <2>1, <2>2 DEF TurnsAt
<1>3. relay' = relay
  BY DEF HandPage
<1>4. \A k \in Keys : page.rows[k].rev <= relay[r][k].rev
  BY <1>1, Counts DEF NoRow
<1>5. OwnPlaces(page.rows)
  BY <1>1 DEF OwnPlaces, Present, NoRow
<1> QED
  BY <1>2, <1>3, <1>4, <1>5 DEF PageThere

(* An entry that is sent next.                                             *)
LEMMA SentNext ==
  ASSUME TInv, NEW d \in Devices, NEW r \in Relays, Ordered(d), Send(d, r)
  PROVE  NextSent(d, r)' /\ turn'[d][r].at = "sent"
<1>1. PICK k \in ToSend(d, r) :
        turn' = [turn EXCEPT ![d][r].at = "sent",
                             ![d][r].entry = [key |-> k, row |-> store[d][k], room |-> TRUE]]
  BY DEF Send
<1> DEFINE e == [key |-> k, row |-> store[d][k], room |-> TRUE]
<1>2. turn'[d][r].entry = e /\ turn'[d][r].at = "sent"
  <2>1. turn \in [Devices -> [Relays -> TurnsAt]] /\ turn[d][r] \in TurnsAt
    BY DEF TInv, TypeOK, TurnsAt, Pages, Entries
  <2>2. turn'[d][r] = [turn[d][r] EXCEPT !.at = "sent", !.entry = e]
    BY <1>1, <2>1
  <2> HIDE DEF e
  <2> QED
    BY <2>1, <2>2 DEF TurnsAt
<1>3. UNCHANGED <<store, seqs, kept>>
  BY DEF Send, dvars
<1>4. /\ k \in Present(store[d])
      /\ \A j \in New(d, r) : store[d][k].place <= store[d][j].place
  BY DEF ToSend, New, Refused
<1>5. \A j \in Present(store[d]) :
        store[d][j].place > kept[d][r].sentTo => store[d][j].place >= store[d][k].place
  BY <1>4, Counts DEF New, Present
<1> QED
  BY <1>2, <1>3, <1>4, <1>5 DEF NextSent, Ordered, OwnPlaces

(* The answer, taken.                                                      *)
LEMMA AnswerSent ==
  ASSUME TInv, TInv', NEW d \in Devices, NEW r \in Relays, PairInv(d, r), TakeAnswer(d, r)
  PROVE  SentHeld(d, r)' /\ turn'[d][r].at = "push"
<1> DEFINE e == turn[d][r].entry
           p == e.row.place
           refused == RefusedAfter(d, r)
<1>1. PICK sentTo \in Nat :
        /\ kept' = [kept EXCEPT ![d][r].sentTo = sentTo, ![d][r].refused = refused]
        /\ sentTo = IF p > kept[d][r].sentTo THEN p ELSE kept[d][r].sentTo
  <2>1. (IF p > kept[d][r].sentTo THEN p ELSE kept[d][r].sentTo) \in Nat
    BY Counts
  <2> QED
    BY <2>1 DEF TakeAnswer
<1>2. UNCHANGED <<store, seqs, relay>> /\ turn[d][r].at = "answered"
  BY DEF TakeAnswer, dvars
<1>3. turn'[d][r].at = "push"
  <2>1. PICK again : turn' = [turn EXCEPT ![d][r] = TurnAt("push", again)]
    BY DEF TakeAnswer, Turns
  <2> QED
    BY <2>1 DEF TurnAt, TInv, TypeOK
<1>4. /\ \A k \in Keys : relay[r][k].rev \in Nat /\ store[d][k].rev \in Nat
                         /\ store[d][k].place \in Nat
      /\ seqs[d] \in Nat /\ kept[d][r].sentTo \in Nat /\ p \in Nat /\ e.row.rev \in Nat
  BY Counts
<1>5. /\ p > 0 /\ p <= seqs[d]
      /\ \A k \in Present(store[d]) :
           /\ store[d][k].place = p => k = e.key /\ store[d][k].rev = e.row.rev
           /\ store[d][k].place > kept[d][r].sentTo => store[d][k].place >= p
      /\ e.room => relay[r][e.key].rev >= e.row.rev
      /\ kept[d][r].sentTo <= seqs[d]
  BY <1>2 DEF PairInv, NextSent, AnsweredHas, SentHeld
<1>6. refused = IF e.room THEN kept[d][r].refused \ {p}
                ELSE (kept[d][r].refused \cap {store[d][k].place : k \in Present(store[d])}) \cup {p}
  BY DEF RefusedAfter
<1>7. kept'[d][r].sentTo = sentTo /\ kept'[d][r].refused = refused
  <2> HIDE DEF refused, p
  <2>1. kept \in [Devices -> [Relays -> KeptThere]] /\ kept[d][r] \in KeptThere
    BY DEF TInv, TypeOK, KeptThere
  <2>2. kept'[d][r] = [kept[d][r] EXCEPT !.sentTo = sentTo, !.refused = refused]
    BY <1>1, <2>1
  <2> QED
    BY <2>1, <2>2 DEF KeptThere
<1> HIDE DEF refused, p, e
<1>8. ASSUME NEW k \in Present(store[d]), store[d][k].place <= sentTo,
             store[d][k].place \notin refused
      PROVE  relay[r][k].rev >= store[d][k].rev
  <2>1. k \in Keys /\ store[d][k].place \in Nat
    BY <1>4 DEF Present
  <2>2. CASE store[d][k].place = p
    BY <1>5, <1>6, <1>8, <2>2
  <2>3. CASE store[d][k].place # p
    <3>1. store[d][k].place <= kept[d][r].sentTo
      BY <1>1, <1>4, <1>5, <1>8, <2>1, <2>3
    <3>2. store[d][k].place \notin kept[d][r].refused
      BY <1>6, <1>8, <2>3
    <3> QED
      BY <2>1, <3>1, <3>2 DEF PairInv, SentHeld, CountedSent
  <2> QED
    BY <2>2, <2>3
<1>9. SentHeld(d, r)'
  <2>1. kept'[d][r].sentTo <= seqs'[d]
    BY <1>1, <1>2, <1>4, <1>5, <1>7
  <2>2. ASSUME NEW k \in Keys, CountedSent(d, r, k)' PROVE relay'[r][k].rev >= store'[d][k].rev
    BY <1>2, <1>7, <1>8, <2>2 DEF CountedSent
  <2> QED
    BY <2>1, <2>2 DEF SentHeld
<1> QED
  BY <1>3, <1>9

(* A page, taken.                                                          *)
LEMMA TakenOrdered ==
  ASSUME TInv, TInv', NEW d \in Devices, NEW r \in Relays, PageThere(d, r), Ordered(d),
         TakePage(d, r)
  PROVE  /\ Ordered(d)'
         /\ seqs'[d] = seqs[d] + Cardinality(Taken(d, turn[d][r].page))
         /\ \A k \in Keys : IF k \in Taken(d, turn[d][r].page)
              THEN store'[d][k].rev = turn[d][r].page.rows[k].rev /\ store'[d][k].place > seqs[d]
              ELSE store'[d][k] = store[d][k]
<1> DEFINE page == turn[d][r].page
<1>1. /\ page \in Pages /\ OwnPlaces(page.rows) /\ seqs[d] \in Nat
  BY Counts DEF TakePage, PageThere
<1>2. seqs'[d] = seqs[d] + Cardinality(Taken(d, page))
  BY DEF TakePage, TInv, TypeOK
<1>3. \A k \in Keys : store'[d][k] =
        IF k \in Taken(d, page) THEN [page.rows[k] EXCEPT !.place = SeqOf(d, page, k)]
        ELSE store[d][k]
  <2>1. store' = [store EXCEPT ![d] = [k \in Keys |->
          IF k \in Taken(d, page) THEN [page.rows[k] EXCEPT !.place = SeqOf(d, page, k)]
          ELSE @[k]]]
    BY DEF TakePage
  <2> HIDE DEF page
  <2> QED
    BY <2>1 DEF TInv, TypeOK
<1> HIDE DEF page
<1>4. ASSUME NEW k \in Taken(d, page)
      PROVE  /\ k \in Keys
             /\ store'[d][k].rev = page.rows[k].rev
             /\ store'[d][k].place = SeqOf(d, page, k)
             /\ SeqOf(d, page, k) > seqs[d] /\ SeqOf(d, page, k) <= seqs'[d]
  <2>1. k \in Keys /\ page.rows[k] \in Rows
    BY <1>1, TakenFinite DEF Pages
  <2>2. SeqOf(d, page, k) > seqs[d] /\ SeqOf(d, page, k) <= seqs'[d]
    BY <1>1, <1>2, SeqTyped, SeqsApart
  <2> QED
    BY <1>3, <2>1, <2>2 DEF Rows
<1>5. ASSUME NEW k \in Present(store'[d]), k \notin Taken(d, page)
      PROVE  store'[d][k] = store[d][k] /\ ~(store'[d][k].place > seqs[d])
  <2>1. k \in Keys /\ store'[d][k] = store[d][k] /\ k \in Present(store[d])
    BY <1>3, <1>5 DEF Present
  <2>2. store[d][k].place <= seqs[d] /\ store[d][k].place \in Nat
    BY <2>1, Counts DEF Ordered
  <2> QED
    BY <1>1, <2>1, <2>2
<1>6. \A k \in Present(store'[d]) :
         \/ store'[d][k] = store[d][k]
         \/ store'[d][k].place > seqs[d] /\ store'[d][k].place <= seqs'[d]
  BY <1>4, <1>5
<1>7. \A j, k \in Present(store'[d]) :
         store'[d][j].place > seqs[d] /\ store'[d][j].place = store'[d][k].place => j = k
  <2> SUFFICES ASSUME NEW j \in Present(store'[d]), NEW k \in Present(store'[d]),
                      store'[d][j].place > seqs[d], store'[d][j].place = store'[d][k].place
               PROVE  j = k
    OBVIOUS
  <2>1. j \in Taken(d, page) /\ k \in Taken(d, page)
    BY <1>5
  <2> QED
    BY <1>1, <1>4, <2>1, SeqsApart
<1>8. seqs'[d] >= seqs[d]
  BY <1>1, <1>2, TakenFinite
<1>9. Ordered(d)'
  BY <1>6, <1>7, <1>8, OrderedGoesOn
<1> QED
  BY <1>2, <1>3, <1>4, <1>9 DEF page

LEMMA TakenSent ==
  ASSUME TInv, TInv', NEW d \in Devices, NEW r \in Relays, PairInv(d, r), Ordered(d),
         TakePage(d, r)
  PROVE  PairInv(d, r)'
<1> DEFINE page == turn[d][r].page
<1>1. /\ page \in Pages /\ turn[d][r].at = "page" /\ relay' = relay
      /\ \A k \in Keys : page.rows[k].rev <= relay[r][k].rev
      /\ \A k \in Keys : /\ page.rows[k].rev \in Nat /\ relay[r][k].rev \in Nat
                         /\ store[d][k].place \in Nat /\ store[d][k].rev \in Nat
                         /\ store'[d][k].place \in Nat
      /\ seqs[d] \in Nat /\ seqs'[d] \in Nat /\ kept[d][r].sentTo \in Nat
      /\ kept[d][r].sentTo <= seqs[d]
  BY Counts, CountsAfter DEF TakePage, PairInv, PageThere, SentHeld
<1>2. Ordered(d)' /\ seqs'[d] = seqs[d] + Cardinality(Taken(d, page))
  BY TakenOrdered DEF PairInv
<1>3. \A k \in Keys : IF k \in Taken(d, page)
        THEN store'[d][k].rev = page.rows[k].rev /\ store'[d][k].place > seqs[d]
        ELSE store'[d][k] = store[d][k]
  BY TakenOrdered DEF PairInv
<1>4. seqs'[d] >= seqs[d]
  BY <1>1, <1>2, TakenFinite
<1>5. turn'[d][r].at \in {"push", "pull"}
  <2>1. PICK at, again : at \in {"push", "pull"} /\ turn' = [turn EXCEPT ![d][r] = TurnAt(at, again)]
    BY DEF TakePage, Turns
  <2> QED
    BY <2>1 DEF TurnAt, TInv, TypeOK
<1>6. kept'[d][r] = IF Stale(d, r) THEN kept[d][r] ELSE KeptAfterPage(d, r, page)
  <2>1. kept' = [kept EXCEPT ![d][r] = IF Stale(d, r) THEN @ ELSE KeptAfterPage(d, r, page)]
    BY DEF TakePage
  <2> HIDE DEF page
  <2> QED
    BY <2>1 DEF TInv, TypeOK
<1>7. \A k \in Present(store'[d]) : store'[d][k] = store[d][k] \/ store'[d][k].place > seqs[d]
  BY <1>3 DEF Present
<1> HIDE DEF page
<1>8. CASE /\ kept'[d][r].sentTo = kept[d][r].sentTo
           /\ kept'[d][r].refused = kept[d][r].refused
  BY <1>1, <1>4, <1>5, <1>7, <1>8, PairStays
<1>9. CASE kept'[d][r].sentTo = 0
  BY <1>1, <1>2, <1>4, <1>5, <1>9, PairForgotten
<1>10. CASE /\ kept'[d][r].sentTo = seqs'[d]
            /\ \/ kept'[d][r].refused = kept[d][r].refused
                  /\ \A k \in Keys : store[d][k].place <= kept[d][r].sentTo
               \/ \A k \in Keys : store[d][k].place <= 0
  <2>1. ASSUME NEW k \in Keys, CountedSent(d, r, k)'
        PROVE  relay'[r][k].rev >= store'[d][k].rev
    <3>1. CASE k \in Taken(d, page)
      BY <1>1, <1>3, <3>1
    <3>2. CASE k \notin Taken(d, page)
      <4>1. store'[d][k] = store[d][k] /\ k \in Present(store[d])
        BY <1>3, <2>1, <3>2 DEF CountedSent, Present
      <4>2. store[d][k].place > 0 /\ store[d][k].place \in Nat
        BY <1>1, <4>1 DEF Ordered
      <4>3. CountedSent(d, r, k)
        BY <1>10, <2>1, <4>1, <4>2 DEF CountedSent
      <4> QED
        BY <1>1, <4>1, <4>3 DEF PairInv, SentHeld
    <3> QED
      BY <3>1, <3>2
  <2>2. SentHeld(d, r)'
    BY <1>1, <1>10, <2>1 DEF SentHeld
  <2> QED
    BY <1>5, <2>2 DEF PairInv, PageThere, NextSent, AnsweredHas
<1>11. \/ kept'[d][r] = kept[d][r]
       \/ /\ kept'[d][r].sentTo = SentAfterPage(d, r, page)
          /\ kept'[d][r].refused = KeptFor(d, r, page).refused
  BY <1>6 DEF KeptAfterPage
<1>12. KeptFor(d, r, page) = kept[d][r] \/ KeptFor(d, r, page) = NothingKept
  BY DEF KeptFor
<1>13. \/ SentAfterPage(d, r, page) = KeptFor(d, r, page).sentTo
       \/ /\ SentAfterPage(d, r, page) = seqs'[d]
          /\ \A k \in Keys : ~(store[d][k].place > KeptFor(d, r, page).sentTo)
  BY <1>2 DEF SentAfterPage
<1>14. NothingKept.sentTo = 0
  BY DEF NothingKept
<1>15. CASE /\ kept'[d][r].sentTo = SentAfterPage(d, r, page)
            /\ kept'[d][r].refused = KeptFor(d, r, page).refused
  <2>1. CASE SentAfterPage(d, r, page) = KeptFor(d, r, page).sentTo
    BY <1>8, <1>9, <1>12, <1>14, <1>15, <2>1
  <2>2. CASE /\ SentAfterPage(d, r, page) = seqs'[d]
             /\ \A k \in Keys : ~(store[d][k].place > KeptFor(d, r, page).sentTo)
    <3>1. CASE KeptFor(d, r, page) = kept[d][r]
      BY <1>1, <1>10, <1>15, <2>2, <3>1
    <3>2. CASE KeptFor(d, r, page) = NothingKept
      BY <1>1, <1>10, <1>14, <1>15, <2>2, <3>2
    <3> QED
      BY <1>12, <3>1, <3>2
  <2> QED
    BY <1>13, <2>1, <2>2
<1> QED
  BY <1>8, <1>11, <1>15

(* A step of a turn.                                                       *)
LEMMA TurnStepSent ==
  ASSUME TInv, TInv', SentInv, NEW d \in Devices, NEW r \in Relays, TurnStep(d, r)
  PROVE  /\ \A q \in Relays : OwnPlaces(relay'[q])
         /\ \A x \in Devices : Ordered(x)'
         /\ \A x \in Devices, q \in Relays : PairInv(x, q)'
<1> USE DEF SentInv
<1>1. /\ \A q \in Relays, k \in Keys : relay'[q][k].rev >= relay[q][k].rev
      /\ \A q \in Relays : OwnPlaces(relay'[q])
  <2>1. CASE RelayTakes(d, r)
    BY <2>1, TakesLater
  <2>2. CASE relay' = relay
    <3>1. \A q \in Relays, k \in Keys : relay[q][k].rev \in Nat
      BY Counts
    <3> QED
      BY <2>2, <3>1
  <2> QED
    BY <2>1, <2>2 DEF TurnStep, NotHeldAt, AskPage, HandPage, TakePage, Send, TakeAnswer, End
<1>2. CASE TakePage(d, r)
  <2>1. \A x \in Devices \ {d} : store'[x] = store[x] /\ seqs'[x] = seqs[x]
    BY <1>2 DEF TakePage, TInv, TypeOK
  <2>2. Ordered(d)' /\ PairInv(d, r)'
    BY <1>2, TakenOrdered, TakenSent DEF PairInv
  <2>3. \A x \in Devices : Ordered(x)'
    BY <2>1, <2>2 DEF Ordered
  <2>4. \A x \in Devices : seqs[x] \in Nat /\ seqs'[x] \in Nat
    BY DEF TInv, TypeOK
  <2>5. /\ seqs'[d] = seqs[d] + Cardinality(Taken(d, turn[d][r].page))
        /\ \A k \in Keys : store'[d][k] = store[d][k] \/ store'[d][k].place > seqs[d]
    BY <1>2, TakenOrdered DEF PairInv
  <2>6. ASSUME NEW x \in Devices, NEW q \in Relays, x # d \/ q # r
        PROVE  PairInv(x, q)'
    <3>1. kept'[x][q] = kept[x][q] /\ turn'[x][q] = turn[x][q]
      BY <2>6, OtherTurnsStay
    <3>2. seqs'[x] >= seqs[x]
      BY <2>1, <2>4, <2>5, TakenFinite
    <3>3. \A k \in Present(store'[x]) : store'[x][k] = store[x][k] \/ store'[x][k].place > seqs[x]
      BY <2>1, <2>5 DEF Present
    <3> QED
      BY <1>1, <3>1, <3>2, <3>3, PairStays
  <2> QED
    BY <1>1, <2>2, <2>3, <2>6
<1>3. CASE ~TakePage(d, r)
  <2>0. PairInv(d, r) /\ Ordered(d)
    OBVIOUS
  <2>1. store' = store /\ seqs' = seqs
    BY <1>3 DEF TurnStep, NotHeldAt, AskPage, HandPage, Send, RelayTakes, TakeAnswer, End, dvars
  <2>2. \A x \in Devices : Ordered(x)' /\ seqs'[x] >= seqs[x]
    BY <2>1 DEF Ordered, TInv, TypeOK
  <2>3. ASSUME NEW x \in Devices, NEW q \in Relays, x # d \/ q # r
        PROVE  PairInv(x, q)'
    <3>1. kept'[x][q] = kept[x][q] /\ turn'[x][q] = turn[x][q]
      BY <2>3, OtherTurnsStay
    <3> QED
      BY <1>1, <2>1, <2>2, <3>1, PairStays
  <2>4. ASSUME NotHeldAt(d, r) PROVE PairInv(d, r)'
    <3>1. kept'[d][r].sentTo = 0 /\ turn'[d][r].at = "pull" /\ relay' = relay
      BY <2>4 DEF NotHeldAt, Turns, TurnAt, NothingKept, TInv, TypeOK
    <3> QED
      BY <2>0, <2>1, <2>2, <3>1, PairForgotten
  <2>5. ASSUME AskPage(d, r) \/ End(d, r) PROVE PairInv(d, r)'
    <3>1. kept' = kept
      BY <2>5 DEF AskPage, End
    <3>2. turn'[d][r].at \in {"asked", "idle"}
      <4>1. turn \in [Devices -> [Relays -> TurnsAt]] /\ turn[d][r] \in TurnsAt
        BY DEF TInv, TypeOK, TurnsAt, Pages, Entries
      <4>2. CASE AskPage(d, r)
        BY <4>1, <4>2 DEF AskPage, TurnsAt
      <4>3. CASE End(d, r)
        BY <4>1, <4>3 DEF End, Idle, TurnAt
      <4> QED
        BY <2>5, <4>2, <4>3
    <3> QED
      BY <1>1, <2>0, <2>1, <2>2, <3>1, <3>2, PairStays
  <2>6. ASSUME HandPage(d, r) PROVE PairInv(d, r)'
    <3>1. PageThere(d, r)' /\ kept' = kept /\ relay' = relay
      BY <2>6, HandedThere DEF HandPage
    <3>2. turn'[d][r].at = "page"
      <4>1. turn \in [Devices -> [Relays -> TurnsAt]] /\ turn[d][r] \in TurnsAt
        BY DEF TInv, TypeOK, TurnsAt, Pages, Entries
      <4>2. PICK page : turn' = [turn EXCEPT ![d][r].at = "page", ![d][r].page = page]
        BY <2>6 DEF HandPage
      <4> QED
        BY <4>1, <4>2 DEF TurnsAt
    <3> QED
      BY <2>0, <2>1, <3>1, <3>2 DEF PairInv, SentHeld, CountedSent, NextSent, AnsweredHas
  <2>7. ASSUME Send(d, r) PROVE PairInv(d, r)'
    <3>1. kept' = kept /\ relay' = relay
      BY <2>7 DEF Send
    <3> QED
      BY <2>0, <2>1, <2>7, <3>1, SentNext DEF PairInv, SentHeld, CountedSent, PageThere, AnsweredHas
  <2>8. ASSUME RelayTakes(d, r) PROVE PairInv(d, r)'
    <3>1. kept' = kept /\ turn[d][r].at = "sent"
      BY <2>8 DEF RelayTakes
    <3>2. /\ turn'[d][r].at = "answered" /\ turn'[d][r].entry.key = turn[d][r].entry.key
          /\ turn'[d][r].entry.row = turn[d][r].entry.row
      <4>0. turn \in [Devices -> [Relays -> TurnsAt]]
        BY DEF TInv, TypeOK, TurnsAt, Pages, Entries
      <4>1. turn[d][r] \in TurnsAt /\ turn[d][r].entry \in Entries
        BY <4>0 DEF TurnsAt
      <4>2. PICK room : turn' = [turn EXCEPT ![d][r].at = "answered", ![d][r].entry.room = room]
        BY <2>8 DEF RelayTakes
      <4>3. turn'[d][r] = [turn[d][r] EXCEPT !.at = "answered",
                                             !.entry = [turn[d][r].entry EXCEPT !.room = room]]
        BY <4>0, <4>2
      <4>4. /\ turn'[d][r].at = "answered"
            /\ turn'[d][r].entry = [turn[d][r].entry EXCEPT !.room = room]
        BY <4>1, <4>3 DEF TurnsAt
      <4> QED
        BY <4>1, <4>4 DEF Entries
    <3>3. AnsweredHas(d, r)'
      BY <2>8, TakesLater
    <3>4. NextSent(d, r)'
      BY <2>0, <2>1, <3>1, <3>2 DEF PairInv, NextSent
    <3>5. SentHeld(d, r)'
      <4>1. \A k \in Keys : relay'[r][k].rev >= relay[r][k].rev
        BY <1>1
      <4>2. \A k \in Keys : relay'[r][k].rev \in Nat /\ relay[r][k].rev \in Nat /\ store[d][k].rev \in Nat
        BY Counts, CountsAfter
      <4> QED
        BY <2>1, <3>1, <4>1, <4>2 DEF PairInv, SentHeld, CountedSent
    <3> QED
      BY <3>2, <3>3, <3>4, <3>5 DEF PairInv, PageThere
  <2>9. ASSUME TakeAnswer(d, r) PROVE PairInv(d, r)'
    BY <2>0, <2>9, AnswerSent DEF PairInv, PageThere, NextSent, AnsweredHas
  <2>10. PairInv(d, r)'
    BY <1>3, <2>4, <2>5, <2>6, <2>7, <2>8, <2>9 DEF TurnStep
  <2> QED
    BY <1>1, <2>2, <2>3, <2>10
<1> QED
  BY <1>2, <1>3

LEMMA OtherTurnSent ==
  ASSUME TInv, TInv', SentInv, NEW d \in Devices, NEW r \in Relays,
         \/ \E at \in {"no", "pull", "push"}, again \in BOOLEAN : Begin(d, r, at, again)
         \/ LeavePull(d, r) \/ Fail(d, r)
  PROVE  /\ \A q \in Relays : OwnPlaces(relay'[q])
         /\ \A x \in Devices : Ordered(x)'
         /\ \A x \in Devices, q \in Relays : PairInv(x, q)'
<1> USE DEF SentInv
<1>1. UNCHANGED <<relay, store, seqs, kept>>
  BY DEF Begin, LeavePull, Fail, dvars
<1>2. /\ \A x \in Devices : seqs'[x] >= seqs[x]
      /\ \A q \in Relays, k \in Keys : relay'[q][k].rev >= relay[q][k].rev
  <2>1. \A q \in Relays, k \in Keys : relay[q][k].rev \in Nat
    BY Counts
  <2>2. \A x \in Devices : seqs[x] \in Nat
    BY DEF TInv, TypeOK
  <2> QED
    BY <1>1, <2>1, <2>2
<1>3. PICK t : turn' = [turn EXCEPT ![d][r] = t] /\ t.at \notin {"page", "sent", "answered"}
  <2>1. CASE \E at \in {"no", "pull", "push"}, again \in BOOLEAN : Begin(d, r, at, again)
    <3>1. PICK at \in {"no", "pull", "push"}, again \in BOOLEAN : Begin(d, r, at, again)
      BY <2>1
    <3>2. turn' = [turn EXCEPT ![d][r] = TurnAt(at, again)]
      BY <3>1 DEF Begin, Turns
    <3>3. TurnAt(at, again).at \notin {"page", "sent", "answered"}
      BY DEF TurnAt
    <3> QED
      BY <3>2, <3>3
  <2>2. CASE LeavePull(d, r)
    <3>1. turn' = [turn EXCEPT ![d][r] = TurnAt("push", turn[d][r].again)]
      BY <2>2 DEF LeavePull, Turns
    <3>2. TurnAt("push", turn[d][r].again).at \notin {"page", "sent", "answered"}
      BY DEF TurnAt
    <3> QED
      BY <3>1, <3>2
  <2>3. CASE Fail(d, r)
    <3>1. turn' = [turn EXCEPT ![d][r] = Idle]
      BY <2>3 DEF Fail
    <3>2. Idle.at \notin {"page", "sent", "answered"}
      BY DEF Idle, TurnAt
    <3> QED
      BY <3>1, <3>2
  <2> QED
    BY <2>1, <2>2, <2>3
<1>4. \A x \in Devices, q \in Relays :
        turn'[x][q] = turn[x][q] \/ turn'[x][q].at \notin {"page", "sent", "answered"}
  <2>1. \A x \in Devices, q \in Relays : turn'[x][q] = turn[x][q] \/ turn'[x][q] = t
    BY <1>3 DEF TInv, TypeOK
  <2> QED
    BY <1>3, <2>1
<1>5. \A x \in Devices, q \in Relays : PairInv(x, q)'
  BY <1>1, <1>2, <1>4, PairStays
<1> QED
  BY <1>1, <1>5 DEF Ordered

(* What may happen no more does not, and may not later.                    *)
LEMMA NoneLeft ==
  ASSUME TInv, NEW never \in SUBSET Bounded, \A what \in never : left[what] = 0, [Next]_vars
  PROVE  \A what \in never : left'[what] = 0 /\ ~Spend(what)
<1>1. left \in [Bounded -> Nat]
  BY DEF TInv, TypeOK
<1>2. \A what \in never : ~Spend(what)
  BY <1>1 DEF Spend
<1>3. ASSUME NEW what \in Bounded, Spend(what) PROVE \A b \in never : left'[b] = 0
  BY <1>1, <1>2, <1>3 DEF Spend
<1>4. UNCHANGED left \/ \E what \in Bounded : Spend(what)
  <2>1. CASE UNCHANGED vars
    BY <2>1 DEF vars
  <2>2. ASSUME NEW d \in Devices, OfTheDevice(d)
        PROVE  UNCHANGED left \/ \E what \in Bounded : Spend(what)
    BY <2>2 DEF OfTheDevice, Write, SweepDeletes, ComeToCount, Stop, HoldName, Restart, Bounded
  <2>3. ASSUME NEW d \in Devices, NEW r \in Relays,
               \/ \E at \in {"no", "pull", "push"}, again \in BOOLEAN : Begin(d, r, at, again)
               \/ TurnStep(d, r) \/ LeavePull(d, r) \/ Fail(d, r)
        PROVE  UNCHANGED left \/ \E what \in Bounded : Spend(what)
    BY <2>3 DEF Begin, TurnStep, NotHeldAt, AskPage, HandPage, TakePage, Send, RelayTakes,
      TakeAnswer, End, LeavePull, Fail, Bounded
  <2>4. ASSUME NEW r \in Relays, DropChannel(r) \/ RelaySweep(r)
        PROVE  \E what \in Bounded : Spend(what)
    BY <2>4, Zenon DEF DropChannel, RelaySweep, Bounded
  <2> QED
    BY <2>1, <2>2, <2>3, <2>4 DEF Next
<1> QED
  BY <1>2, <1>3, <1>4

LEMMA NothingDroppedStays ==
  ASSUME TInv, NothingDropped, [Next]_vars
  PROVE  /\ NothingDropped'
         /\ \A r \in Relays : ~DropChannel(r) /\ ~RelaySweep(r)
<1>1. /\ Dropping \in SUBSET Bounded
      /\ "drop" \in Dropping /\ "relay sweep" \in Dropping
  BY Zenon DEF Bounded, Dropping
<1>2. \A what \in Dropping : left'[what] = 0 /\ ~Spend(what)
  BY <1>1, NoneLeft DEF NothingDropped
<1>3. \A r \in Relays : ~DropChannel(r) /\ ~RelaySweep(r)
  BY <1>1, <1>2, Zenon DEF DropChannel, RelaySweep
<1> QED
  BY <1>2, <1>3 DEF NothingDropped

LEMMA NextSentInv == TInv /\ TInv' /\ SentInv /\ [Next]_vars => SentInv'
<1> SUFFICES ASSUME TInv, TInv', SentInv, [Next]_vars PROVE SentInv'
  OBVIOUS
<1>1. NothingDropped' /\ \A r \in Relays : ~DropChannel(r) /\ ~RelaySweep(r)
  BY NothingDroppedStays DEF SentInv
<1> DEFINE Rest == /\ \A q \in Relays : OwnPlaces(relay'[q])
                   /\ \A x \in Devices : Ordered(x)'
                   /\ \A x \in Devices, q \in Relays : PairInv(x, q)'
<1>2. CASE UNCHANGED vars
  <2>1. Rest
    BY <1>2 DEF vars, SentInv, Ordered, PairInv, SentHeld, CountedSent, PageThere, NextSent,
      AnsweredHas
  <2> QED
    BY <1>1, <2>1 DEF SentInv
<1>3. ASSUME NEW d \in Devices, OfTheDevice(d) PROVE Rest
  <2>1. relay' = relay
    BY <1>3 DEF OfTheDevice, Write, SweepDeletes, ComeToCount, Stop, HoldName, Restart
  <2> QED
    BY <1>3, <2>1, DeviceSent DEF SentInv
<1>4. ASSUME NEW d \in Devices, NEW r \in Relays,
             \/ \E at \in {"no", "pull", "push"}, again \in BOOLEAN : Begin(d, r, at, again)
             \/ TurnStep(d, r) \/ LeavePull(d, r) \/ Fail(d, r)
      PROVE  Rest
  BY <1>4, TurnStepSent, OtherTurnSent
<1> HIDE DEF Rest
<1>5. CASE Next
  <2>1. Rest
    BY <1>1, <1>3, <1>4, <1>5 DEF Next
  <2> QED
    BY <1>1, <2>1 DEF SentInv, Rest
<1> QED
  BY <1>2, <1>5

(* Where no relay drops a channel or sweeps it, what a device counts as    *)
(* sent there, the relay has or had no room for: however turns are lost    *)
(* and nodes restarted, names stopped in the middle of a pass and held     *)
(* again, deletes swept and places forgotten.                              *)
THEOREM SentIsAlwaysThere ==
  ASSUME \A b \in Budgets, what \in Dropping : b[what] = 0
  PROVE  Spec => []SentIsThere
<1>1. Init => TInv /\ SentInv
  <2> SUFFICES ASSUME Init PROVE SentInv
    BY InitTyped
  <2> DEFINE none == [k \in Keys |-> [rev |-> 0, delete |-> FALSE, place |-> 0]]
  <2>0. /\ left \in Budgets
        /\ store = [d \in Devices |-> none] /\ seqs = [d \in Devices |-> 0]
        /\ relay = [r \in Relays |-> none]
    BY DEF Init, NoRows, NoRow
  <2>1. NothingDropped
    BY <2>0 DEF NothingDropped
  <2>a. Present(none) = {}
    <3>1. \A k \in Keys : none[k].rev \in Nat /\ none[k].rev = 0
      OBVIOUS
    <3> HIDE DEF none
    <3>2. Present(none) = {k \in Keys : none[k].rev > 0}
      BY Zenon DEF Present
    <3> QED
      BY <3>1, <3>2
  <2> HIDE DEF none
  <2>2. \A d \in Devices : Present(store[d]) = {} /\ seqs[d] = 0
    BY <2>0, <2>a
  <2>3. \A r \in Relays : Present(relay[r]) = {}
    BY <2>0, <2>a
  <2>4. \A d \in Devices, r \in Relays : kept[d][r].sentTo = 0 /\ turn[d][r].at = "idle"
    BY DEF Init, NothingKept, Idle, TurnAt
  <2>5. \A d \in Devices, r \in Relays : PairInv(d, r)
    <3> SUFFICES ASSUME NEW d \in Devices, NEW r \in Relays PROVE PairInv(d, r)
      OBVIOUS
    <3>1. SentHeld(d, r)
      <4>1. seqs[d] \in Nat /\ kept[d][r].sentTo \in Nat
        BY InitTyped, Counts
      <4> QED
        BY <2>2, <2>4, <4>1 DEF SentHeld, CountedSent
    <3>2. PageThere(d, r) /\ NextSent(d, r) /\ AnsweredHas(d, r)
      BY <2>4 DEF PageThere, NextSent, AnsweredHas
    <3> QED
      BY <3>1, <3>2 DEF PairInv
  <2> QED
    BY <2>1, <2>2, <2>3, <2>5 DEF SentInv, OwnPlaces, Ordered
<1>2. TInv /\ SentInv /\ [Next]_vars => (TInv /\ SentInv)'
  BY NextTyped, NextSentInv
<1>3. SentInv => SentIsThere
  BY DEF SentInv, PairInv, SentHeld, CountedSent, SentIsThere, Present
<1> QED
  BY <1>1, <1>2, <1>3, PTL DEF Spec

-----------------------------------------------------------------------------
(***************************************************************************)
(* A channel that counts as read to its end was met.  The page that is its *)
(* end is empty and was handed from the place that the device keeps still: *)
(* when it was handed, everything that the relay had lay at or before that *)
(* place, so the device held it (NonePassed), and from then on the device  *)
(* can only come to hold what is later.                                    *)
(***************************************************************************)
Going == Dropping \cup {"sweep"}
NothingGoes == \A what \in Going : left[what] = 0

(* The page that the turn has is the end of the channel, once it is taken. *)
AtEnd(d, r) ==
  turn[d][r].at = "page" /\ ~Stale(d, r) /\ Present(turn[d][r].page.rows) = {}
ReadToEnd(d, r) == r \in fetched[d] \/ AtEnd(d, r)

OwedThere(d, r) ==
  \A k \in Keys : /\ owed[d][r][k] <= relay[r][k].rev
                  /\ owed[d][r][k] > 0 => AuthorOf(k) \in counts[d]

MetAt(d, r) ==
  holds[d] /\ ReadToEnd(d, r) =>
    \A k \in Keys : owed[d][r][k] > 0 /\ relay[r][k].rev = owed[d][r][k]
                      => store[d][k].rev >= owed[d][r][k]

NotHeldUnread(d) == ~holds[d] => fetched[d] = {}

MetInv ==
  /\ NothingGoes
  /\ \A d \in Devices : NotHeldUnread(d)
  /\ \A d \in Devices, r \in Relays : OwedThere(d, r) /\ MetAt(d, r)

(* What is owed stays owed, and met once it is, while the device is not    *)
(* read to the end anew.                                                   *)
LEMMA MetStays ==
  ASSUME TInv, TInv', NEW d \in Devices, NEW r \in Relays, OwedThere(d, r), MetAt(d, r),
         \A k \in Keys : relay'[r][k].rev >= relay[r][k].rev,
         owed'[d] = owed[d], counts[d] \subseteq counts'[d],
         holds'[d] => holds[d] /\ \A k \in Keys : store'[d][k].rev >= store[d][k].rev,
         holds'[d] /\ ReadToEnd(d, r)' => ReadToEnd(d, r)
  PROVE  OwedThere(d, r)' /\ MetAt(d, r)'
<1>1. \A k \in Keys : /\ relay[r][k].rev \in Nat /\ relay'[r][k].rev \in Nat
                      /\ store[d][k].rev \in Nat /\ store'[d][k].rev \in Nat
                      /\ owed[d][r][k] \in Nat
  BY DEF TInv, TypeOK, Rows
<1>2. OwedThere(d, r)'
  BY <1>1 DEF OwedThere
<1>3. ASSUME holds'[d], ReadToEnd(d, r)', NEW k \in Keys, owed'[d][r][k] > 0,
             relay'[r][k].rev = owed'[d][r][k]
      PROVE  store'[d][k].rev >= owed'[d][r][k]
  <2>1. owed[d][r][k] > 0 /\ relay[r][k].rev = owed[d][r][k]
    BY <1>1, <1>3 DEF OwedThere
  <2>2. store[d][k].rev >= owed[d][r][k]
    BY <1>3, <2>1 DEF MetAt
  <2> QED
    BY <1>1, <1>3, <2>2
<1> QED
  BY <1>2, <1>3 DEF MetAt

(* The name is stopped, and held again: nothing counts as read.            *)
LEMMA DeviceMet ==
  ASSUME IInv, TInv', MetInv, NEW d \in Devices, OfTheDevice(d),
         \A s \in Slots : ~SweepDeletes(d, s)
  PROVE  \A x \in Devices : NotHeldUnread(x)' /\ \A r \in Relays : OwedThere(x, r)' /\ MetAt(x, r)'
<1> USE DEF IInv, MetInv
<1>1. relay' = relay /\ \A r \in Relays, k \in Keys : relay'[r][k].rev >= relay[r][k].rev
  <2>1. relay' = relay
    BY DEF OfTheDevice, Write, SweepDeletes, ComeToCount, Stop, HoldName, Restart
  <2>2. \A r \in Relays, k \in Keys : relay[r][k].rev \in Nat
    BY DEF TInv, TypeOK, Rows
  <2> QED
    BY <2>1, <2>2
<1>2. \A x \in Devices, k \in Keys : store[x][k].rev \in Nat
  BY DEF TInv, TypeOK, Rows
<1>3. ASSUME NEW x \in Devices, x # d
      PROVE  NotHeldUnread(x)' /\ \A r \in Relays : OwedThere(x, r)' /\ MetAt(x, r)'
  <2>1. /\ kept'[x] = kept[x] /\ holds'[x] = holds[x] /\ counts'[x] = counts[x]
        /\ store'[x] = store[x] /\ turn'[x] = turn[x]
        /\ fetched'[x] = fetched[x] /\ owed'[x] = owed[x]
    BY <1>3, OthersLeftAlone
  <2>2. \A r \in Relays : ReadToEnd(x, r)' => ReadToEnd(x, r)
    BY <2>1 DEF ReadToEnd, AtEnd, Stale
  <2>3. \A k \in Keys : store'[x][k].rev >= store[x][k].rev
    BY <1>2, <2>1
  <2>4. ASSUME NEW r \in Relays PROVE OwedThere(x, r)' /\ MetAt(x, r)'
    BY <1>1, <2>1, <2>2, <2>3, MetStays
  <2> QED
    BY <2>1, <2>4 DEF NotHeldUnread
<1>4. ASSUME NEW s \in Slots, NEW delete \in Deletes, Write(d, s, delete)
      PROVE  NotHeldUnread(d)' /\ \A r \in Relays : OwedThere(d, r)' /\ MetAt(d, r)'
  <2>1. UNCHANGED <<counts, holds, kept, fetched, turn, owed>>
    BY <1>4 DEF Write
  <2>2. \A k \in Keys : store'[d][k].rev >= store[d][k].rev
    <3>1. PICK rev \in 1 .. TopRev :
            /\ \A a \in Devices : store[d][<<s, a>>].rev < rev
            /\ store' = [store EXCEPT ![d][<<s, d>>] =
                 [rev |-> rev, delete |-> delete, place |-> seqs[d] + 1]]
      BY <1>4 DEF Write
    <3> QED
      BY <1>2, <3>1 DEF TInv, TypeOK
  <2>3. ASSUME NEW r \in Relays PROVE OwedThere(d, r)' /\ MetAt(d, r)'
    <3>1. ReadToEnd(d, r)' => ReadToEnd(d, r)
      BY <2>1 DEF ReadToEnd, AtEnd, Stale
    <3> QED
      BY <1>1, <2>1, <2>2, <3>1, MetStays
  <2> QED
    BY <2>1, <2>3 DEF NotHeldUnread
<1>5. ASSUME NEW a \in Devices, ComeToCount(d, a)
      PROVE  NotHeldUnread(d)' /\ \A r \in Relays : OwedThere(d, r)' /\ MetAt(d, r)'
  <2>1. UNCHANGED <<store, holds, fetched, turn, owed>> /\ counts[d] \subseteq counts'[d]
    BY <1>5 DEF ComeToCount, TInv, TypeOK
  <2>2. \A r \in Relays : kept'[d][r].at = NoPlace
    BY <1>5 DEF ComeToCount, TInv, TypeOK
  <2>3. ASSUME NEW r \in Relays PROVE OwedThere(d, r)' /\ MetAt(d, r)'
    <3>1. ReadToEnd(d, r)' => ReadToEnd(d, r)
      BY <2>1, <2>2 DEF ReadToEnd, AtEnd, Stale, PlaceInv, Marked, Asking
    <3> QED
      BY <1>1, <1>2, <2>1, <3>1, MetStays
  <2> QED
    BY <2>1, <2>3 DEF NotHeldUnread
<1>6. ASSUME Stop(d)
      PROVE  NotHeldUnread(d)' /\ \A r \in Relays : OwedThere(d, r)' /\ MetAt(d, r)'
  <2>1. ~holds'[d] /\ fetched'[d] = {} /\ UNCHANGED <<counts, owed>>
    BY <1>6 DEF Stop, FetchedAfterStop, TInv, TypeOK
  <2> QED
    BY <1>1, <2>1, MetStays DEF NotHeldUnread
<1>7. ASSUME HoldName(d)
      PROVE  NotHeldUnread(d)' /\ \A r \in Relays : OwedThere(d, r)' /\ MetAt(d, r)'
  <2>1. ~holds[d] /\ holds'[d] /\ UNCHANGED <<counts, fetched, turn>>
    BY <1>7 DEF HoldName, TInv, TypeOK
  <2>2. \A r \in Relays, k \in Keys :
          owed'[d][r][k] = IF AuthorOf(k) \in counts[d] THEN relay[r][k].rev ELSE 0
    BY <1>7 DEF HoldName, TInv, TypeOK
  <2>3. ASSUME NEW r \in Relays PROVE OwedThere(d, r)' /\ ~ReadToEnd(d, r)'
    <3>1. \A k \in Keys : relay[r][k].rev \in Nat
      BY DEF TInv, TypeOK, Rows
    <3>2. OwedThere(d, r)'
      BY <1>1, <2>1, <2>2, <3>1 DEF OwedThere
    <3>3. fetched[d] = {} /\ turn[d][r].at = "idle"
      BY <2>1 DEF NotHeldUnread, PlaceInv, Marked, Idle, TurnAt
    <3> QED
      BY <2>1, <3>2, <3>3 DEF ReadToEnd, AtEnd
  <2> QED
    BY <2>1, <2>3 DEF NotHeldUnread, MetAt
<1>8. ASSUME Restart(d)
      PROVE  NotHeldUnread(d)' /\ \A r \in Relays : OwedThere(d, r)' /\ MetAt(d, r)'
  <2>1. /\ UNCHANGED <<counts, holds, store, owed>> /\ fetched'[d] = {}
        /\ \A r \in Relays : turn'[d][r].at = "idle"
    BY <1>8 DEF Restart, Idle, TurnAt, TInv, TypeOK
  <2>2. \A r \in Relays : ~ReadToEnd(d, r)'
    BY <2>1 DEF ReadToEnd, AtEnd
  <2> QED
    BY <1>1, <1>2, <2>1, <2>2, MetStays DEF NotHeldUnread
<1>9. NotHeldUnread(d)' /\ \A r \in Relays : OwedThere(d, r)' /\ MetAt(d, r)'
  BY <1>4, <1>5, <1>6, <1>7, <1>8 DEF OfTheDevice
<1> QED
  BY <1>3, <1>9

(* A page that is the end is handed where all that the relay has is held. *)
LEMMA HandedEnd ==
  ASSUME IInv, TInv', NEW d \in Devices, NEW r \in Relays, HandPage(d, r)
  PROVE  \A k \in Keys : holds[d] /\ AtEnd(d, r)' /\ AuthorOf(k) \in counts[d]
           => store[d][k].rev >= relay[r][k].rev
<1> USE DEF IInv
<1> DEFINE t == turn[d][r]
           after == IF mark[r] = t.from.mark THEN t.from.place ELSE 0
           places == {relay[r][k].place : k \in Present(relay[r])}
<1>1. t.at = "asked" /\ UNCHANGED <<relay, mark, marks, store, counts, holds, fetched, kept>>
  BY DEF HandPage, dvars
<1>2. /\ turn'[d][r].from = t.from
      /\ \/ mark[r] = 0
         \/ \E next \in {after} \cup {p \in places : p > after} :
              /\ next = after => \A p \in places : p <= after
              /\ turn'[d][r].page.rows = [k \in Keys |-> IF k \in PageAfter(r, after, next)
                                                         THEN relay[r][k] ELSE NoRow]
  <2>1. turn \in [Devices -> [Relays -> TurnsAt]] /\ t \in TurnsAt
    BY DEF TInv, TypeOK, TurnsAt, Pages, Entries
  <2>2. PICK page : turn' = [turn EXCEPT ![d][r].at = "page", ![d][r].page = page]
    BY DEF HandPage
  <2>3. turn'[d][r].from = t.from /\ turn'[d][r].page = page
    BY <2>1, <2>2 DEF TurnsAt
  <2>4. CASE mark[r] = 0
    BY <2>3, <2>4
  <2>5. CASE mark[r] # 0
    <3>1. PICK next \in {after} \cup {p \in places : p > after} :
            /\ next = after => \A p \in places : p <= after
            /\ turn' = [turn EXCEPT ![d][r].at = "page", ![d][r].page =
                 [mark |-> mark[r], next |-> next, rows |->
                    [k \in Keys |-> IF k \in PageAfter(r, after, next)
                                    THEN relay[r][k] ELSE NoRow]]]
      BY <2>5 DEF HandPage
    <3> DEFINE rows == [k \in Keys |-> IF k \in PageAfter(r, after, next)
                                       THEN relay[r][k] ELSE NoRow]
    <3> HIDE DEF rows, after, places
    <3>2. turn'[d][r] = [t EXCEPT !.at = "page",
                                  !.page = [mark |-> mark[r], next |-> next, rows |-> rows]]
      BY <2>1, <3>1 DEF rows
    <3>3. turn'[d][r].page.rows = rows
      BY <2>1, <3>2 DEF TurnsAt
    <3> QED
      BY <2>3, <3>1, <3>3 DEF rows
  <2> QED
    BY <2>4, <2>5
<1>3. /\ \A k \in Keys : relay[r][k].rev \in Nat /\ relay[r][k].place \in Nat
      /\ \A k \in Keys : store[d][k].rev \in Nat
      /\ t.from.place \in Nat
  BY DEF TInv, TypeOK, Rows, Places
<1>5. ASSUME holds[d], AtEnd(d, r)', NEW k \in Keys, AuthorOf(k) \in counts[d],
             relay[r][k].rev > 0
      PROVE  store[d][k].rev >= relay[r][k].rev
  <2>1. k \in Present(relay[r]) /\ AuthorOf(k) \in counts[d] /\ mark[r] # 0
    BY <1>3, <1>5 DEF Present, Held
  <2>2. PICK next \in {after} \cup {p \in places : p > after} :
          /\ next = after => \A p \in places : p <= after
          /\ turn'[d][r].page.rows = [j \in Keys |-> IF j \in PageAfter(r, after, next)
                                                     THEN relay[r][j] ELSE NoRow]
    BY <1>2, <2>1
  <2>3. PageAfter(r, after, next) = {}
    <3> SUFFICES ASSUME NEW j \in PageAfter(r, after, next) PROVE FALSE
      OBVIOUS
    <3>1. j \in Keys /\ relay[r][j].rev > 0
      BY DEF PageAfter, Present
    <3> HIDE DEF after, places
    <3>2. turn'[d][r].page.rows[j] = relay[r][j]
      BY <2>2, <3>1
    <3> QED
      BY <1>5, <3>1, <3>2 DEF AtEnd, Present
  <2>4. next = after
    <3> SUFFICES ASSUME next \in places, next > after PROVE FALSE
      OBVIOUS
    <3>1. PICK j \in Present(relay[r]) : relay[r][j].place = next
      OBVIOUS
    <3>2. j \in PageAfter(r, after, next)
      BY <1>3, <3>1 DEF PageAfter, Present
    <3> QED
      BY <2>3, <3>2
  <2>5. relay[r][k].place <= after
    BY <2>1, <2>2, <2>4
  <2>6. CASE mark[r] = t.from.mark
    <3>1. kept[d][r].at = t.from
      BY <1>1, <1>2, <1>5 DEF AtEnd, Stale
    <3>2. PassedOver(d, r, k)
      BY <1>3, <1>5, <2>5, <2>6, <3>1 DEF PassedOver
    <3> QED
      BY <1>5, <2>1, <3>2 DEF PlaceInv, NonePassed, Holds
  <2>7. CASE mark[r] # t.from.mark
    BY <1>3, <2>1, <2>5, <2>7 DEF Held
  <2> QED
    BY <2>6, <2>7
<1> QED
  BY <1>3, <1>5

LEMMA HandedMet ==
  ASSUME IInv, TInv', NEW d \in Devices, NEW r \in Relays, OwedThere(d, r), MetAt(d, r),
         HandPage(d, r)
  PROVE  OwedThere(d, r)' /\ MetAt(d, r)'
<1>1. UNCHANGED <<relay, store, counts, holds, fetched, owed>>
  BY DEF HandPage, dvars
<1>2. OwedThere(d, r)'
  BY <1>1 DEF OwedThere
<1>3. ASSUME holds[d], AtEnd(d, r)', NEW k \in Keys, owed[d][r][k] > 0,
             relay[r][k].rev = owed[d][r][k]
      PROVE  store[d][k].rev >= owed[d][r][k]
  <2>1. AuthorOf(k) \in counts[d]
    BY <1>3 DEF OwedThere
  <2> QED
    BY <1>3, <2>1, HandedEnd
<1>4. MetAt(d, r)'
  <2> SUFFICES ASSUME holds'[d], ReadToEnd(d, r)', NEW k \in Keys, owed'[d][r][k] > 0,
                      relay'[r][k].rev = owed'[d][r][k]
               PROVE  store'[d][k].rev >= owed'[d][r][k]
    BY DEF MetAt
  <2>1. CASE r \in fetched[d]
    BY <1>1, <2>1 DEF MetAt, ReadToEnd
  <2>2. CASE AtEnd(d, r)'
    BY <1>1, <1>3, <2>2
  <2> QED
    BY <1>1, <2>1, <2>2 DEF ReadToEnd
<1> QED
  BY <1>2, <1>4

(* A relay takes only what is newer than what it has.                      *)
LEMMA TakesNewer ==
  ASSUME TInv, NEW d \in Devices, NEW r \in Relays, RelayTakes(d, r)
  PROVE  \A q \in Relays, k \in Keys : relay'[q][k].rev >= relay[q][k].rev
<1> DEFINE e == turn[d][r].entry
           row == [e.row EXCEPT !.place = Highest(relay[r]) + 1]
<1>1. /\ e.key \in Keys /\ e.row \in Rows /\ relay \in [Relays -> [Keys -> Rows]]
      /\ \A q \in Relays, k \in Keys : relay[q][k].rev \in Nat
  BY DEF TInv, TypeOK, Rows
<1>2. row.rev = e.row.rev /\ e.row.rev \in Nat
  BY <1>1 DEF Rows
<1>3. \/ relay' = relay
      \/ /\ e.row.rev > relay[r][e.key].rev
         /\ relay' = [relay EXCEPT ![r][e.key] = row]
  BY DEF RelayTakes
<1> HIDE DEF e, row
<1> QED
  BY <1>1, <1>2, <1>3

(* An idle turn has nothing on its way.                                    *)
LEMMA NothingOnItsWay ==
  ASSUME NEW at, NEW again, NEW k \in Keys
  PROVE  /\ TurnAt(at, again).at = at /\ TurnAt(at, again).page.rows[k].rev = 0
         /\ Idle.at = "idle" /\ Idle.page.rows[k].rev = 0
BY DEF Idle, TurnAt, NoPage, NoRows, NoRow

(* Each step of a turn but four begins it anew, with nothing on its way.   *)
Anew(d, r) ==
  \/ \E at \in {"no", "pull", "push"}, again \in BOOLEAN : Begin(d, r, at, again)
  \/ NotHeldAt(d, r) \/ TakePage(d, r) \/ TakeAnswer(d, r) \/ End(d, r)
  \/ LeavePull(d, r) \/ Fail(d, r)

LEMMA AnewIs ==
  ASSUME NEW d \in Devices, NEW r \in Relays, Anew(d, r)
  PROVE  \E at \in {"idle", "no", "pull", "push"} : \E again :
            turn' = [turn EXCEPT ![d][r] = TurnAt(at, again)]
<1>1. CASE \E at \in {"no", "pull", "push"}, again \in BOOLEAN : Begin(d, r, at, again)
  BY <1>1, Zenon DEF Begin, Turns
<1>2. CASE NotHeldAt(d, r)
  BY <1>2, Zenon DEF NotHeldAt, Turns
<1>3. CASE TakePage(d, r)
  BY <1>3, Zenon DEF TakePage, Turns
<1>4. CASE TakeAnswer(d, r)
  BY <1>4, Zenon DEF TakeAnswer, Turns
<1>5. CASE End(d, r) \/ Fail(d, r)
  BY <1>5, Zenon DEF End, Fail, Idle
<1>6. CASE LeavePull(d, r)
  BY <1>6, Zenon DEF LeavePull, Turns
<1> QED
  BY <1>1, <1>2, <1>3, <1>4, <1>5, <1>6 DEF Anew

LEMMA NothingAnew ==
  ASSUME TInv, NEW d \in Devices, NEW r \in Relays, Anew(d, r), NEW k \in Keys
  PROVE  /\ turn'[d][r].at \notin {"page", "sent"}
         /\ turn'[d][r].page.rows[k].rev = 0
<1>0. PICK at \in {"idle", "no", "pull", "push"} :
        \E again : turn' = [turn EXCEPT ![d][r] = TurnAt(at, again)]
  BY AnewIs
<1>1. PICK again : turn' = [turn EXCEPT ![d][r] = TurnAt(at, again)]
  BY <1>0
<1>2. turn'[d][r] = TurnAt(at, again)
  BY <1>1 DEF TInv, TypeOK
<1> QED
  BY <1>2, NothingOnItsWay

(* What is asked, sent and answered leaves the page.                       *)
LEMMA PageLeft ==
  ASSUME TInv, NEW d \in Devices, NEW r \in Relays,
         AskPage(d, r) \/ Send(d, r) \/ RelayTakes(d, r)
  PROVE  /\ turn'[d][r].page = turn[d][r].page /\ turn'[d][r].at # "page"
         /\ turn'[d][r].at = "sent" => Send(d, r)
<1>1. turn \in [Devices -> [Relays -> TurnsAt]] /\ turn[d][r] \in TurnsAt
  BY DEF TInv, TypeOK, TurnsAt, Pages, Entries
<1>2. CASE AskPage(d, r)
  <2>1. turn' = [turn EXCEPT ![d][r].at = "asked", ![d][r].from = kept[d][r].at]
    BY <1>2 DEF AskPage
  <2> QED
    BY <1>1, <2>1 DEF TurnsAt
<1>3. CASE Send(d, r)
  <2>1. PICK e : turn' = [turn EXCEPT ![d][r].at = "sent", ![d][r].entry = e]
    BY <1>3 DEF Send
  <2> QED
    BY <1>1, <1>3, <2>1 DEF TurnsAt
<1>4. CASE RelayTakes(d, r)
  <2>1. PICK room : turn' = [turn EXCEPT ![d][r].at = "answered", ![d][r].entry.room = room]
    BY <1>4 DEF RelayTakes
  <2> QED
    BY <1>1, <2>1 DEF TurnsAt
<1> QED
  BY <1>2, <1>3, <1>4

(* Only the page that a relay hands is a page of the turn's next state.    *)
LEMMA NoPageElse ==
  ASSUME TInv, NEW d \in Devices, NEW r \in Relays, ~HandPage(d, r),
         \/ \E at \in {"no", "pull", "push"}, again \in BOOLEAN : Begin(d, r, at, again)
         \/ TurnStep(d, r) \/ LeavePull(d, r) \/ Fail(d, r)
  PROVE  turn'[d][r].at # "page"
<1>1. Anew(d, r) \/ AskPage(d, r) \/ Send(d, r) \/ RelayTakes(d, r)
  BY DEF TurnStep, Anew
<1> QED
  BY <1>1, KeysFinite, NothingAnew, PageLeft

(* What a turn at one relay leaves to the others, and to other devices.    *)
LEMMA TurnMet ==
  ASSUME IInv, TInv', MetInv, NEW d \in Devices, NEW r \in Relays,
         \/ \E at \in {"no", "pull", "push"}, again \in BOOLEAN : Begin(d, r, at, again)
         \/ TurnStep(d, r) \/ LeavePull(d, r) \/ Fail(d, r)
  PROVE  \A x \in Devices : NotHeldUnread(x)' /\ \A q \in Relays : OwedThere(x, q)' /\ MetAt(x, q)'
<1> USE DEF IInv, MetInv
<1>1. UNCHANGED <<counts, holds, owed>>
  BY DEF Begin, LeavePull, Fail, TurnStep, NotHeldAt, AskPage, HandPage, TakePage, Send,
    RelayTakes, TakeAnswer, End, dvars
<1>2. \A q \in Relays, k \in Keys : relay'[q][k].rev >= relay[q][k].rev
  <2>1. \A q \in Relays, k \in Keys : relay[q][k].rev \in Nat
    BY DEF TInv, TypeOK, Rows
  <2>2. CASE RelayTakes(d, r)
    BY <2>2, TakesNewer
  <2>3. CASE relay' = relay
    BY <2>1, <2>3
  <2> QED
    BY <2>2, <2>3 DEF Begin, LeavePull, Fail, TurnStep, NotHeldAt, AskPage, HandPage, TakePage,
      Send, TakeAnswer, End
<1>3. \A x \in Devices, k \in Keys : store'[x][k].rev >= store[x][k].rev
  <2>1. \A x \in Devices, k \in Keys : store[x][k].rev \in Nat
    BY DEF TInv, TypeOK, Rows
  <2>2. CASE TakePage(d, r)
    BY <2>2, TakenHeld
  <2>3. CASE store' = store
    BY <2>1, <2>3
  <2> QED
    BY <2>2, <2>3 DEF Begin, LeavePull, Fail, TurnStep, NotHeldAt, AskPage, HandPage, RelayTakes,
      Send, TakeAnswer, End, dvars
<1>4. \A x \in Devices, q \in Relays : x # d \/ q # r => turn'[x][q] = turn[x][q] /\ kept'[x][q] = kept[x][q]
  <2>1. CASE TurnStep(d, r)
    BY <2>1, OtherTurnsStay
  <2>2. CASE ~TurnStep(d, r)
    <3>1. PICK t : turn' = [turn EXCEPT ![d][r] = t]
      BY <2>2 DEF Begin, LeavePull, Fail, Turns
    <3>2. kept' = kept
      BY <2>2 DEF Begin, LeavePull, Fail
    <3> QED
      BY <3>1, <3>2 DEF TInv, TypeOK
  <2> QED
    BY <2>1, <2>2
<1>5. /\ \A x \in Devices : ~holds[x] => fetched'[x] = fetched[x]
      /\ \A x \in Devices, q \in Relays :
           q \in fetched'[x] => q \in fetched[x] \/ (x = d /\ q = r /\ AtEnd(d, r))
  <2>1. CASE TakePage(d, r)
    <3>1. fetched' = IF AtEnd(d, r) THEN [fetched EXCEPT ![d] = @ \cup {r}] ELSE fetched
      BY <2>1 DEF TakePage, AtEnd
    <3>2. holds[d]
      <4>1. turn[d][r].at = "page" /\ Idle.at = "idle"
        BY <2>1 DEF TakePage, Idle, TurnAt
      <4> QED
        BY <4>1 DEF PlaceInv, Marked
    <3> QED
      BY <3>1, <3>2 DEF TInv, TypeOK
  <2>2. CASE fetched' = fetched
    BY <2>2
  <2> QED
    BY <2>1, <2>2 DEF Begin, LeavePull, Fail, TurnStep, NotHeldAt, AskPage, HandPage, RelayTakes,
      Send, TakeAnswer, End, dvars
<1>6. \A x \in Devices : NotHeldUnread(x)'
  BY <1>1, <1>5 DEF NotHeldUnread
<1>7. ASSUME NEW x \in Devices, NEW q \in Relays, ReadToEnd(x, q)' => ReadToEnd(x, q)
      PROVE  OwedThere(x, q)' /\ MetAt(x, q)'
  BY <1>1, <1>2, <1>3, <1>7, MetStays
<1>8. ASSUME NEW x \in Devices, NEW q \in Relays, x # d \/ q # r
      PROVE  ReadToEnd(x, q)' => ReadToEnd(x, q)
  BY <1>4, <1>5, <1>8 DEF ReadToEnd, AtEnd, Stale
<1>9. OwedThere(d, r)' /\ MetAt(d, r)'
  <2>1. CASE HandPage(d, r)
    BY <2>1, HandedMet
  <2>2. CASE ~HandPage(d, r)
    <3>1. turn'[d][r].at # "page"
      BY <2>2, NoPageElse
    <3> QED
      BY <1>5, <1>7, <3>1 DEF ReadToEnd, AtEnd
  <2> QED
    BY <2>1, <2>2
<1>10. \A x \in Devices, q \in Relays : OwedThere(x, q)' /\ MetAt(x, q)'
  BY <1>7, <1>8, <1>9
<1> QED
  BY <1>6, <1>10

(* What may not go does not.                                               *)
LEMMA NothingGoesStays ==
  ASSUME TInv, NothingGoes, [Next]_vars
  PROVE  /\ NothingGoes'
         /\ \A r \in Relays : ~DropChannel(r) /\ ~RelaySweep(r)
         /\ \A d \in Devices, s \in Slots : ~SweepDeletes(d, s)
<1>1. /\ Going \in SUBSET Bounded
      /\ "drop" \in Going /\ "relay sweep" \in Going /\ "sweep" \in Going
  BY Zenon DEF Going, Dropping, Bounded
<1>2. \A what \in Going : left'[what] = 0 /\ ~Spend(what)
  BY <1>1, NoneLeft DEF NothingGoes
<1>3. /\ \A r \in Relays : ~DropChannel(r) /\ ~RelaySweep(r)
      /\ \A d \in Devices, s \in Slots : ~SweepDeletes(d, s)
  BY <1>1, <1>2, Zenon DEF DropChannel, RelaySweep, SweepDeletes
<1> QED
  BY <1>2, <1>3 DEF NothingGoes

LEMMA NextMet == ~StopsInPass /\ IInv /\ MetInv /\ [Next]_vars => MetInv'
<1> SUFFICES ASSUME ~StopsInPass, IInv, MetInv, [Next]_vars PROVE MetInv'
  OBVIOUS
<1>1. TInv /\ TInv'
  BY NextTyped DEF IInv
<1>2. NothingGoes'
  BY <1>1, NothingGoesStays DEF MetInv
<1>3. /\ \A r \in Relays : ~DropChannel(r) /\ ~RelaySweep(r)
      /\ \A d \in Devices, s \in Slots : ~SweepDeletes(d, s)
  BY <1>1, NothingGoesStays DEF MetInv
<1> DEFINE Rest ==
      \A x \in Devices : NotHeldUnread(x)' /\ \A r \in Relays : OwedThere(x, r)' /\ MetAt(x, r)'
<1>4. ASSUME UNCHANGED vars PROVE Rest
  BY <1>4 DEF vars, MetInv, NotHeldUnread, OwedThere, MetAt, ReadToEnd, AtEnd, Stale
<1>5. ASSUME NEW d \in Devices, OfTheDevice(d) PROVE Rest
  BY <1>1, <1>3, <1>5, DeviceMet
<1>6. ASSUME NEW d \in Devices, NEW r \in Relays,
             \/ \E at \in {"no", "pull", "push"}, again \in BOOLEAN : Begin(d, r, at, again)
             \/ TurnStep(d, r) \/ LeavePull(d, r) \/ Fail(d, r)
      PROVE  Rest
  BY <1>1, <1>6, TurnMet
<1> HIDE DEF Rest
<1>7. Rest
  BY <1>3, <1>4, <1>5, <1>6 DEF Next
<1> QED
  BY <1>2, <1>7 DEF MetInv, Rest

LEMMA InitMet ==
  ASSUME \A b \in Budgets, what \in Going : b[what] = 0, Init
  PROVE  MetInv
<1>1. NothingGoes
  <2>1. left \in Budgets
    BY DEF Init
  <2> QED
    BY <2>1 DEF NothingGoes
<1>2. /\ holds = [d \in Devices |-> TRUE] /\ fetched = [d \in Devices |-> {}]
      /\ \A d \in Devices, r \in Relays : turn[d][r].at = "idle"
      /\ owed = [d \in Devices |-> [r \in Relays |-> [k \in Keys |-> 0]]]
  BY DEF Init, Idle, TurnAt
<1>3. \A r \in Relays, k \in Keys : relay[r][k].rev \in Nat
  BY InitTyped DEF TInv, TypeOK, Rows
<1>4. ASSUME NEW d \in Devices, NEW r \in Relays PROVE OwedThere(d, r) /\ MetAt(d, r)
  BY <1>2, <1>3 DEF OwedThere, MetAt, ReadToEnd, AtEnd
<1> QED
  BY <1>1, <1>2, <1>4 DEF MetInv, NotHeldUnread

(* Where nothing goes that was there (no relay drops or sweeps, no device  *)
(* sweeps its deletes) and no name is stopped while a pass goes through    *)
(* it, a channel that counts as read to its end was met: whatever replaces *)
(* what, whatever comes to count, is lost or restarted, stopped and held   *)
(* again (names.rs, stop).                                                 *)
THEOREM TheChannelIsMet ==
  ASSUME ~StopsInPass, \A b \in Budgets, what \in Going : b[what] = 0
  PROVE  Spec => []MeetsTheChannel
<1>1. Init => IInv /\ MetInv
  BY InitPlaced, InitMet
<1>2. IInv /\ MetInv /\ [Next]_vars => (IInv /\ MetInv)'
  BY NextPlaced, NextMet
<1>3. MetInv => MeetsTheChannel
  BY DEF MetInv, MetAt, ReadToEnd, MeetsTheChannel, Holds
<1> QED
  BY <1>1, <1>2, <1>3, PTL DEF Spec

-----------------------------------------------------------------------------
(***************************************************************************)
(* A revision is given once.  Where nothing goes that was there, what has  *)
(* an entry of an author has it from a relay, which has it or a later one  *)
(* still.  An author that read a relay to its end knew all it had then;    *)
(* what came to it since was at another, so that in the end what the       *)
(* author does not know is at a relay that it has still to read.           *)
(***************************************************************************)
(* The revisions of an author's entries, as the author knows them: nobody  *)
(* has one but by a relay, and what a relay that it read to the end has    *)
(* beyond its own store, one that is still to be read has too.             *)
Known(k, rev) == rev > 0 => \E r \in Relays : relay[r][k].rev >= rev

AuthorCounts(k) ==
  store[AuthorOf(k)][k].rev > 0 \/ (\E r \in Relays : relay[r][k].rev > 0)
    => AuthorOf(k) \in counts[AuthorOf(k)]

OthersKnow(k, e) == e # AuthorOf(k) => Known(k, store[e][k].rev)

PageKnown(k, e, r) == turn[e][r].page.rows[k].rev <= relay[r][k].rev

SentKnown(k, e, r) ==
  turn[e][r].at = "sent" /\ turn[e][r].entry.key = k =>
    IF e = AuthorOf(k) THEN turn[e][r].entry.row.rev <= store[e][k].rev
                       ELSE Known(k, turn[e][r].entry.row.rev)

EndKnown(k, r) ==
  LET a == AuthorOf(k) IN
  ReadToEnd(a, r) =>
    \/ relay[r][k].rev <= store[a][k].rev
    \/ \E q \in Relays : ~ReadToEnd(a, q) /\ relay[q][k].rev >= relay[r][k].rev

KeyInv(k) ==
  /\ AuthorCounts(k)
  /\ \A e \in Devices : OthersKnow(k, e)
  /\ \A e \in Devices, r \in Relays : PageKnown(k, e, r) /\ SentKnown(k, e, r)
  /\ \A r \in Relays : EndKnown(k, r)

OnceInv == \A k \in Keys : KeyInv(k)

(* While no relay is taken to, what is known stays so.                     *)
LEMMA KnownStays ==
  ASSUME TInv, TInv', NEW k \in Keys, NEW rev \in Nat, Known(k, rev),
         \A r \in Relays : relay'[r][k].rev >= relay[r][k].rev
  PROVE  rev > 0 => \E r \in Relays : relay'[r][k].rev >= rev
<1>1. \A r \in Relays : relay[r][k].rev \in Nat /\ relay'[r][k].rev \in Nat
  BY DEF TInv, TypeOK, Rows
<1> QED
  BY <1>1 DEF Known

LEMMA RevsTyped ==
  ASSUME TInv
  PROVE  \A k \in Keys : /\ AuthorOf(k) \in Devices
                         /\ \A r \in Relays : relay[r][k].rev \in Nat
                         /\ \A e \in Devices : store[e][k].rev \in Nat
                         /\ \A e \in Devices, r \in Relays :
                              /\ turn[e][r].page.rows[k].rev \in Nat
                              /\ turn[e][r].entry.row.rev \in Nat
<1>1. \A k \in Keys : AuthorOf(k) \in Devices
  BY KeyParts
<1> QED
  BY <1>1 DEF TInv, TypeOK, Rows

(* What is kept at the relays, with what the author reads to the end.      *)
LEMMA EndStays ==
  ASSUME TInv, TInv', NEW k \in Keys, \A r \in Relays : EndKnown(k, r),
         \A r \in Relays : relay'[r][k].rev = relay[r][k].rev,
         \A r \in Relays : ReadToEnd(AuthorOf(k), r)' =>
            /\ ReadToEnd(AuthorOf(k), r)
            /\ store'[AuthorOf(k)][k].rev >= store[AuthorOf(k)][k].rev
  PROVE  \A r \in Relays : EndKnown(k, r)'
<1> DEFINE a == AuthorOf(k)
<1>1. /\ a \in Devices /\ store[a][k].rev \in Nat /\ store'[a][k].rev \in Nat
      /\ \A r \in Relays : relay[r][k].rev \in Nat
  BY RevsTyped DEF TInv, TypeOK, Rows
<1> SUFFICES ASSUME NEW r \in Relays, ReadToEnd(a, r)'
             PROVE  \/ relay'[r][k].rev <= store'[a][k].rev
                    \/ \E q \in Relays : ~ReadToEnd(a, q)' /\ relay'[q][k].rev >= relay'[r][k].rev
  BY DEF EndKnown
<1>2. ReadToEnd(a, r) /\ store'[a][k].rev >= store[a][k].rev
  OBVIOUS
<1>3. CASE relay[r][k].rev <= store[a][k].rev
  BY <1>1, <1>2, <1>3
<1>4. ASSUME NEW q \in Relays, ~ReadToEnd(a, q), relay[q][k].rev >= relay[r][k].rev
      PROVE  ~ReadToEnd(a, q)' /\ relay'[q][k].rev >= relay'[r][k].rev
  BY <1>1, <1>4
<1> QED
  BY <1>2, <1>3, <1>4 DEF EndKnown


(* What a device does by itself leaves the relays, and brings no other     *)
(* device anything: a stop leaves it nothing that it read to the end.      *)
LEMMA DeviceLeaves ==
  ASSUME IInv, TInv', ~StopsInPass, NEW d \in Devices, OfTheDevice(d),
         \A s \in Slots : ~SweepDeletes(d, s)
  PROVE  /\ relay' = relay
         /\ \A q \in Relays : /\ turn'[d][q] = turn[d][q] \/ turn'[d][q] = Idle
                              /\ ReadToEnd(d, q)' => ReadToEnd(d, q)
         /\ \A k \in Keys :
              /\ AuthorOf(k) # d => store'[d][k].rev = store[d][k].rev \/ store'[d][k].rev = 0
              /\ AuthorOf(k) = d =>
                   \/ /\ store'[d][k].rev >= store[d][k].rev
                      /\ d \in counts'[d] \/ store'[d][k].rev = store[d][k].rev
                   \/ /\ store'[d][k].rev = 0
                      /\ \A q \in Relays : turn'[d][q] = Idle /\ ~ReadToEnd(d, q)'
         /\ counts[d] \subseteq counts'[d]
<1> USE DEF IInv
<1> DEFINE Turning == \A q \in Relays : /\ turn'[d][q] = turn[d][q] \/ turn'[d][q] = Idle
                                        /\ ReadToEnd(d, q)' => ReadToEnd(d, q)
           Knowing == \A k \in Keys :
              /\ AuthorOf(k) # d => store'[d][k].rev = store[d][k].rev \/ store'[d][k].rev = 0
              /\ AuthorOf(k) = d =>
                   \/ /\ store'[d][k].rev >= store[d][k].rev
                      /\ d \in counts'[d] \/ store'[d][k].rev = store[d][k].rev
                   \/ /\ store'[d][k].rev = 0
                      /\ \A q \in Relays : turn'[d][q] = Idle /\ ~ReadToEnd(d, q)'
           Counting == counts[d] \subseteq counts'[d]
<1>1. relay' = relay
  BY DEF OfTheDevice, Write, SweepDeletes, ComeToCount, Stop, HoldName, Restart
<1>2. \A k \in Keys : store[d][k].rev \in Nat
  BY RevsTyped
<1>3. Idle.at = "idle"
  BY DEF Idle, TurnAt
<1>4. UNCHANGED store => Knowing
  <2>1. UNCHANGED store => \A k \in Keys : /\ store'[d][k].rev = store[d][k].rev
                                          /\ store'[d][k].rev >= store[d][k].rev
    BY <1>2
  <2> QED
    BY <2>1
<1>5. ASSUME NEW s \in Slots, NEW delete \in Deletes, Write(d, s, delete)
      PROVE  Turning /\ Knowing /\ Counting
  <2>1. UNCHANGED <<counts, holds, kept, fetched, turn>> /\ d \in counts[d]
    BY <1>5 DEF Write
  <2>2. PICK rev \in 1 .. TopRev :
          /\ \A a \in Devices : store[d][<<s, a>>].rev < rev
          /\ store' = [store EXCEPT ![d][<<s, d>>] =
               [rev |-> rev, delete |-> delete, place |-> seqs[d] + 1]]
    BY <1>5 DEF Write
  <2>3. /\ \A k \in Keys : k # <<s, d>> => store'[d][k] = store[d][k]
        /\ store'[d][<<s, d>>].rev = rev /\ <<s, d>> \in Keys /\ AuthorOf(<<s, d>>) = d
    BY <2>2 DEF TInv, TypeOK, Keys, AuthorOf
  <2>4. rev \in Nat /\ store[d][<<s, d>>].rev \in Nat /\ store[d][<<s, d>>].rev < rev
    BY <1>2, <2>2, <2>3 DEF PagesAssumption
  <2>5. Knowing
    <3> SUFFICES ASSUME NEW k \in Keys
                 PROVE  /\ AuthorOf(k) # d => store'[d][k].rev = store[d][k].rev
                        /\ AuthorOf(k) = d => store'[d][k].rev >= store[d][k].rev
      BY <2>1
    <3>1. CASE k = <<s, d>>
      BY <2>3, <2>4, <3>1
    <3>2. CASE k # <<s, d>>
      BY <1>2, <2>3, <3>2
    <3> QED
      BY <3>1, <3>2
  <2>6. Turning
    BY <2>1 DEF ReadToEnd, AtEnd, Stale
  <2> QED
    BY <2>1, <2>5, <2>6
<1>6. ASSUME NEW a \in Devices, ComeToCount(d, a)
      PROVE  Turning /\ Knowing /\ Counting
  <2>1. UNCHANGED <<store, holds, fetched, turn>> /\ Counting
    BY <1>6 DEF ComeToCount, TInv, TypeOK
  <2>2. \A q \in Relays : kept'[d][q].at = NoPlace
    BY <1>6 DEF ComeToCount, TInv, TypeOK
  <2>3. Turning
    BY <2>1, <2>2 DEF ReadToEnd, AtEnd, Stale, PlaceInv, Marked, Asking
  <2> QED
    BY <1>4, <2>1, <2>3
<1>7. ASSUME Stop(d) PROVE Turning /\ Knowing /\ Counting
  <2>1. /\ UNCHANGED <<counts, turn>> /\ fetched'[d] = {} /\ store'[d] = NoRows
        /\ \A q \in Relays : turn[d][q] = Idle
    BY <1>7 DEF Stop, NoTurns, FetchedAfterStop, TInv, TypeOK
  <2>2. \A q \in Relays : turn'[d][q] = Idle /\ ~ReadToEnd(d, q)'
    BY <1>3, <2>1 DEF ReadToEnd, AtEnd
  <2>3. \A k \in Keys : store'[d][k].rev = 0
    BY <2>1 DEF NoRows, NoRow
  <2> QED
    BY <2>1, <2>2, <2>3
<1>8. ASSUME HoldName(d) PROVE Turning /\ Knowing /\ Counting
  <2>1. UNCHANGED <<store, counts, kept, fetched, turn>>
    BY <1>8 DEF HoldName
  <2> QED
    BY <1>4, <2>1 DEF ReadToEnd, AtEnd, Stale
<1>9. ASSUME Restart(d) PROVE Turning /\ Knowing /\ Counting
  <2>1. /\ UNCHANGED <<store, counts>> /\ fetched'[d] = {}
        /\ \A q \in Relays : turn'[d][q] = Idle
    BY <1>9 DEF Restart, TInv, TypeOK
  <2>2. \A q \in Relays : ~ReadToEnd(d, q)'
    BY <1>3, <2>1 DEF ReadToEnd, AtEnd
  <2> QED
    BY <1>4, <2>1, <2>2
<1> HIDE DEF Turning, Knowing, Counting
<1>10. Turning /\ Knowing /\ Counting
  BY <1>5, <1>6, <1>7, <1>8, <1>9 DEF OfTheDevice
<1> QED
  BY <1>1, <1>10 DEF Turning, Knowing, Counting

LEMMA DeviceOnce ==
  ASSUME IInv, TInv', ~StopsInPass, OnceInv, NEW d \in Devices, OfTheDevice(d),
         \A s \in Slots : ~SweepDeletes(d, s)
  PROVE  OnceInv'
<1> USE DEF IInv
<1> SUFFICES ASSUME NEW k \in Keys PROVE KeyInv(k)'
  BY DEF OnceInv
<1> DEFINE a == AuthorOf(k)
<1>1. KeyInv(k) /\ a \in Devices
  BY RevsTyped DEF OnceInv
<1>2. /\ \A r \in Relays : relay[r][k].rev \in Nat /\ relay'[r][k].rev = relay[r][k].rev
      /\ \A e \in Devices : store[e][k].rev \in Nat /\ store'[e][k].rev \in Nat
  <2>1. relay' = relay
    BY DeviceLeaves
  <2>2. \A e \in Devices : store'[e][k].rev \in Nat
    BY DEF TInv, TypeOK, Rows
  <2> QED
    BY <2>1, <2>2, RevsTyped
<1>3. \A x \in Devices \ {d} : /\ counts'[x] = counts[x] /\ store'[x] = store[x]
                               /\ turn'[x] = turn[x]
                               /\ \A q \in Relays : ReadToEnd(x, q)' => ReadToEnd(x, q)
  <2> SUFFICES ASSUME NEW x \in Devices, x # d
               PROVE  /\ counts'[x] = counts[x] /\ store'[x] = store[x]
                      /\ turn'[x] = turn[x]
                      /\ \A q \in Relays : ReadToEnd(x, q)' => ReadToEnd(x, q)
    OBVIOUS
  <2> QED
    BY OthersLeftAlone DEF ReadToEnd, AtEnd, Stale
<1>4. /\ counts[a] \subseteq counts'[a]
      /\ \A q \in Relays : ReadToEnd(a, q)' => ReadToEnd(a, q)
      /\ \/ /\ store'[a][k].rev >= store[a][k].rev
            /\ a \in counts'[a] \/ store'[a][k].rev = store[a][k].rev
         \/ /\ store'[a][k].rev = 0
            /\ \A q \in Relays : turn'[a][q] = Idle /\ ~ReadToEnd(a, q)'
  <2>1. CASE a = d
    BY <2>1, DeviceLeaves
  <2>2. CASE a # d
    BY <1>1, <1>2, <1>3, <2>2
  <2> QED
    BY <2>1, <2>2
<1>5. \A e \in Devices, q \in Relays : turn'[e][q] = turn[e][q] \/ turn'[e][q] = Idle
  <2> SUFFICES ASSUME NEW e \in Devices
               PROVE  \A q \in Relays : turn'[e][q] = turn[e][q] \/ turn'[e][q] = Idle
    OBVIOUS
  <2> QED
    BY <1>3, DeviceLeaves
<1>6. Idle.at = "idle" /\ Idle.page.rows[k].rev = 0
  BY NothingOnItsWay
<1>7. AuthorCounts(k)'
  BY <1>1, <1>2, <1>4 DEF KeyInv, AuthorCounts
<1>8. ASSUME NEW e \in Devices PROVE OthersKnow(k, e)'
  <2>1. e # a => store'[e][k].rev = store[e][k].rev \/ store'[e][k].rev = 0
    BY <1>3, DeviceLeaves
  <2> QED
    BY <1>1, <1>2, <2>1 DEF KeyInv, OthersKnow, Known
<1>9. ASSUME NEW e \in Devices, NEW r \in Relays PROVE PageKnown(k, e, r)' /\ SentKnown(k, e, r)'
  <2>1. PageKnown(k, e, r) /\ SentKnown(k, e, r) /\ turn[e][r].entry.row.rev \in Nat
    BY <1>1, RevsTyped DEF KeyInv
  <2>2. CASE turn'[e][r] = Idle
    BY <1>2, <1>6, <2>2 DEF PageKnown, SentKnown
  <2>3. CASE turn'[e][r] # Idle
    <3>1. turn'[e][r] = turn[e][r]
      BY <1>5, <2>3
    <3>2. e = a => store'[e][k].rev >= store[e][k].rev
      BY <1>4, <2>3
    <3> QED
      BY <1>1, <1>2, <2>1, <3>1, <3>2 DEF PageKnown, SentKnown, Known
  <2> QED
    BY <2>2, <2>3
<1>10. \A r \in Relays : EndKnown(k, r)'
  <2>1. \A r \in Relays : ReadToEnd(a, r)' =>
           ReadToEnd(a, r) /\ store'[a][k].rev >= store[a][k].rev
    BY <1>4
  <2> QED
    BY <1>1, <1>2, <2>1, EndStays DEF KeyInv
<1> QED
  BY <1>7, <1>8, <1>9, <1>10 DEF KeyInv

(* What the relay takes is newer than what it had, and all else stays.     *)
LEMMA TakesIs ==
  ASSUME TInv, NEW d \in Devices, NEW r \in Relays, RelayTakes(d, r)
  PROVE  \A q \in Relays, k \in Keys :
           \/ relay'[q][k].rev = relay[q][k].rev
           \/ /\ q = r /\ k = turn[d][r].entry.key
              /\ relay'[q][k].rev = turn[d][r].entry.row.rev
<1> DEFINE e == turn[d][r].entry
           row == [e.row EXCEPT !.place = Highest(relay[r]) + 1]
<1>1. e.key \in Keys /\ e.row \in Rows /\ relay \in [Relays -> [Keys -> Rows]]
  BY DEF TInv, TypeOK
<1>2. row.rev = e.row.rev
  BY <1>1 DEF Rows
<1>3. relay' = relay \/ relay' = [relay EXCEPT ![r][e.key] = row]
  BY DEF RelayTakes
<1> HIDE DEF row
<1> QED
  BY <1>1, <1>2, <1>3

(* What a device takes of a page is the page's.                            *)
LEMMA TakenIs ==
  ASSUME TInv, NEW d \in Devices, NEW r \in Relays, TakePage(d, r)
  PROVE  /\ \A e \in Devices \ {d} : store'[e] = store[e]
         /\ \A k \in Keys : store'[d][k].rev \in {store[d][k].rev, turn[d][r].page.rows[k].rev}
<1> DEFINE page == turn[d][r].page
<1>1. store' = [store EXCEPT ![d] = [k \in Keys |->
          IF k \in Taken(d, page)
          THEN [page.rows[k] EXCEPT !.place = SeqOf(d, page, k)] ELSE @[k]]]
  BY DEF TakePage
<1>2. \A k \in Keys : page.rows[k] \in Rows
  BY DEF TInv, TypeOK
<1>3. ASSUME NEW k \in Keys
      PROVE  store'[d][k] \in {store[d][k], [page.rows[k] EXCEPT !.place = SeqOf(d, page, k)]}
  BY <1>1 DEF TInv, TypeOK
<1>4. ASSUME NEW k \in Keys PROVE store'[d][k].rev \in {store[d][k].rev, page.rows[k].rev}
  BY <1>2, <1>3 DEF Rows
<1>5. \A e \in Devices \ {d} : store'[e] = store[e]
  BY <1>1 DEF TInv, TypeOK
<1> QED
  BY <1>4, <1>5

(* What a turn leaves: the other turns, and no relay is read to its end    *)
(* but by the page that the relay hands.                                   *)
LEMMA TurnLeaves ==
  ASSUME TInv, NEW d \in Devices, NEW r \in Relays,
         Anew(d, r) \/ AskPage(d, r) \/ HandPage(d, r) \/ Send(d, r) \/ RelayTakes(d, r)
  PROVE  /\ UNCHANGED <<counts, holds>>
         /\ \A x \in Devices, q \in Relays : x # d \/ q # r => turn'[x][q] = turn[x][q]
         /\ \A x \in Devices, q \in Relays :
              ReadToEnd(x, q)' => ReadToEnd(x, q) \/ (HandPage(d, r) /\ x = d /\ q = r)
         /\ ~RelayTakes(d, r) => relay' = relay
         /\ ~TakePage(d, r) => store' = store
<1>1. UNCHANGED <<counts, holds>>
  BY DEF Anew, Begin, LeavePull, Fail, NotHeldAt, AskPage, HandPage, TakePage, Send,
    RelayTakes, TakeAnswer, End, dvars
<1>2. ~RelayTakes(d, r) => relay' = relay
  BY DEF Anew, Begin, LeavePull, Fail, NotHeldAt, AskPage, HandPage, TakePage, Send,
    TakeAnswer, End
<1>3. ~TakePage(d, r) => store' = store /\ fetched' = fetched
  BY DEF Anew, Begin, LeavePull, Fail, NotHeldAt, AskPage, HandPage, RelayTakes, Send,
    TakeAnswer, End, dvars
<1>4. \A x \in Devices, q \in Relays : x # d \/ q # r => turn'[x][q] = turn[x][q] /\ kept'[x][q] = kept[x][q]
  <2>1. CASE TurnStep(d, r)
    BY <2>1, OtherTurnsStay
  <2>2. CASE ~TurnStep(d, r)
    <3>1. PICK t : turn' = [turn EXCEPT ![d][r] = t]
      BY <2>2 DEF Anew, Begin, LeavePull, Fail, Turns, TurnStep
    <3>2. kept' = kept
      BY <2>2 DEF Anew, Begin, LeavePull, Fail, TurnStep
    <3> QED
      BY <3>1, <3>2 DEF TInv, TypeOK
  <2> QED
    BY <2>1, <2>2
<1>5. \A x \in Devices, q \in Relays :
        q \in fetched'[x] => q \in fetched[x] \/ (x = d /\ q = r /\ AtEnd(d, r))
  <2>1. CASE TakePage(d, r)
    <3>1. fetched' = IF AtEnd(d, r) THEN [fetched EXCEPT ![d] = @ \cup {r}] ELSE fetched
      BY <2>1 DEF TakePage, AtEnd
    <3> QED
      BY <3>1 DEF TInv, TypeOK
  <2>2. CASE ~TakePage(d, r)
    BY <1>3, <2>2
  <2> QED
    BY <2>1, <2>2
<1>6. ~HandPage(d, r) => turn'[d][r].at # "page"
  BY KeysFinite, NothingAnew, PageLeft
<1>7. ASSUME NEW x \in Devices, NEW q \in Relays, ReadToEnd(x, q)'
      PROVE  ReadToEnd(x, q) \/ (HandPage(d, r) /\ x = d /\ q = r)
  <2>1. CASE x # d \/ q # r
    BY <1>4, <1>5, <1>7, <2>1 DEF ReadToEnd, AtEnd, Stale
  <2>2. CASE x = d /\ q = r
    BY <1>5, <1>6, <1>7, <2>2 DEF ReadToEnd, AtEnd
  <2> QED
    BY <2>1, <2>2
<1> QED
  BY <1>1, <1>2, <1>3, <1>4, <1>7

(* What a page has, as the relay hands it.                                 *)
LEMMA HandedKnown ==
  ASSUME TInv, NEW d \in Devices, NEW r \in Relays, HandPage(d, r), NEW k \in Keys
  PROVE  turn'[d][r].page.rows[k].rev <= relay[r][k].rev /\ turn'[d][r].at = "page"
<1> DEFINE after == IF mark[r] = turn[d][r].from.mark THEN turn[d][r].from.place ELSE 0
           handed(next) == [mark |-> mark[r], next |-> next, rows |->
             [j \in Keys |-> IF j \in PageAfter(r, after, next) THEN relay[r][j] ELSE NoRow]]
<1>1. PICK page : /\ turn' = [turn EXCEPT ![d][r].at = "page", ![d][r].page = page]
                  /\ page.rows[k] \in {NoRow, relay[r][k]}
  <2>1. CASE mark[r] = 0
    <3>1. NoPage.rows[k] = NoRow
      BY DEF NoPage, NoRows
    <3> QED
      BY <2>1, <3>1, HandPageIs
  <2>2. CASE mark[r] # 0
    <3>1. PICK next : turn' = [turn EXCEPT ![d][r].at = "page", ![d][r].page = handed(next)]
      BY <2>2 DEF HandPage
    <3>2. handed(next).rows[k] \in {NoRow, relay[r][k]}
      OBVIOUS
    <3> HIDE DEF handed
    <3> QED
      BY <3>1, <3>2
  <2> QED
    BY <2>1, <2>2
<1>2. turn'[d][r].page = page /\ turn'[d][r].at = "page"
  <2>1. turn \in [Devices -> [Relays -> TurnsAt]] /\ turn[d][r] \in TurnsAt
    BY DEF TInv, TypeOK, TurnsAt, Pages, Entries
  <2>2. turn'[d][r] = [turn[d][r] EXCEPT !.at = "page", !.page = page]
    BY <1>1, <2>1
  <2> QED
    BY <2>1, <2>2 DEF TurnsAt
<1>3. relay[r][k].rev \in Nat
  BY RevsTyped
<1> QED
  BY <1>1, <1>2, <1>3 DEF NoRow

LEMMA HandedOnce ==
  ASSUME IInv, TInv', NEW d \in Devices, NEW r \in Relays, HandPage(d, r),
         NEW k \in Keys, KeyInv(k)
  PROVE  KeyInv(k)'
<1> USE DEF IInv
<1> DEFINE a == AuthorOf(k)
<1>1. /\ a \in Devices
      /\ \A q \in Relays : relay[q][k].rev \in Nat
      /\ \A e \in Devices : store[e][k].rev \in Nat
  BY RevsTyped
<1>2. /\ UNCHANGED <<relay, store, counts, holds, fetched>>
      /\ \A x \in Devices, q \in Relays : x # d \/ q # r => turn'[x][q] = turn[x][q]
      /\ \A x \in Devices, q \in Relays :
           ReadToEnd(x, q)' => ReadToEnd(x, q) \/ (x = d /\ q = r)
  <2>1. UNCHANGED <<relay, store, counts, holds, fetched>>
    BY DEF HandPage, dvars
  <2> QED
    BY <2>1, TurnLeaves
<1>3. turn'[d][r].page.rows[k].rev <= relay[r][k].rev /\ turn'[d][r].at = "page"
  BY HandedKnown
<1>4. AuthorCounts(k)' /\ \A e \in Devices : OthersKnow(k, e)'
  BY <1>2 DEF KeyInv, AuthorCounts, OthersKnow, Known
<1>5. ASSUME NEW e \in Devices, NEW q \in Relays PROVE PageKnown(k, e, q)' /\ SentKnown(k, e, q)'
  <2>1. PageKnown(k, e, q) /\ SentKnown(k, e, q)
    BY DEF KeyInv
  <2> QED
    BY <1>2, <1>3, <2>1 DEF PageKnown, SentKnown, Known
<1>6. ASSUME a = d, AtEnd(d, r)' PROVE relay[r][k].rev <= store[a][k].rev
  <2>1. holds[d]
    <3>1. turn[d][r].at = "asked" /\ Idle.at = "idle"
      BY NothingOnItsWay DEF HandPage
    <3> QED
      BY <3>1 DEF PlaceInv, Marked
  <2>2. CASE relay[r][k].rev = 0
    BY <1>1, <2>2
  <2>3. CASE relay[r][k].rev > 0
    <3>1. AuthorOf(k) \in counts[d]
      BY <1>6, <2>3 DEF KeyInv, AuthorCounts
    <3> QED
      BY <1>1, <1>6, <2>1, <3>1, HandedEnd
  <2> QED
    BY <1>1, <2>2, <2>3
<1>7. ASSUME NEW q \in Relays, ReadToEnd(a, q)'
      PROVE  \/ relay[q][k].rev <= store[a][k].rev
             \/ \E p \in Relays : ~ReadToEnd(a, p)' /\ relay[p][k].rev >= relay[q][k].rev
  <2>1. CASE ~ReadToEnd(a, q)
    <3>1. a = d /\ q = r
      BY <1>1, <1>2, <1>7, <2>1
    <3>2. AtEnd(d, r)'
      BY <1>2, <1>7, <2>1, <3>1 DEF ReadToEnd
    <3> QED
      BY <1>6, <3>1, <3>2
  <2>2. CASE ReadToEnd(a, q)
    <3>1. \/ relay[q][k].rev <= store[a][k].rev
          \/ \E p \in Relays : ~ReadToEnd(a, p) /\ relay[p][k].rev >= relay[q][k].rev
      BY <2>2 DEF KeyInv, EndKnown
    <3>2. ASSUME NEW p \in Relays, ~ReadToEnd(a, p), relay[p][k].rev >= relay[q][k].rev,
                 ReadToEnd(a, p)'
          PROVE  relay[q][k].rev <= store[a][k].rev
      <4>1. a = d /\ p = r
        BY <1>1, <1>2, <3>2
      <4>2. AtEnd(d, r)'
        BY <1>2, <3>2, <4>1 DEF ReadToEnd
      <4> QED
        BY <1>1, <1>6, <3>2, <4>1, <4>2
    <3> QED
      BY <3>1, <3>2
  <2> QED
    BY <2>1, <2>2
<1>8. \A q \in Relays : EndKnown(k, q)'
  BY <1>2, <1>7 DEF EndKnown
<1> QED
  BY <1>4, <1>5, <1>8 DEF KeyInv

LEMMA TakesOnce ==
  ASSUME TInv, TInv', NEW d \in Devices, NEW r \in Relays, RelayTakes(d, r),
         NEW k \in Keys, KeyInv(k)
  PROVE  KeyInv(k)'
<1> DEFINE a == AuthorOf(k)
           e == turn[d][r].entry
<1>1. /\ a \in Devices /\ e.row.rev \in Nat
      /\ \A q \in Relays : relay[q][k].rev \in Nat
      /\ \A x \in Devices : store[x][k].rev \in Nat
      /\ \A x \in Devices, q \in Relays : /\ turn[x][q].entry.row.rev \in Nat
                                          /\ turn[x][q].page.rows[k].rev \in Nat
  BY RevsTyped
<1>2. /\ UNCHANGED <<store, counts>>
      /\ \A x \in Devices, q \in Relays : x # d \/ q # r => turn'[x][q] = turn[x][q]
      /\ \A x \in Devices, q \in Relays : ReadToEnd(x, q)' => ReadToEnd(x, q)
      /\ turn'[d][r].page = turn[d][r].page /\ turn'[d][r].at # "sent"
      /\ turn[d][r].at = "sent"
  <2>1. UNCHANGED <<store, counts>> /\ turn[d][r].at = "sent" /\ turn'[d][r].at = "answered"
    <3>1. PICK room : turn' = [turn EXCEPT ![d][r].at = "answered", ![d][r].entry.room = room]
      BY DEF RelayTakes
    <3>2. turn \in [Devices -> [Relays -> TurnsAt]] /\ turn[d][r] \in TurnsAt
      BY DEF TInv, TypeOK, TurnsAt, Pages, Entries
    <3>3. turn'[d][r].at = "answered"
      BY <3>1, <3>2 DEF TurnsAt
    <3> QED
      BY <3>3 DEF RelayTakes, dvars
  <2>2. ~HandPage(d, r)
    BY <2>1 DEF HandPage
  <2> QED
    BY <2>1, <2>2, TurnLeaves, PageLeft
<1>3. \A q \in Relays : relay'[q][k].rev >= relay[q][k].rev /\ relay'[q][k].rev \in Nat
  <2>1. \A q \in Relays : relay'[q][k].rev \in Nat
    BY DEF TInv, TypeOK, Rows
  <2> QED
    BY <2>1, TakesNewer
<1> HIDE DEF e
<1>4. ASSUME NEW q \in Relays, relay'[q][k].rev # relay[q][k].rev
      PROVE  /\ relay'[q][k].rev = e.row.rev
             /\ IF d = a THEN e.row.rev <= store[a][k].rev ELSE Known(k, e.row.rev)
  <2>1. q = r /\ k = e.key /\ relay'[q][k].rev = e.row.rev
    BY <1>4, TakesIs DEF e
  <2>2. SentKnown(k, d, r)
    BY DEF KeyInv
  <2> QED
    BY <1>2, <2>1, <2>2 DEF SentKnown, e
<1>5. AuthorCounts(k)'
  BY <1>1, <1>2, <1>3, <1>4 DEF KeyInv, AuthorCounts, Known
<1>6. \A x \in Devices : OthersKnow(k, x)'
  <2> SUFFICES ASSUME NEW x \in Devices, x # a, store[x][k].rev > 0
               PROVE  \E q \in Relays : relay'[q][k].rev >= store[x][k].rev
    BY <1>2 DEF OthersKnow, Known
  <2>1. Known(k, store[x][k].rev)
    BY DEF KeyInv, OthersKnow
  <2> QED
    BY <1>1, <1>3, <2>1, KnownStays
<1>7. ASSUME NEW x \in Devices, NEW q \in Relays PROVE PageKnown(k, x, q)' /\ SentKnown(k, x, q)'
  <2>1. PageKnown(k, x, q) /\ SentKnown(k, x, q)
    BY DEF KeyInv
  <2>2. PageKnown(k, x, q)'
    BY <1>1, <1>2, <1>3, <2>1 DEF PageKnown
  <2>3. SentKnown(k, x, q)'
    BY <1>1, <1>2, <1>3, <2>1 DEF SentKnown, Known
  <2> QED
    BY <2>2, <2>3
<1>8. ASSUME NEW q \in Relays, ReadToEnd(a, q)
      PROVE  \/ relay[q][k].rev <= store[a][k].rev
             \/ \E p \in Relays : ~ReadToEnd(a, p) /\ relay[p][k].rev >= relay[q][k].rev
  BY <1>8 DEF KeyInv, EndKnown
<1>9. ASSUME NEW q \in Relays, ReadToEnd(a, q)'
      PROVE  \/ relay'[q][k].rev <= store[a][k].rev
             \/ \E p \in Relays : ~ReadToEnd(a, p) /\ relay[p][k].rev >= relay'[q][k].rev
  <2>1. CASE relay'[q][k].rev = relay[q][k].rev
    BY <1>1, <1>2, <1>8, <1>9, <2>1
  <2>2. CASE relay'[q][k].rev # relay[q][k].rev /\ d = a
    BY <1>4, <2>2
  <2>3. CASE relay'[q][k].rev # relay[q][k].rev /\ d # a
    <3>1. relay'[q][k].rev > 0
      BY <1>1, <1>3, <2>3
    <3>2. PICK p \in Relays : relay[p][k].rev >= relay'[q][k].rev
      BY <1>4, <2>3, <3>1 DEF Known
    <3>3. CASE ~ReadToEnd(a, p)
      BY <3>2, <3>3
    <3>4. CASE ReadToEnd(a, p)
      BY <1>1, <1>3, <1>8, <3>2, <3>4
    <3> QED
      BY <3>3, <3>4
  <2> QED
    BY <2>1, <2>2, <2>3
<1>10. ASSUME NEW p \in Relays, ~ReadToEnd(a, p) PROVE ~ReadToEnd(a, p)'
  BY <1>1, <1>2, <1>10
<1>11. \A q \in Relays : EndKnown(k, q)'
  <2> SUFFICES ASSUME NEW q \in Relays, ReadToEnd(a, q)'
               PROVE  \/ relay'[q][k].rev <= store[a][k].rev
                      \/ \E p \in Relays : ~ReadToEnd(a, p)' /\ relay'[p][k].rev >= relay'[q][k].rev
    BY <1>2 DEF EndKnown
  <2>1. CASE relay'[q][k].rev <= store[a][k].rev
    BY <2>1
  <2>2. ASSUME NEW p \in Relays, ~ReadToEnd(a, p), relay[p][k].rev >= relay'[q][k].rev
        PROVE  ~ReadToEnd(a, p)' /\ relay'[p][k].rev >= relay'[q][k].rev
    BY <1>1, <1>3, <1>10, <2>2
  <2> QED
    BY <1>9, <2>1, <2>2
<1> QED
  BY <1>5, <1>6, <1>7, <1>11 DEF KeyInv

(* What is left of a turn: a page that is taken brings what a relay has,   *)
(* and an entry that is sent is the device's own or at a relay.            *)
LEMMA TurnOnce ==
  ASSUME TInv, TInv', NEW d \in Devices, NEW r \in Relays, NEW k \in Keys, KeyInv(k),
         Anew(d, r) \/ AskPage(d, r) \/ Send(d, r)
  PROVE  KeyInv(k)'
<1> DEFINE a == AuthorOf(k)
<1>1. /\ a \in Devices
      /\ \A q \in Relays : relay[q][k].rev \in Nat
      /\ \A x \in Devices : store[x][k].rev \in Nat
      /\ \A x \in Devices, q \in Relays : /\ turn[x][q].entry.row.rev \in Nat
                                          /\ turn[x][q].page.rows[k].rev \in Nat
  BY RevsTyped
<1>2. ~HandPage(d, r) /\ ~RelayTakes(d, r)
  <2>1. CASE AskPage(d, r) \/ Send(d, r)
    BY <2>1 DEF AskPage, Send, HandPage, RelayTakes
  <2>2. CASE Anew(d, r)
    <3>1. turn'[d][r].at \notin {"page", "sent"}
      BY <2>2, NothingAnew
    <3>2. HandPage(d, r) => turn'[d][r].at = "page"
      BY HandedKnown
    <3>3. RelayTakes(d, r) => turn'[d][r].at = "answered"
      <4> SUFFICES ASSUME RelayTakes(d, r) PROVE turn'[d][r].at = "answered"
        OBVIOUS
      <4>1. PICK room : turn' = [turn EXCEPT ![d][r].at = "answered", ![d][r].entry.room = room]
        BY DEF RelayTakes
      <4>2. turn \in [Devices -> [Relays -> TurnsAt]] /\ turn[d][r] \in TurnsAt
        BY DEF TInv, TypeOK, TurnsAt, Pages, Entries
      <4> QED
        BY <4>1, <4>2 DEF TurnsAt
    <3>4. turn'[d][r].at # "answered"
      <4>1. PICK at \in {"idle", "no", "pull", "push"} :
              \E again : turn' = [turn EXCEPT ![d][r] = TurnAt(at, again)]
        BY <2>2, AnewIs
      <4>2. PICK again : turn' = [turn EXCEPT ![d][r] = TurnAt(at, again)]
        BY <4>1
      <4>3. turn'[d][r] = TurnAt(at, again)
        BY <4>2 DEF TInv, TypeOK
      <4> QED
        BY <4>3, NothingOnItsWay
    <3> QED
      BY <3>1, <3>2, <3>3, <3>4
  <2> QED
    BY <2>1, <2>2
<1>3. /\ UNCHANGED <<relay, counts>>
      /\ \A x \in Devices, q \in Relays : x # d \/ q # r => turn'[x][q] = turn[x][q]
      /\ \A x \in Devices, q \in Relays : ReadToEnd(x, q)' => ReadToEnd(x, q)
      /\ ~TakePage(d, r) => store' = store
  BY <1>2, TurnLeaves
<1>4. /\ turn'[d][r].page.rows[k].rev = 0 \/ turn'[d][r].page = turn[d][r].page
      /\ turn'[d][r].at = "sent" => Send(d, r)
  BY NothingAnew, PageLeft
<1>5. /\ \A x \in Devices : store'[x][k].rev >= store[x][k].rev
      /\ \A x \in Devices : \/ store'[x][k].rev = store[x][k].rev
                            \/ store'[x][k].rev <= relay[r][k].rev
  <2>1. CASE TakePage(d, r)
    <3>1. PageKnown(k, d, r)
      BY DEF KeyInv
    <3>2. \A x \in Devices : store'[x][k].rev \in {store[x][k].rev, turn[d][r].page.rows[k].rev}
      BY <2>1, TakenIs
    <3> QED
      BY <2>1, <3>1, <3>2, TakenHeld DEF PageKnown
  <2>2. CASE ~TakePage(d, r)
    BY <1>1, <1>3, <2>2
  <2> QED
    BY <2>1, <2>2
<1>6. \A x \in Devices : store'[x][k].rev \in Nat
  BY DEF TInv, TypeOK, Rows
<1>7. AuthorCounts(k)'
  BY <1>1, <1>3, <1>5, <1>6 DEF KeyInv, AuthorCounts
<1>8. \A x \in Devices : OthersKnow(k, x)'
  BY <1>1, <1>3, <1>5, <1>6 DEF KeyInv, OthersKnow, Known
<1>9. ASSUME NEW x \in Devices, NEW q \in Relays PROVE PageKnown(k, x, q)' /\ SentKnown(k, x, q)'
  <2>1. PageKnown(k, x, q) /\ SentKnown(k, x, q) /\ OthersKnow(k, x)
    BY DEF KeyInv
  <2>2. PageKnown(k, x, q)'
    BY <1>1, <1>3, <1>4, <2>1 DEF PageKnown
  <2>3. CASE x # d \/ q # r
    <3>1. turn'[x][q] = turn[x][q]
      BY <1>3, <2>3
    <3> QED
      BY <1>1, <1>3, <1>5, <1>6, <2>1, <2>2, <3>1 DEF SentKnown, Known
  <2>4. ASSUME x = d, q = r, turn'[d][r].at = "sent", turn'[d][r].entry.key = k
        PROVE  turn'[d][r].entry.row.rev = store[d][k].rev /\ store' = store
    <3>1. Send(d, r)
      BY <1>4, <2>4
    <3>2. PICK j \in ToSend(d, r) :
            turn' = [turn EXCEPT ![d][r].at = "sent",
                                 ![d][r].entry = [key |-> j, row |-> store[d][j], room |-> TRUE]]
      BY <3>1 DEF Send
    <3> DEFINE e == [key |-> j, row |-> store[d][j], room |-> TRUE]
    <3>3. turn'[d][r].entry = e
      <4>1. turn \in [Devices -> [Relays -> TurnsAt]] /\ turn[d][r] \in TurnsAt
        BY DEF TInv, TypeOK, TurnsAt, Pages, Entries
      <4> HIDE DEF e
      <4>2. turn'[d][r] = [turn[d][r] EXCEPT !.at = "sent", !.entry = e]
        BY <3>2, <4>1 DEF e
      <4> QED
        BY <4>1, <4>2 DEF TurnsAt
    <3>4. store' = store
      BY <3>1 DEF Send, dvars
    <3> QED
      BY <2>4, <3>3, <3>4
  <2>5. CASE x = d /\ q = r
    BY <1>1, <1>3, <2>1, <2>2, <2>4, <2>5 DEF SentKnown, OthersKnow, Known
  <2> QED
    BY <2>2, <2>3, <2>5
<1>10. \A q \in Relays : EndKnown(k, q)'
  BY <1>1, <1>3, <1>5, EndStays DEF KeyInv
<1> QED
  BY <1>7, <1>8, <1>9, <1>10 DEF KeyInv

LEMMA NextOnce == ~StopsInPass /\ IInv /\ MetInv /\ OnceInv /\ [Next]_vars => OnceInv'
<1> SUFFICES ASSUME ~StopsInPass, IInv, MetInv, OnceInv, [Next]_vars PROVE OnceInv'
  OBVIOUS
<1>1. TInv /\ TInv'
  BY NextTyped DEF IInv
<1>2. /\ \A r \in Relays : ~DropChannel(r) /\ ~RelaySweep(r)
      /\ \A d \in Devices, s \in Slots : ~SweepDeletes(d, s)
  BY <1>1, NothingGoesStays DEF MetInv
<1>3. ASSUME UNCHANGED vars PROVE OnceInv'
  <2>1. UNCHANGED <<relay, store, counts, kept, fetched, turn>>
    BY <1>3 DEF vars, dvars
  <2>2. \A x \in Devices, q \in Relays : ReadToEnd(x, q)' <=> ReadToEnd(x, q)
    BY <2>1 DEF ReadToEnd, AtEnd, Stale
  <2> SUFFICES ASSUME NEW k \in Keys PROVE KeyInv(k)'
    BY DEF OnceInv
  <2>3. KeyInv(k) /\ AuthorOf(k) \in Devices
    BY KeyParts DEF OnceInv
  <2>4. \A q \in Relays : EndKnown(k, q)'
    BY <2>1, <2>2, <2>3 DEF KeyInv, EndKnown
  <2> QED
    BY <2>1, <2>3, <2>4 DEF KeyInv, AuthorCounts, OthersKnow, PageKnown, SentKnown, Known
<1>4. ASSUME NEW d \in Devices, OfTheDevice(d) PROVE OnceInv'
  BY <1>1, <1>2, <1>4, DeviceOnce
<1>5. ASSUME NEW d \in Devices, NEW r \in Relays,
             \/ \E at \in {"no", "pull", "push"}, again \in BOOLEAN : Begin(d, r, at, again)
             \/ TurnStep(d, r) \/ LeavePull(d, r) \/ Fail(d, r)
      PROVE  OnceInv'
  <2>1. Anew(d, r) \/ AskPage(d, r) \/ HandPage(d, r) \/ Send(d, r) \/ RelayTakes(d, r)
    BY <1>5 DEF TurnStep, Anew
  <2> SUFFICES ASSUME NEW k \in Keys PROVE KeyInv(k)'
    BY DEF OnceInv
  <2> QED
    BY <1>1, <2>1, HandedOnce, TakesOnce, TurnOnce DEF OnceInv
<1> QED
  BY <1>2, <1>3, <1>4, <1>5 DEF Next

(* Once each relay was read to its end, the author knows all there is.     *)
LEMMA AllKnown ==
  ASSUME TInv, NEW k \in Keys, KeyInv(k), fetched[AuthorOf(k)] = Relays
  PROVE  /\ \A r \in Relays : relay[r][k].rev <= store[AuthorOf(k)][k].rev
         /\ \A e \in Devices : store[e][k].rev <= store[AuthorOf(k)][k].rev
         /\ \A e \in Devices, r \in Relays :
              /\ turn[e][r].page.rows[k].rev <= store[AuthorOf(k)][k].rev
              /\ turn[e][r].at = "sent" /\ turn[e][r].entry.key = k
                   => turn[e][r].entry.row.rev <= store[AuthorOf(k)][k].rev
<1> DEFINE a == AuthorOf(k)
<1>1. /\ a \in Devices
      /\ \A q \in Relays : relay[q][k].rev \in Nat
      /\ \A x \in Devices : store[x][k].rev \in Nat
      /\ \A x \in Devices, q \in Relays : /\ turn[x][q].entry.row.rev \in Nat
                                          /\ turn[x][q].page.rows[k].rev \in Nat
  BY RevsTyped
<1>2. \A r \in Relays : relay[r][k].rev <= store[a][k].rev
  BY DEF KeyInv, EndKnown, ReadToEnd
<1>3. ASSUME NEW rev \in Nat, Known(k, rev) PROVE rev <= store[a][k].rev
  BY <1>1, <1>2, <1>3 DEF Known
<1>4. \A e \in Devices : store[e][k].rev <= store[a][k].rev
  BY <1>1, <1>3 DEF KeyInv, OthersKnow
<1>5. ASSUME NEW e \in Devices, NEW r \in Relays
      PROVE  /\ turn[e][r].page.rows[k].rev <= store[a][k].rev
             /\ turn[e][r].at = "sent" /\ turn[e][r].entry.key = k
                  => turn[e][r].entry.row.rev <= store[a][k].rev
  BY <1>1, <1>2, <1>3 DEF KeyInv, PageKnown, SentKnown
<1> QED
  BY <1>2, <1>4, <1>5

(* Where nothing goes that was there (no relay drops or sweeps, no device  *)
(* sweeps its deletes) and no name is stopped while a pass goes through    *)
(* it, no device gives a revision that an earlier entry of its own has     *)
(* elsewhere: though it stopped the name and came back, restarted, or lost *)
(* what was on its way (relay.rs: HeldAnother).                            *)
THEOREM RevisionsGivenOnce ==
  ASSUME ~StopsInPass, \A b \in Budgets, what \in Going : b[what] = 0
  PROVE  Spec => NoRevisionTwice
<1>1. Init => IInv /\ MetInv /\ OnceInv
  <2> SUFFICES ASSUME Init PROVE OnceInv
    BY InitPlaced, InitMet
  <2>1. /\ fetched = [d \in Devices |-> {}]
        /\ turn = [d \in Devices |-> [r \in Relays |-> Idle]]
        /\ \A r \in Relays, k \in Keys : relay[r][k].rev = 0
        /\ \A d \in Devices, k \in Keys : store[d][k].rev = 0
    BY DEF Init, NoRows, NoRow
  <2>2. \A k \in Keys : Idle.at = "idle" /\ Idle.page.rows[k].rev = 0
    BY NothingOnItsWay
  <2> SUFFICES ASSUME NEW k \in Keys PROVE KeyInv(k)
    BY DEF OnceInv
  <2>3. AuthorOf(k) \in Devices
    BY KeyParts
  <2> QED
    BY <2>1, <2>2, <2>3 DEF KeyInv, AuthorCounts, OthersKnow, PageKnown, SentKnown, EndKnown,
      Known, ReadToEnd, AtEnd
<1>2. IInv /\ MetInv /\ OnceInv /\ [Next]_vars => (IInv /\ MetInv /\ OnceInv)'
  BY NextPlaced, NextMet, NextOnce
<1>3. IInv /\ OnceInv =>
        [\A d \in Devices, s \in Slots :
           (\E delete \in Deletes : Write(d, s, delete))
             => ~Elsewhere(d, <<s, d>>, store'[d][<<s, d>>].rev)]_vars
  <2> SUFFICES ASSUME IInv, OnceInv, NEW d \in Devices, NEW s \in Slots,
                      NEW delete \in Deletes, Write(d, s, delete)
               PROVE  ~Elsewhere(d, <<s, d>>, store'[d][<<s, d>>].rev)
    OBVIOUS
  <2>1. PICK k \in Keys : k = <<s, d>>
    BY DEF Keys
  <2>2. AuthorOf(k) = d /\ fetched[d] = Relays /\ TInv /\ KeyInv(k)
    BY <2>1 DEF AuthorOf, Write, IInv, OnceInv
  <2>3. PICK rev \in 1 .. TopRev :
          /\ \A a \in Devices : store[d][<<s, a>>].rev < rev
          /\ store' = [store EXCEPT ![d][<<s, d>>] =
               [rev |-> rev, delete |-> delete, place |-> seqs[d] + 1]]
    BY DEF Write
  <2>4. store'[d][k].rev = rev /\ store[d][k].rev < rev /\ rev \in Nat
    BY <2>1, <2>2, <2>3, PagesAssumption DEF TInv, TypeOK
  <2>5. /\ \A r \in Relays : relay[r][k].rev \in Nat
        /\ \A x \in Devices : store[x][k].rev \in Nat
        /\ \A x \in Devices, r \in Relays : /\ turn[x][r].entry.row.rev \in Nat
                                            /\ turn[x][r].page.rows[k].rev \in Nat
    BY <2>2, RevsTyped
  <2>6. ~Elsewhere(d, k, rev)
    BY <2>2, <2>4, <2>5, AllKnown DEF Elsewhere
  <2> QED
    BY <2>1, <2>4, <2>6
<1> QED
  BY <1>1, <1>2, <1>3, PTL DEF Spec, NoRevisionTwice
=============================================================================
