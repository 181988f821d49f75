-------------------------- MODULE MessageRingProofs -------------------------
(***************************************************************************)
(* What holds of MessageRing for every ring, every number of relays and    *)
(* readers, and however often the sender's store goes back.                *)
(***************************************************************************)
EXTENDS MessageRing, TLAPS

(* An entry in slot s: none, or one whose number says that slot.           *)
WellAt(e, s) ==
  \/ e = Nothing
  \/ /\ e.number \in Numbers /\ SlotOf(e.number) = s
     /\ IF e.clears THEN e.message = 0 ELSE e.message \in Messages
WellRing(ring) == \A s \in Slots : WellAt(ring[s], s)

(* What a message is kept under is in the ring, or something above it is.  *)
WellKept(o) ==
  \A m \in Messages : \A n \in o.kept.under[m] :
    LET e == o.index.ring[SlotOf(n)]
    IN e.number >= n /\ (e.number = n /\ ~e.clears => e.message = m)

TakenWell(o, h) == \A m \in Messages, r \in Relays : r \in o.kept.taken[m] => m \in h[r]

-----------------------------------------------------------------------------
(***************************************************************************)
(* Entries and rings.                                                      *)
(***************************************************************************)
LEMMA SlotTyped ==
  ASSUME NEW n \in Nat
  PROVE  SlotOf(n) \in Slots
BY RingAssumption DEF SlotOf, Slots

LEMMA EntriesTyped ==
  /\ Nothing \in Entries
  /\ \A n \in Numbers, m \in Messages : MessageAt(n, m) \in Entries
  /\ \A n \in Numbers : ClearingOf(n) \in Entries
BY DEF Nothing, MessageAt, ClearingOf, Entries

LEMMA NumbersAreNat == Numbers \subseteq Nat /\ Messages \subseteq Nat
BY RingAssumption DEF Numbers, Messages

LEMMA EntryTyped ==
  ASSUME NEW e \in Entries
  PROVE  /\ e.number \in Nat /\ e.number \in {0} \cup Numbers
         /\ e.clears \in BOOLEAN
         /\ e.message \in {0} \cup Messages
<1>1. /\ e.number \in {0} \cup Numbers
      /\ e.clears \in BOOLEAN
      /\ e.message \in {0} \cup Messages
  BY DEF Entries
<1>2. {0} \cup Numbers \subseteq Nat
  BY NumbersAreNat
<1> QED
  BY <1>1, <1>2

LEMMA NewWell ==
  ASSUME NEW n \in Numbers
  PROVE  /\ \A m \in Messages : WellAt(MessageAt(n, m), SlotOf(n))
         /\ WellAt(ClearingOf(n), SlotOf(n))
BY DEF WellAt, MessageAt, ClearingOf

(* What is above another is an entry, and its number is not below.         *)
LEMMA AboveIs ==
  ASSUME NEW e \in Entries, NEW f \in Entries, NEW s, WellAt(e, s), WellAt(f, s), Above(e, f)
  PROVE  /\ e.number \in Numbers /\ SlotOf(e.number) = s
         /\ e.number >= f.number
         /\ e.number = f.number => e.clears
         /\ ~e.clears => e.message \in Messages
         /\ e.clears => e.message = 0
BY EntryTyped DEF Above, WellAt, Nothing

(* The next number is above every one of the ring.                         *)
LEMMA NextIs ==
  ASSUME NEW x \in Index, NEW n, IsNext(x, n)
  PROVE  /\ n \in Numbers /\ n \in Nat /\ SlotOf(n) \in Slots
         /\ \A s \in Slots : x.ring[s].number < n
BY NumbersAreNat, SlotTyped DEF IsNext

-----------------------------------------------------------------------------
(***************************************************************************)
(* The index.                                                              *)
(***************************************************************************)
LEMMA HoldTyped ==
  ASSUME NEW x \in Index, NEW n \in Nat
  PROVE  Hold(x, n) \in Index /\ Hold(x, n).ring = x.ring
BY DEF Hold, Index

LEMMA IndexAtTyped ==
  ASSUME NEW x \in Index, NEW n \in Numbers, NEW m \in Messages
  PROVE  IndexAt(x, n, m) \in Index /\ IndexAt(x, n, m).ring = x.ring
<1>1. <<n, m>> \in Numbers \X Messages /\ <<n, m>> \in Nat \X Nat
  BY NumbersAreNat
<1> QED
  BY <1>1 DEF IndexAt, Index

LEMMA WithoutTyped ==
  ASSUME NEW x \in Index, NEW gone
  PROVE  Without(x, gone) \in Index /\ Without(x, gone).ring = x.ring
BY DEF Without, Index

LEMMA ClearTyped ==
  ASSUME NEW x \in Index, NEW n \in Nat
  PROVE  Clear(x, n) \in Index /\ Clear(x, n).ring = x.ring
<1> DEFINE in == [x EXCEPT !.first = IF \E p \in @ : p[1] = n THEN @ ELSE @ \cup {<<n, 0>>}]
<1>1. in \in Index /\ in.ring = x.ring
  BY DEF Index
<1> QED
  BY <1>1, WithoutTyped DEF Clear

LEMMA TakeTyped ==
  ASSUME NEW x \in Index, NEW s \in Slots, NEW e \in Entries, WellAt(e, s), e.number > 0
  PROVE  /\ Take(x, s, e) \in Index
         /\ Take(x, s, e).ring = [x.ring EXCEPT ![s] = e]
<1> DEFINE in == [x EXCEPT !.ring[s] = e]
           held == Hold(in, e.number)
<1>1. in \in Index /\ in.ring = [x.ring EXCEPT ![s] = e]
  BY DEF Index
<1>2. e.number \in Numbers /\ e.number \in Nat /\ (~e.clears => e.message \in Messages)
  <2>1. e # Nothing
    BY DEF Nothing
  <2> QED
    BY <2>1, EntryTyped DEF WellAt
<1>3. held \in Index /\ held.ring = in.ring
  BY <1>1, <1>2, HoldTyped
<1>4. Clear(held, e.number) \in Index /\ Clear(held, e.number).ring = held.ring
  BY <1>2, <1>3, ClearTyped
<1>5. ~e.clears =>
        /\ IndexAt(held, e.number, e.message) \in Index
        /\ IndexAt(held, e.number, e.message).ring = held.ring
  BY <1>2, <1>3, IndexAtTyped
<1> QED
  BY <1>1, <1>3, <1>4, <1>5 DEF Take

-----------------------------------------------------------------------------
(***************************************************************************)
(* What the sender keeps.                                                  *)
(***************************************************************************)
LEMMA StoreIs ==
  ASSUME NEW o \in Store
  PROVE  /\ o.index \in Index /\ o.kept \in Kept
         /\ o.index.ring \in [Slots -> Entries]
         /\ o.kept.under \in [Messages -> SUBSET Numbers]
         /\ o.kept.taken \in [Messages -> SUBSET Relays]
         /\ o.kept.again \in SUBSET Messages
         /\ o.kept.unsure \in SUBSET Messages
         /\ o.kept.unsent \in [Relays -> SUBSET Slots]
         /\ Rows(o.index) \subseteq Messages
<1>1. o.index \in Index /\ o.kept \in Kept
  BY DEF Store
<1>2. o.index.ring \in [Slots -> Entries] /\ o.index.numbers \in SUBSET (Numbers \X Messages)
  BY <1>1 DEF Index
<1>3. Rows(o.index) \subseteq Messages
  BY <1>2 DEF Rows
<1> QED
  BY <1>1, <1>2, <1>3 DEF Kept

(* The messages of gone are kept no longer.                                *)
Dropped(o, p, gone) ==
  /\ p \in Store /\ p.index = o.index
  /\ p.kept.under = [m \in Messages |-> IF m \in gone THEN {} ELSE o.kept.under[m]]
  /\ p.kept.taken = [m \in Messages |-> IF m \in gone THEN {} ELSE o.kept.taken[m]]

LEMMA DropIs ==
  ASSUME NEW o \in Store, NEW gone \in SUBSET Messages, NEW everywhere \in BOOLEAN
  PROVE  /\ Dropped(o, Drop(o, gone, everywhere), gone)
         /\ ~everywhere => gone \cap Rows(o.index) \subseteq Drop(o, gone, everywhere).kept.unsure
<1> DEFINE under == [m \in Messages |-> IF m \in gone THEN {} ELSE o.kept.under[m]]
           taken == [m \in Messages |-> IF m \in gone THEN {} ELSE o.kept.taken[m]]
           unsure == IF everywhere THEN o.kept.unsure
                     ELSE o.kept.unsure \cup (gone \cap Rows(o.index))
           p == Drop(o, gone, everywhere)
<1>1. /\ under \in [Messages -> SUBSET Numbers] /\ taken \in [Messages -> SUBSET Relays]
      /\ unsure \in SUBSET Messages /\ o.kept.again \ gone \in SUBSET Messages
  BY StoreIs
<1>2. /\ p.index = o.index /\ p.kept.under = under /\ p.kept.taken = taken
      /\ p.kept.unsure = unsure
  BY DEF Drop, Store, Kept
<1>3. p \in Store
  BY <1>1 DEF Drop, Store, Kept
<1> QED
  BY <1>2, <1>3 DEF Dropped

LEMMA DropExpiredIs ==
  ASSUME NEW o \in Store
  PROVE  \E gone \in SUBSET (Expired \cap Messages) : Dropped(o, DropExpired(o), gone)
<1> DEFINE gone == {m \in Expired \cap Messages : IsKept(o.kept, m)}
<1>1. gone \in SUBSET Messages /\ gone \in SUBSET (Expired \cap Messages)
  OBVIOUS
<1> QED
  BY <1>1, DropIs DEF DropExpired

LEMMA DropOldestIs ==
  ASSUME NEW o \in Store
  PROVE  \E gone \in SUBSET Messages :
           /\ Dropped(o, DropOldest(o), gone)
           /\ gone \cap Rows(o.index) \subseteq DropOldest(o).kept.unsure
<1> DEFINE kept == {m \in Messages : IsKept(o.kept, m)}
           gone == {m \in kept : \A j \in kept : m <= j}
<1>1. CASE Cardinality(kept) <= Ring
  <2>1. DropOldest(o) = o
    BY <1>1 DEF DropOldest
  <2>2. /\ o.kept.under = [m \in Messages |-> IF m \in {} THEN {} ELSE o.kept.under[m]]
        /\ o.kept.taken = [m \in Messages |-> IF m \in {} THEN {} ELSE o.kept.taken[m]]
    BY StoreIs
  <2> QED
    BY <2>1, <2>2 DEF Dropped
<1>2. CASE ~(Cardinality(kept) <= Ring)
  <2>1. DropOldest(o) = Drop(o, gone, FALSE) /\ gone \in SUBSET Messages
    BY <1>2 DEF DropOldest
  <2> HIDE DEF gone
  <2>2. /\ Dropped(o, DropOldest(o), gone)
        /\ gone \cap Rows(o.index) \subseteq DropOldest(o).kept.unsure
    BY <2>1, DropIs
  <2> QED
    BY <2>1, <2>2
<1> QED
  BY <1>1, <1>2

LEMMA WriteIs ==
  ASSUME NEW o \in Store, NEW n \in Numbers, NEW m \in Messages
  PROVE  /\ Write(o, n, m) \in Store
         /\ Write(o, n, m).index.ring = [o.index.ring EXCEPT ![SlotOf(n)] = MessageAt(n, m)]
         /\ Write(o, n, m).kept.under = o.kept.under
         /\ Write(o, n, m).kept.taken = o.kept.taken
<1> DEFINE in == [o.index EXCEPT !.ring[SlotOf(n)] = MessageAt(n, m)]
           index == IndexAt(Hold(in, n), n, m)
           unsent == [r \in Relays |-> o.kept.unsent[r] \cup {SlotOf(n)}]
<1>1. n \in Nat /\ SlotOf(n) \in Slots /\ MessageAt(n, m) \in Entries
  BY NumbersAreNat, SlotTyped, EntriesTyped
<1>2. in \in Index /\ in.ring = [o.index.ring EXCEPT ![SlotOf(n)] = MessageAt(n, m)]
  BY <1>1, StoreIs DEF Index
<1> HIDE DEF in
<1>3. index \in Index /\ index.ring = in.ring
  <2>1. Hold(in, n) \in Index /\ Hold(in, n).ring = in.ring
    BY <1>1, <1>2, HoldTyped
  <2> QED
    BY <1>1, <2>1, IndexAtTyped
<1>4. unsent \in [Relays -> SUBSET Slots]
  BY <1>1, StoreIs
<1>5. Write(o, n, m) = [o EXCEPT !.index = index, !.kept.unsent = unsent]
  BY DEF Write, in
<1> HIDE DEF index, unsent
<1>6. [o EXCEPT !.index = index, !.kept.unsent = unsent] \in Store
  BY <1>3, <1>4 DEF Store, Kept
<1>7. /\ Write(o, n, m).index = index
      /\ Write(o, n, m).kept.under = o.kept.under /\ Write(o, n, m).kept.taken = o.kept.taken
  BY <1>5 DEF Store, Kept
<1> QED
  BY <1>2, <1>3, <1>5, <1>6, <1>7

LEMMA KeepUnderIs ==
  ASSUME NEW o \in Store, NEW n \in Numbers, NEW m \in Messages
  PROVE  /\ KeepUnder(o, n, m) \in Store
         /\ KeepUnder(o, n, m).index = o.index
         /\ KeepUnder(o, n, m).kept.under = [o.kept.under EXCEPT ![m] = @ \cup {n}]
         /\ KeepUnder(o, n, m).kept.taken = o.kept.taken
<1> DEFINE under == [o.kept.under EXCEPT ![m] = @ \cup {n}]
<1>1. under \in [Messages -> SUBSET Numbers]
  BY StoreIs
<1>2. KeepUnder(o, n, m) =
        [o EXCEPT !.kept.under = under, !.kept.again = o.kept.again \ {m}]
  BY DEF KeepUnder
<1> HIDE DEF under
<1>3. [o EXCEPT !.kept.under = under, !.kept.again = o.kept.again \ {m}] \in Store
  BY <1>1 DEF Store, Kept
<1>4. /\ KeepUnder(o, n, m).index = o.index
      /\ KeepUnder(o, n, m).kept.under = under /\ KeepUnder(o, n, m).kept.taken = o.kept.taken
  BY <1>2 DEF Store, Kept
<1> QED
  BY <1>2, <1>3, <1>4 DEF under

(* The answer to e says that m was taken.                                  *)
TakenUnder(o, e, says, m) ==
  ~e.clears /\ e.number \in o.kept.under[m] /\ says = "holds"

LEMMA TakeAnswerIs ==
  ASSUME NEW o \in Store, NEW r \in Relays, NEW e \in Entries, NEW says
  PROVE  /\ TakeAnswer(o, r, e, says) \in Store
         /\ TakeAnswer(o, r, e, says).index = o.index
         /\ TakeAnswer(o, r, e, says).kept.under = o.kept.under
         /\ \A m \in Messages : \A q \in TakeAnswer(o, r, e, says).kept.taken[m] :
              q \in o.kept.taken[m] \/ (q = r /\ TakenUnder(o, e, says, m))
<1> DEFINE at == {m \in Messages : ~e.clears /\ e.number \in o.kept.under[m]}
           s == SlotOf(e.number)
           other == {m \in at : says = "another" /\ IsNewest(o.kept, m, e.number)}
           taken == [m \in Messages |->
                       IF m \in at /\ says = "holds" THEN o.kept.taken[m] \cup {r}
                       ELSE o.kept.taken[m]]
           mine == IF o.index.ring[s] = e THEN o.kept.unsent[r] \ {s} ELSE o.kept.unsent[r]
           p == [o EXCEPT !.kept.taken = taken, !.kept.again = @ \cup other,
                          !.kept.unsent[r] = mine]
<1>1. /\ taken \in [Messages -> SUBSET Relays] /\ mine \in SUBSET Slots
      /\ o.kept.again \cup other \in SUBSET Messages
  BY StoreIs
<1>4. TakeAnswer(o, r, e, says) = p
  BY DEF TakeAnswer
<1>5. \A m \in Messages : \A q \in taken[m] :
        q \in o.kept.taken[m] \/ (q = r /\ TakenUnder(o, e, says, m))
  BY DEF TakenUnder
<1> HIDE DEF taken, other, mine
<1>2. p \in Store
  BY <1>1 DEF Store, Kept
<1>3. p.index = o.index /\ p.kept.under = o.kept.under /\ p.kept.taken = taken
  BY DEF Store, Kept
<1> HIDE DEF p
<1> QED
  BY <1>2, <1>3, <1>4, <1>5

(* A slot that holds a message has a number, which its clearing keeps.     *)
LEMMA ClearsIs ==
  ASSUME NEW o \in Store, WellRing(o.index.ring), NEW cleared \in SUBSET Slots,
         \A s \in cleared : o.index.ring[s].message \in Expired
  PROVE  /\ Clears(o, cleared) \in Store
         /\ Clears(o, cleared).index.ring =
              [s \in Slots |-> IF s \in cleared THEN ClearingOf(o.index.ring[s].number)
                               ELSE o.index.ring[s]]
         /\ \A s \in cleared :
              o.index.ring[s].number \in Numbers /\ SlotOf(o.index.ring[s].number) = s
         /\ Clears(o, cleared).kept.under = o.kept.under
         /\ Clears(o, cleared).kept.taken = o.kept.taken
<1> DEFINE ring == [s \in Slots |-> IF s \in cleared THEN ClearingOf(o.index.ring[s].number)
                                    ELSE o.index.ring[s]]
           new == {<<o.index.ring[s].number, 0>> : s \in {c \in cleared :
                     ~\E p \in o.index.first : p[1] = o.index.ring[c].number}}
           first == o.index.first \cup new
           unsent == [r \in Relays |-> o.kept.unsent[r] \cup cleared]
           p == [o EXCEPT !.index.ring = ring, !.index.first = first, !.kept.unsent = unsent]
<1>1. \A s \in cleared : /\ o.index.ring[s] \in Entries
                          /\ o.index.ring[s].number \in Numbers
                          /\ SlotOf(o.index.ring[s].number) = s
  <2> TAKE s \in cleared
  <2>1. o.index.ring[s] \in Entries /\ WellAt(o.index.ring[s], s)
    BY StoreIs DEF WellRing
  <2>2. o.index.ring[s] # Nothing
    BY DEF Nothing, Expired
  <2> QED
    BY <2>1, <2>2 DEF WellAt
<1>2. ring \in [Slots -> Entries]
  BY <1>1, StoreIs, EntriesTyped
<1>3. new \in SUBSET (Nat \X Nat)
  BY <1>1, NumbersAreNat
<1>4. first \in SUBSET (Nat \X Nat)
  BY <1>3, StoreIs DEF Index
<1>5. unsent \in [Relays -> SUBSET Slots]
  BY StoreIs
<1>8. Clears(o, cleared) = p
  BY DEF Clears
<1>9. ring = [s \in Slots |-> IF s \in cleared THEN ClearingOf(o.index.ring[s].number)
                             ELSE o.index.ring[s]]
  OBVIOUS
<1> HIDE DEF ring, new, first, unsent
<1>6. p \in Store
  BY <1>2, <1>4, <1>5 DEF Store, Kept, Index
<1>7. p.index.ring = ring /\ p.kept.under = o.kept.under /\ p.kept.taken = o.kept.taken
  BY DEF Store, Kept, Index
<1> HIDE DEF p
<1> QED
  BY <1>1, <1>6, <1>7, <1>8, <1>9

(* What the hourly task makes of the sender's store: slots are cleared, and *)
(* messages are kept no longer.                                            *)
Tidied(cleared, gone) ==
  /\ own' \in Store
  /\ own'.index.ring =
       [s \in Slots |-> IF s \in cleared THEN ClearingOf(own.index.ring[s].number)
                        ELSE own.index.ring[s]]
  /\ \A s \in cleared :
       own.index.ring[s].number \in Numbers /\ SlotOf(own.index.ring[s].number) = s
  /\ \A s \in cleared : own.index.ring[s].message \in Expired
  /\ own'.kept.under = [m \in Messages |-> IF m \in gone THEN {} ELSE own.kept.under[m]]
  /\ own'.kept.taken = [m \in Messages |-> IF m \in gone THEN {} ELSE own.kept.taken[m]]

LEMMA HourlyIs ==
  ASSUME own \in Store, WellRing(own.index.ring), Hourly
  PROVE  \E cleared \in SUBSET Slots, gone \in SUBSET (Expired \cap Messages) :
           Tidied(cleared, gone)
<1> DEFINE dropped == [own EXCEPT !.index = Without(own.index, Expired)]
           cleared == {s \in Slots : own.index.ring[s].message \in Expired}
<1>1. /\ Without(own.index, Expired) \in Index
      /\ Without(own.index, Expired).ring = own.index.ring
  BY StoreIs, WithoutTyped
<1>2. dropped \in Store /\ dropped.index.ring = own.index.ring /\ dropped.kept = own.kept
  BY <1>1 DEF Store
<1>3. own' = IF FirstFetchDone THEN DropExpired(Clears(dropped, cleared)) ELSE dropped
  BY DEF Hourly
<1>4. CASE FirstFetchDone
  <2> DEFINE c == Clears(dropped, cleared)
  <2>1. /\ c \in Store
        /\ c.index.ring =
              [s \in Slots |-> IF s \in cleared THEN ClearingOf(own.index.ring[s].number)
                               ELSE own.index.ring[s]]
        /\ \A s \in cleared :
              own.index.ring[s].number \in Numbers /\ SlotOf(own.index.ring[s].number) = s
        /\ c.kept.under = own.kept.under /\ c.kept.taken = own.kept.taken
    <3>1. \A s \in cleared : dropped.index.ring[s].message \in Expired
      BY <1>2
    <3> HIDE DEF dropped, cleared
    <3>2. cleared \in SUBSET Slots
      BY DEF cleared
    <3>3. dropped \in Store /\ WellRing(dropped.index.ring)
      BY <1>2
    <3>4. /\ c \in Store
          /\ c.index.ring =
               [s \in Slots |-> IF s \in cleared THEN ClearingOf(dropped.index.ring[s].number)
                                ELSE dropped.index.ring[s]]
          /\ \A s \in cleared : /\ dropped.index.ring[s].number \in Numbers
                               /\ SlotOf(dropped.index.ring[s].number) = s
          /\ c.kept.under = dropped.kept.under /\ c.kept.taken = dropped.kept.taken
      BY <3>1, <3>2, <3>3, ClearsIs
    <3> HIDE DEF c
    <3>5. \A s \in Slots : dropped.index.ring[s] = own.index.ring[s]
      BY <1>2
    <3>6. dropped.kept = own.kept
      BY <1>2
    <3> QED
      BY <3>2, <3>4, <3>5, <3>6
  <2>2. PICK gone \in SUBSET (Expired \cap Messages) : Dropped(c, DropExpired(c), gone)
    BY <2>1, DropExpiredIs
  <2> HIDE DEF c
  <2>3. own' = DropExpired(c)
    BY <1>3, <1>4 DEF c
  <2>4. \A s \in cleared : own.index.ring[s].message \in Expired
    OBVIOUS
  <2>5. Tidied(cleared, gone)
    BY <2>1, <2>2, <2>3, <2>4 DEF Dropped, Tidied
  <2> QED
    BY <2>5
<1>5. CASE ~FirstFetchDone
  <2>1. own' = dropped
    BY <1>3, <1>5
  <2>2. /\ own'.index.ring =
             [s \in Slots |-> IF s \in {} THEN ClearingOf(own.index.ring[s].number)
                              ELSE own.index.ring[s]]
        /\ own'.kept.under = [m \in Messages |-> IF m \in {} THEN {} ELSE own.kept.under[m]]
        /\ own'.kept.taken = [m \in Messages |-> IF m \in {} THEN {} ELSE own.kept.taken[m]]
    BY <1>2, <2>1, StoreIs
  <2>3. Tidied({}, {})
    BY <1>2, <2>1, <2>2 DEF Tidied
  <2> QED
    BY <2>3
<1> QED
  BY <1>4, <1>5

-----------------------------------------------------------------------------
(***************************************************************************)
(* What the steps that write make of the sender's store.                   *)
(***************************************************************************)

(* A message that is kept no longer goes as it may.                        *)
LetGo(m) == m \in own.kept.unsure' \/ m \notin Rows(own.index)' \/ m \in Expired
Forgets ==
  \A m \in Messages : IsKept(own.kept, m) /\ ~IsKept(own.kept', m) => LetGo(m)

(* No message is kept under more, or taken by more.                        *)
Lessened ==
  /\ own' \in Store /\ own'.index = own.index
  /\ \A j \in Messages : /\ own'.kept.under[j] \subseteq own.kept.under[j]
                         /\ own'.kept.taken[j] \subseteq own.kept.taken[j]

(* One is written under n, and kept under it.                              *)
Written(n, m) ==
  /\ own' \in Store
  /\ own'.index.ring = [own.index.ring EXCEPT ![SlotOf(n)] = MessageAt(n, m)]
  /\ \A j \in Messages :
       /\ \A i \in own'.kept.under[j] : i \in own.kept.under[j] \/ (i = n /\ j = m)
       /\ own'.kept.taken[j] \subseteq own.kept.taken[j]

LEMMA SendIs ==
  ASSUME TypeOK, Send
  PROVE  \E n : IsNext(own.index, n) /\ Written(n, sent + 1) /\ Forgets
<1> DEFINE m == sent + 1
<1>1. own \in Store /\ m \in Messages
  BY DEF Send, TypeOK
<1>2. PICK n : /\ IsNext(own.index, n)
               /\ own' = DropOldest(KeepUnder(DropExpired(Write(own, n, m)), n, m))
  BY DEF Send
<1>3. n \in Numbers
  BY <1>2 DEF IsNext
<1> DEFINE a == Write(own, n, m)
           b == DropExpired(a)
           c == KeepUnder(b, n, m)
<1> HIDE DEF m
<1>4. /\ a \in Store
      /\ a.index.ring = [own.index.ring EXCEPT ![SlotOf(n)] = MessageAt(n, m)]
      /\ a.kept.under = own.kept.under /\ a.kept.taken = own.kept.taken
  BY <1>1, <1>3, WriteIs
<1> HIDE DEF a
<1>5. PICK old \in SUBSET (Expired \cap Messages) : Dropped(a, b, old)
  BY <1>4, DropExpiredIs
<1> HIDE DEF b
<1>6. b \in Store
  BY <1>5 DEF Dropped
<1>7. /\ c \in Store /\ c.index = b.index
      /\ c.kept.under = [b.kept.under EXCEPT ![m] = @ \cup {n}]
      /\ c.kept.taken = b.kept.taken
  BY <1>1, <1>3, <1>6, KeepUnderIs
<1> HIDE DEF c
<1>8. PICK gone \in SUBSET Messages :
        Dropped(c, DropOldest(c), gone) /\ gone \cap Rows(c.index) \subseteq DropOldest(c).kept.unsure
  BY <1>7, DropOldestIs
<1>9. own' = DropOldest(c)
  BY <1>2 DEF a, b, c
<1>10. \A j \in Messages :
         /\ b.kept.under[j] = IF j \in old THEN {} ELSE own.kept.under[j]
         /\ b.kept.taken[j] = IF j \in old THEN {} ELSE own.kept.taken[j]
  BY <1>4, <1>5 DEF Dropped
<1>11. \A j \in Messages :
         /\ c.kept.under[j] = IF j = m THEN b.kept.under[j] \cup {n} ELSE b.kept.under[j]
         /\ own'.kept.under[j] = IF j \in gone THEN {} ELSE c.kept.under[j]
         /\ own'.kept.taken[j] = IF j \in gone THEN {} ELSE b.kept.taken[j]
  <2> TAKE j \in Messages
  <2>1. c.kept.under[j] = IF j = m THEN b.kept.under[j] \cup {n} ELSE b.kept.under[j]
    BY <1>6, <1>7, StoreIs
  <2>2. /\ own'.kept.under[j] = IF j \in gone THEN {} ELSE c.kept.under[j]
        /\ own'.kept.taken[j] = IF j \in gone THEN {} ELSE c.kept.taken[j]
    BY <1>8, <1>9 DEF Dropped
  <2> QED
    BY <1>7, <2>1, <2>2
<1>12. own' \in Store /\ own'.index = a.index /\ own'.index = c.index
  BY <1>5, <1>7, <1>8, <1>9 DEF Dropped
<1>13. Written(n, m)
  <2>1. own'.index.ring = [own.index.ring EXCEPT ![SlotOf(n)] = MessageAt(n, m)]
    BY <1>4, <1>12
  <2>2. ASSUME NEW j \in Messages
        PROVE  /\ \A i \in own'.kept.under[j] : i \in own.kept.under[j] \/ (i = n /\ j = m)
               /\ own'.kept.taken[j] \subseteq own.kept.taken[j]
    <3>1. own'.kept.under[j] \subseteq c.kept.under[j] /\ own'.kept.taken[j] \subseteq b.kept.taken[j]
      BY <1>11
    <3>2. \A i \in c.kept.under[j] : i \in b.kept.under[j] \/ (i = n /\ j = m)
      BY <1>11
    <3>3. b.kept.under[j] \subseteq own.kept.under[j] /\ b.kept.taken[j] \subseteq own.kept.taken[j]
      BY <1>10
    <3> QED
      BY <3>1, <3>2, <3>3
  <2> QED
    BY <1>12, <2>1, <2>2 DEF Written
<1>14. Forgets
  <2> SUFFICES ASSUME NEW j \in Messages, own.kept.under[j] # {}, own'.kept.under[j] = {}
               PROVE  LetGo(j)
    BY DEF Forgets, IsKept
  <2>1. CASE j \in gone
    BY <1>8, <1>9, <1>12, <2>1 DEF LetGo
  <2>2. CASE j \notin gone
    <3>1. j \in old
      BY <1>10, <1>11, <2>2
    <3> QED
      BY <3>1 DEF LetGo
  <2> QED
    BY <2>1, <2>2
<1> QED
  BY <1>2, <1>13, <1>14 DEF m

LEMMA WriteAgainIs ==
  ASSUME TypeOK, WriteAgain
  PROVE  /\ Forgets
         /\ \/ \E m \in Messages : \E n : IsNext(own.index, n) /\ Written(n, m) /\ Wrote
            \/ Lessened /\ UNCHANGED hasty
<1> DEFINE o == DropExpired(own)
<1>1. own \in Store
  BY DEF TypeOK
<1>2. PICK old \in SUBSET (Expired \cap Messages) : Dropped(own, o, old)
  BY <1>1, DropExpiredIs
<1>3. o \in Store /\ o.index = own.index
  BY <1>2 DEF Dropped
<1>4. \A j \in Messages :
        /\ o.kept.under[j] = IF j \in old THEN {} ELSE own.kept.under[j]
        /\ o.kept.taken[j] = IF j \in old THEN {} ELSE own.kept.taken[j]
  BY <1>2 DEF Dropped
<1>5. \/ own' = o /\ UNCHANGED hasty
      \/ \E m \in o.kept.again :
           \/ /\ Wrote
              /\ \E n \in MaybeNext :
                   IsNext(o.index, n) /\ own' = KeepUnder(Write(o, n, m), n, m)
           \/ own' = Drop(o, {m}, FALSE) /\ UNCHANGED hasty
  BY DEF WriteAgain
<1>6. o.kept.again \subseteq Messages
  BY <1>3, StoreIs
<1> HIDE DEF o
<1>7. ASSUME NEW m \in Messages, Wrote, NEW n, IsNext(o.index, n), own' = KeepUnder(Write(o, n, m), n, m)
      PROVE  Forgets /\ IsNext(own.index, n) /\ Written(n, m)
  <2> DEFINE a == Write(o, n, m)
  <2>1. n \in Numbers /\ IsNext(own.index, n)
    BY <1>3, <1>7 DEF IsNext
  <2>2. /\ a \in Store
        /\ a.index.ring = [o.index.ring EXCEPT ![SlotOf(n)] = MessageAt(n, m)]
        /\ a.kept.under = o.kept.under /\ a.kept.taken = o.kept.taken
    BY <1>3, <2>1, WriteIs
  <2> HIDE DEF a
  <2>3. /\ own' \in Store /\ own'.index = a.index
        /\ own'.kept.under = [a.kept.under EXCEPT ![m] = @ \cup {n}]
        /\ own'.kept.taken = a.kept.taken
    <3>1. own' = KeepUnder(a, n, m)
      BY <1>7 DEF a
    <3>2. a \in Store /\ n \in Numbers /\ m \in Messages
      BY <2>1, <2>2
    <3>3. /\ KeepUnder(a, n, m) \in Store
          /\ KeepUnder(a, n, m).index = a.index
          /\ KeepUnder(a, n, m).kept.under = [a.kept.under EXCEPT ![m] = @ \cup {n}]
          /\ KeepUnder(a, n, m).kept.taken = a.kept.taken
      BY <3>2, KeepUnderIs
    <3> QED
      BY <3>1, <3>3
  <2>4. \A j \in Messages :
          own'.kept.under[j] = IF j = m THEN o.kept.under[j] \cup {n} ELSE o.kept.under[j]
    <3>1. o.kept.under \in [Messages -> SUBSET Numbers]
      BY <1>3, StoreIs
    <3>2. own'.kept.under = [o.kept.under EXCEPT ![m] = @ \cup {n}]
      BY <2>2, <2>3
    <3> QED
      BY <3>1, <3>2
  <2>5. Written(n, m)
    BY <1>3, <1>4, <2>2, <2>3, <2>4 DEF Written
  <2>6. Forgets
    BY <1>4, <2>4 DEF Forgets, IsKept, LetGo
  <2> QED
    BY <2>1, <2>5, <2>6
<1>8. ASSUME NEW m \in Messages, own' = Drop(o, {m}, FALSE)
      PROVE  Forgets /\ Lessened
  <2>1. /\ Dropped(o, own', {m})
        /\ {m} \cap Rows(o.index) \subseteq own'.kept.unsure
    BY <1>3, <1>8, DropIs
  <2>2. \A j \in Messages :
          /\ own'.kept.under[j] = IF j = m THEN {} ELSE o.kept.under[j]
          /\ own'.kept.taken[j] = IF j = m THEN {} ELSE o.kept.taken[j]
    BY <2>1 DEF Dropped
  <2>3. Lessened
    BY <1>3, <1>4, <2>1, <2>2 DEF Lessened, Dropped
  <2>4. Forgets
    <3> SUFFICES ASSUME NEW j \in Messages, own.kept.under[j] # {}, own'.kept.under[j] = {}
                 PROVE  LetGo(j)
      BY DEF Forgets, IsKept
    <3>1. CASE j = m
      BY <1>3, <2>1, <3>1 DEF LetGo, Dropped
    <3>2. CASE j # m
      BY <1>4, <2>2, <3>2 DEF LetGo
    <3> QED
      BY <3>1, <3>2
  <2> QED
    BY <2>3, <2>4
<1>9. ASSUME own' = o
      PROVE  Forgets /\ Lessened
  BY <1>2, <1>4, <1>9 DEF Forgets, IsKept, LetGo, Lessened, Dropped
<1> QED
  BY <1>5, <1>6, <1>7, <1>8, <1>9

-----------------------------------------------------------------------------
(***************************************************************************)
(* Types, and entries in the slots of their numbers.                       *)
(***************************************************************************)
TypedInv ==
  /\ TypeOK
  /\ \A r \in Relays : WellRing(relay[r])
  /\ \A x \in Readers : WellRing(reader[x].ring)
  /\ WellRing(own.index.ring) /\ WellRing(copy.index.ring)

LEMMA PutWell ==
  ASSUME NEW ring \in [Slots -> Entries], WellRing(ring),
         NEW s \in Slots, NEW e \in Entries, WellAt(e, s)
  PROVE  WellRing([ring EXCEPT ![s] = e])
BY DEF WellRing

(* An entry is pulled over one of the sender's.                            *)
Pulled(r, s) ==
  /\ Above(relay[r][s], own.index.ring[s])
  /\ own' \in Store
  /\ own'.index.ring = [own.index.ring EXCEPT ![s] = relay[r][s]]
  /\ own'.kept.under = own.kept.under /\ own'.kept.taken = own.kept.taken

LEMMA PullIs ==
  ASSUME TypedInv, NEW r \in Relays, Pull(r)
  PROVE  \E s \in Slots : Pulled(r, s)
<1>1. PICK s \in Slots :
        /\ Above(relay[r][s], own.index.ring[s])
        /\ own' = [own EXCEPT
             !.index = Take(@, s, relay[r][s]),
             !.kept.again = @ \cup TakenOver(own.kept, s),
             !.kept.unsent = [q \in Relays |->
                IF q = r /\ @[q] = {} THEN {} ELSE @[q] \cup {s}]]
  BY DEF Pull
<1> DEFINE e == relay[r][s]
           unsent == [q \in Relays |->
                        IF q = r /\ own.kept.unsent[q] = {} THEN {}
                        ELSE own.kept.unsent[q] \cup {s}]
           again == own.kept.again \cup TakenOver(own.kept, s)
           p == [own EXCEPT !.index = Take(own.index, s, e), !.kept.again = again,
                            !.kept.unsent = unsent]
<1>2. own \in Store /\ e \in Entries /\ WellAt(e, s) /\ WellAt(own.index.ring[s], s)
  BY DEF TypedInv, TypeOK, WellRing
<1>3. e.number \in Numbers
  BY <1>1, <1>2, AboveIs, StoreIs
<1>4. e.number > 0
  BY <1>3 DEF Numbers
<1>5. /\ Take(own.index, s, e) \in Index
      /\ Take(own.index, s, e).ring = [own.index.ring EXCEPT ![s] = e]
  BY <1>2, <1>4, StoreIs, TakeTyped
<1>6. unsent \in [Relays -> SUBSET Slots] /\ again \in SUBSET Messages
  BY <1>2, StoreIs DEF TakenOver
<1>8. own' = p
  BY <1>1
<1> HIDE DEF unsent, again
<1>7. p \in Store /\ p.index = Take(own.index, s, e)
      /\ p.kept.under = own.kept.under /\ p.kept.taken = own.kept.taken
  BY <1>2, <1>5, <1>6 DEF Store, Kept
<1> HIDE DEF p
<1>9. Above(relay[r][s], own.index.ring[s]) /\ e = relay[r][s]
  BY <1>1
<1> HIDE DEF e
<1>10. Pulled(r, s)
  BY <1>5, <1>7, <1>8, <1>9 DEF Pulled
<1> QED
  BY <1>10

(* An entry reaches a relay, which may have it already.                    *)
Handed(r, s, e) ==
  /\ relay' = IF Above(e, relay[r][s]) THEN [relay EXCEPT ![r][s] = e] ELSE relay
  /\ had' = IF Above(e, relay[r][s]) /\ ~e.clears
              THEN [had EXCEPT ![r] = @ \cup {e.message}] ELSE had

LEMMA HandedTyped ==
  ASSUME TypedInv, NEW r \in Relays, NEW s \in Slots, NEW e \in Entries, WellAt(e, s),
         Handed(r, s, e)
  PROVE  /\ relay' \in [Relays -> [Slots -> Entries]]
         /\ had' \in [Relays -> SUBSET Messages]
         /\ \A q \in Relays : WellRing(relay'[q])
<1>1. /\ relay \in [Relays -> [Slots -> Entries]] /\ had \in [Relays -> SUBSET Messages]
      /\ \A q \in Relays : WellRing(relay[q])
  BY DEF TypedInv, TypeOK
<1>2. CASE ~Above(e, relay[r][s])
  BY <1>1, <1>2 DEF Handed
<1>3. CASE Above(e, relay[r][s])
  <2>1. relay' = [relay EXCEPT ![r][s] = e]
    BY <1>3 DEF Handed
  <2>2. ~e.clears => e.message \in Messages
    BY <1>1, <1>3, AboveIs DEF WellRing
  <2>3. WellRing([relay[r] EXCEPT ![s] = e])
    BY <1>1, PutWell
  <2>4. \A q \in Relays : relay'[q] = IF q = r THEN [relay[r] EXCEPT ![s] = e] ELSE relay[q]
    BY <1>1, <2>1
  <2>5. had' \in [Relays -> SUBSET Messages]
    BY <1>1, <1>3, <2>2 DEF Handed
  <2> QED
    BY <1>1, <2>1, <2>3, <2>4, <2>5
<1> QED
  BY <1>2, <1>3

LEMMA PushIs ==
  ASSUME TypedInv, NEW r \in Relays, Push(r)
  PROVE  \E s \in Slots :
           LET e == own.index.ring[s]
               says == Says(e, relay[r][s])
           IN /\ Handed(r, s, e)
              /\ \/ own' = TakeAnswer(own, r, e, says) /\ UNCHANGED answer
                 \/ answer' = [answer EXCEPT ![r] = [to |-> e, says |-> says]] /\ UNCHANGED own
<1>1. own.kept.unsent[r] \subseteq Slots
  BY StoreIs DEF TypedInv, TypeOK
<1>2. had \in [Relays -> SUBSET Messages]
  BY DEF TypedInv, TypeOK
<1>3. PICK s \in own.kept.unsent[r] :
        LET e == own.index.ring[s]
            says == Says(e, relay[r][s])
        IN /\ IF Above(e, relay[r][s])
              THEN relay' = [relay EXCEPT ![r][s] = e] /\ Took(r, e)
              ELSE UNCHANGED <<relay, had>>
           /\ \/ own' = TakeAnswer(own, r, e, says) /\ UNCHANGED answer
              \/ answer' = [answer EXCEPT ![r] = [to |-> e, says |-> says]] /\ UNCHANGED own
  BY DEF Push
<1>4. Handed(r, s, own.index.ring[s])
  BY <1>2, <1>3 DEF Handed, Took
<1> QED
  BY <1>1, <1>3, <1>4

LEMMA InitTyped == Init => TypedInv
<1> SUFFICES ASSUME Init PROVE TypedInv
  OBVIOUS
<1>1. NoIndex \in Index
  BY EntriesTyped DEF NoIndex, Index
<1>2. NoStore \in Store
  BY <1>1 DEF NoStore, Store, Kept
<1>3. NoAnswer \in Answers
  BY EntriesTyped DEF NoAnswer, Answers
<1>4. left \in [Bounded -> Nat]
  BY RingAssumption DEF Init
<1>5. TypeOK
  BY <1>1, <1>2, <1>3, <1>4, EntriesTyped DEF Init, TypeOK
<1>6. WellRing([s \in Slots |-> Nothing])
  BY DEF WellRing, WellAt
<1> QED
  BY <1>5, <1>6 DEF Init, TypedInv, NoStore, NoIndex

LEMMA SpendTyped ==
  ASSUME TypeOK, NEW what \in Bounded, Spend(what)
  PROVE  left' \in [Bounded -> Nat]
BY DEF TypeOK, Spend

LEMMA WrittenTyped ==
  ASSUME TypedInv, NEW n, NEW m \in Messages, IsNext(own.index, n), Written(n, m)
  PROVE  own' \in Store /\ WellRing(own'.index.ring)
<1>1. own.index \in Index /\ own.index.ring \in [Slots -> Entries]
  BY StoreIs DEF TypedInv, TypeOK
<1>2. n \in Numbers /\ SlotOf(n) \in Slots
  BY <1>1, NextIs
<1>3. WellAt(MessageAt(n, m), SlotOf(n)) /\ MessageAt(n, m) \in Entries
  BY <1>2, NewWell, EntriesTyped
<1> QED
  BY <1>1, <1>2, <1>3, PutWell DEF Written, TypedInv

LEMMA NextTyped == TypedInv /\ [Next]_vars => TypedInv'
<1> SUFFICES ASSUME TypedInv, [Next]_vars PROVE TypedInv'
  OBVIOUS
<1> USE DEF TypedInv
<1>own. /\ TypeOK /\ own \in Store /\ copy \in Store /\ own.index \in Index
        /\ own.index.ring \in [Slots -> Entries]
  BY StoreIs DEF TypeOK
<1>1. CASE Send
  <2>1. PICK n : IsNext(own.index, n) /\ Written(n, sent + 1)
    BY <1>1, SendIs
  <2>2. sent + 1 \in Messages
    BY <1>1 DEF Send
  <2>3. own' \in Store /\ WellRing(own'.index.ring)
    BY <2>1, <2>2, WrittenTyped
  <2>4. left' \in [Bounded -> Nat]
    BY <1>1, SpendTyped DEF Send, Bounded
  <2>5. hasty' \in BOOLEAN /\ sent' \in Nat
    BY <1>1 DEF Send, Wrote, TypeOK
  <2> QED
    BY <1>1, <2>3, <2>4, <2>5 DEF Send, TypeOK
<1>2. CASE WriteAgain
  <2>1. own' \in Store /\ WellRing(own'.index.ring)
    BY <1>2, <1>own, WriteAgainIs, WrittenTyped DEF Lessened
  <2>2. hasty' \in BOOLEAN
    BY <1>2, <1>own, WriteAgainIs DEF Wrote, TypeOK
  <2> QED
    BY <1>2, <2>1, <2>2 DEF WriteAgain, TypeOK
<1>3. CASE TakenEverywhere
  <2>1. own' \in Store /\ own'.index = own.index
    BY <1>3, <1>own, DropIs DEF TakenEverywhere, Dropped
  <2> QED
    BY <1>3, <2>1 DEF TakenEverywhere, TypeOK
<1>4. CASE Hourly
  <2>1. PICK cleared \in SUBSET Slots, gone \in SUBSET (Expired \cap Messages) :
          Tidied(cleared, gone)
    BY <1>4, <1>own, HourlyIs
  <2>2. \A s \in cleared : /\ own.index.ring[s].number \in Numbers
                            /\ SlotOf(own.index.ring[s].number) = s
    BY <2>1 DEF Tidied
  <2>3. \A s \in cleared : WellAt(ClearingOf(own.index.ring[s].number), s)
    BY <2>2, NewWell
  <2>4. own' \in Store /\ WellRing(own'.index.ring)
    BY <2>1, <2>3 DEF Tidied, WellRing
  <2> QED
    BY <1>4, <2>4 DEF Hourly, TypeOK
<1>5. ASSUME NEW r \in Relays, Pull(r) PROVE TypedInv'
  <2>1. PICK s \in Slots : Pulled(r, s)
    BY <1>5, PullIs
  <2>2. relay[r][s] \in Entries /\ WellAt(relay[r][s], s)
    BY DEF TypeOK, WellRing
  <2>3. own' \in Store /\ WellRing(own'.index.ring)
    BY <1>own, <2>1, <2>2, PutWell DEF Pulled
  <2> QED
    BY <1>5, <2>3 DEF Pull, TypeOK
<1>6. ASSUME NEW r \in Relays, ReadToEnd(r) PROVE TypedInv'
  BY <1>6 DEF ReadToEnd, TypeOK
<1>7. ASSUME NEW r \in Relays, Push(r) PROVE TypedInv'
  <2> DEFINE e(s) == own.index.ring[s]
  <2>1. PICK s \in Slots :
          /\ Handed(r, s, e(s))
          /\ \/ /\ own' = TakeAnswer(own, r, e(s), Says(e(s), relay[r][s]))
                /\ UNCHANGED answer
             \/ /\ answer' = [answer EXCEPT ![r] =
                               [to |-> e(s), says |-> Says(e(s), relay[r][s])]]
                /\ UNCHANGED own
    BY <1>7, PushIs
  <2>2. e(s) \in Entries /\ WellAt(e(s), s)
    BY <1>own DEF WellRing
  <2>3. /\ relay' \in [Relays -> [Slots -> Entries]]
        /\ had' \in [Relays -> SUBSET Messages]
        /\ \A q \in Relays : WellRing(relay'[q])
    BY <2>1, <2>2, HandedTyped
  <2>4. own' \in Store /\ own'.index = own.index
    <3>1. \A says : /\ TakeAnswer(own, r, e(s), says) \in Store
                    /\ TakeAnswer(own, r, e(s), says).index = own.index
      BY <1>own, <2>2, TakeAnswerIs
    <3> QED
      BY <1>own, <2>1, <3>1
  <2>5. [to |-> e(s), says |-> Says(e(s), relay[r][s])] \in Answers
    BY <2>2 DEF Answers, Says
  <2>6. answer' \in [Relays -> Answers]
    BY <1>own, <2>1, <2>5 DEF TypeOK
  <2>7. left' \in [Bounded -> Nat]
    BY <1>7, <1>own, SpendTyped DEF Push, TypeOK, Bounded
  <2> HIDE DEF e
  <2> QED
    BY <1>7, <1>own, <2>3, <2>4, <2>6, <2>7 DEF Push, TypeOK
<1>8. ASSUME NEW r \in Relays, Answered(r) PROVE TypedInv'
  <2>1. answer[r].to \in Entries
    BY <1>own DEF TypeOK, Answers
  <2>2. own' \in Store /\ own'.index = own.index
    <3>1. own' = TakeAnswer(own, r, answer[r].to, answer[r].says)
      BY <1>8 DEF Answered
    <3> QED
      BY <1>own, <2>1, <3>1, TakeAnswerIs
  <2>3. answer' \in [Relays -> Answers]
    BY <1>8, <1>own, EntriesTyped DEF Answered, TypeOK, Answers, NoAnswer
  <2> QED
    BY <1>8, <1>own, <2>2, <2>3 DEF Answered, TypeOK
<1>9. ASSUME NEW r \in Relays, Lose(r) PROVE TypedInv'
  <2>1. answer' \in [Relays -> Answers]
    BY <1>9, <1>own, EntriesTyped DEF Lose, TypeOK, Answers, NoAnswer
  <2> QED
    BY <1>9, <1>own, <2>1 DEF Lose, TypeOK
<1>10. CASE Restart \/ Copy \/ GoBack
  <2>1. NoAnswer \in Answers
    BY EntriesTyped DEF NoAnswer, Answers
  <2>2. left' \in [Bounded -> Nat]
    BY <1>10, <1>own, SpendTyped DEF Restart, Copy, GoBack, Bounded
  <2> QED
    BY <1>10, <1>own, <2>1, <2>2 DEF Restart, Copy, GoBack, TypeOK
<1>11. ASSUME NEW x \in Readers, NEW r \in Relays, ReaderPull(x, r) PROVE TypedInv'
  <2>1. PICK s \in Slots :
          /\ Above(relay[r][s], reader[x].ring[s])
          /\ reader' = [reader EXCEPT ![x] = Take(@, s, relay[r][s])]
    BY <1>11 DEF ReaderPull
  <2>2. /\ reader[x] \in Index /\ reader[x].ring \in [Slots -> Entries]
        /\ relay[r][s] \in Entries
        /\ WellAt(relay[r][s], s) /\ WellAt(reader[x].ring[s], s)
    BY <1>own DEF TypeOK, WellRing, Index
  <2>3. relay[r][s].number > 0
    BY <2>1, <2>2, AboveIs DEF Numbers
  <2>4. /\ Take(reader[x], s, relay[r][s]) \in Index
        /\ Take(reader[x], s, relay[r][s]).ring = [reader[x].ring EXCEPT ![s] = relay[r][s]]
    BY <2>2, <2>3, TakeTyped
  <2>5. WellRing(Take(reader[x], s, relay[r][s]).ring)
    BY <2>2, <2>4, PutWell
  <2>6. reader' \in [Readers -> Index] /\ \A y \in Readers : WellRing(reader'[y].ring)
    BY <1>own, <2>1, <2>4, <2>5 DEF TypeOK
  <2> QED
    BY <1>11, <1>own, <2>6 DEF ReaderPull, TypeOK
<1>12. ASSUME NEW x \in Readers, NEW r \in Relays, ReaderPush(x, r) PROVE TypedInv'
  <2>1. PICK s \in Slots :
          /\ Above(reader[x].ring[s], relay[r][s])
          /\ relay' = [relay EXCEPT ![r][s] = reader[x].ring[s]]
          /\ Took(r, reader[x].ring[s])
    BY <1>12 DEF ReaderPush
  <2>2. reader[x].ring[s] \in Entries /\ WellAt(reader[x].ring[s], s)
    BY <1>own DEF TypeOK, WellRing, Index
  <2>3. Handed(r, s, reader[x].ring[s])
    BY <1>own, <2>1 DEF Handed, Took, TypeOK
  <2>4. /\ relay' \in [Relays -> [Slots -> Entries]]
        /\ had' \in [Relays -> SUBSET Messages]
        /\ \A q \in Relays : WellRing(relay'[q])
    BY <2>2, <2>3, HandedTyped
  <2>5. left' \in [Bounded -> Nat]
    BY <1>12, <1>own, SpendTyped DEF ReaderPush, Bounded
  <2> QED
    BY <1>12, <1>own, <2>4, <2>5 DEF ReaderPush, TypeOK
<1>13. ASSUME NEW x \in Readers, ReaderHourly(x) PROVE TypedInv'
  <2>1. reader[x] \in Index
    BY <1>own DEF TypeOK
  <2>2. /\ Without(reader[x], Expired) \in Index
        /\ Without(reader[x], Expired).ring = reader[x].ring
    BY <2>1, WithoutTyped
  <2>3. reader' \in [Readers -> Index] /\ \A y \in Readers : WellRing(reader'[y].ring)
    BY <1>13, <1>own, <2>2 DEF ReaderHourly, TypeOK
  <2> QED
    BY <1>13, <1>own, <2>3 DEF ReaderHourly, TypeOK
<1>14. CASE Expire
  <2>1. left' \in [Bounded -> Nat]
    BY <1>14, <1>own, SpendTyped DEF Expire, Bounded
  <2>2. expired' \in Nat
    BY <1>14 DEF Expire, TypeOK
  <2> QED
    BY <1>14, <2>1, <2>2 DEF Expire, TypeOK
<1>15. CASE UNCHANGED vars
  BY <1>15 DEF vars, TypeOK
<1> QED
  BY <1>1, <1>2, <1>3, <1>4, <1>5, <1>6, <1>7, <1>8, <1>9, <1>10, <1>11, <1>12, <1>13, <1>14,
     <1>15 DEF Next

(***************************************************************************)
(* The state is of its types: every number that a message goes under is    *)
(* one there may be, and every entry is of a message or a clearing of one. *)
(***************************************************************************)
THEOREM MessagesTyped == Spec => []TypeOK
<1>1. TypedInv => TypeOK
  BY DEF TypedInv
<1> QED
  BY <1>1, InitTyped, NextTyped, PTL DEF Spec

-----------------------------------------------------------------------------
(***************************************************************************)
(* What counts as taken was taken.  A number that a message is kept under  *)
(* is never another message's at a relay that says it holds the entry: the *)
(* ring of the sender has the message there, or something above it, and so *)
(* had it when the entry was pushed.                                       *)
(***************************************************************************)
RelayHad ==
  \A r \in Relays, s \in Slots :
    relay[r][s] # Nothing /\ ~relay[r][s].clears => relay[r][s].message \in had[r]

AnswerWell(r) ==
  LET e == answer[r].to
  IN /\ e.number <= own.index.ring[SlotOf(e.number)].number
     /\ ~e.clears =>
          \A m \in Messages : e.number \in own.kept.under[m] =>
            e.message = m /\ (answer[r].says = "holds" => m \in had[r])

KeptInv ==
  /\ WellKept(own) /\ WellKept(copy)
  /\ TakenWell(own, had) /\ TakenWell(copy, had)
  /\ RelayHad
  /\ \A r \in Relays : AnswerWell(r)

(* The numbers of the ring grow, and what a message comes to be kept under *)
(* is above them all.                                                      *)
Moves ==
  /\ \A s \in Slots : own.index.ring[s].number <= own'.index.ring[s].number
  /\ \A m \in Messages : \A i \in own'.kept.under[m] :
       i \in own.kept.under[m] \/ \A s \in Slots : own.index.ring[s].number < i

LEMMA AnswerStays ==
  ASSUME TypedInv, TypedInv', NEW r \in Relays, AnswerWell(r), Moves,
         answer'[r] = answer[r], had[r] \subseteq had'[r]
  PROVE  AnswerWell(r)'
<1> DEFINE e == answer[r].to
           s == SlotOf(e.number)
<1>1. e \in Entries
  BY DEF TypedInv, TypeOK, Answers
<1>2. e.number \in Nat /\ s \in Slots
  BY <1>1, EntryTyped, SlotTyped
<1>3. own.index.ring[s].number \in Nat /\ own'.index.ring[s].number \in Nat
  BY <1>2, StoreIs, EntryTyped DEF TypedInv, TypeOK
<1>4. e.number <= own.index.ring[s].number
  BY DEF AnswerWell
<1>5. e.number <= own'.index.ring[s].number
  BY <1>2, <1>3, <1>4 DEF Moves
<1>6. ASSUME ~e.clears, NEW m \in Messages, e.number \in own'.kept.under[m]
      PROVE  e.message = m /\ (answer[r].says = "holds" => m \in had'[r])
  <2>1. e.number \in own.kept.under[m]
    BY <1>2, <1>3, <1>4, <1>6 DEF Moves
  <2> QED
    BY <1>6, <2>1 DEF AnswerWell
<1> QED
  BY <1>5, <1>6 DEF AnswerWell

(* No message is kept under anything new.                                  *)
LEMMA KeptStays ==
  ASSUME own \in Store, own' \in Store, WellKept(own), own'.index.ring = own.index.ring,
         \A m \in Messages : own'.kept.under[m] \subseteq own.kept.under[m]
  PROVE  WellKept(own') /\ Moves
<1>1. \A s \in Slots : own.index.ring[s].number \in Nat
  BY StoreIs, EntryTyped
<1> QED
  BY <1>1 DEF WellKept, Moves

LEMMA WrittenStays ==
  ASSUME TypedInv, WellKept(own), NEW n, NEW m \in Messages,
         IsNext(own.index, n), Written(n, m)
  PROVE  WellKept(own') /\ Moves
<1>1. own \in Store /\ own' \in Store /\ own.index \in Index
  BY StoreIs DEF TypedInv, TypeOK, Written
<1>2. /\ n \in Numbers /\ n \in Nat /\ SlotOf(n) \in Slots
      /\ \A s \in Slots : own.index.ring[s].number < n
  BY <1>1, NextIs
<1>3. \A s \in Slots : own.index.ring[s].number \in Nat
  BY <1>1, StoreIs, EntryTyped
<1>4. \A s \in Slots : own'.index.ring[s] = IF s = SlotOf(n) THEN MessageAt(n, m)
                                            ELSE own.index.ring[s]
  BY <1>1, <1>2, StoreIs DEF Written
<1>5. ASSUME NEW j \in Messages, NEW i \in own'.kept.under[j]
      PROVE  /\ i \in own.kept.under[j] \/ \A s \in Slots : own.index.ring[s].number < i
             /\ LET e == own'.index.ring[SlotOf(i)]
                IN e.number >= i /\ (e.number = i /\ ~e.clears => e.message = j)
  <2>1. CASE i = n /\ j = m
    BY <1>2, <1>4, <2>1 DEF MessageAt
  <2>2. CASE i \in own.kept.under[j]
    <3>1. i \in Nat /\ SlotOf(i) \in Slots
      BY <1>1, <2>2, StoreIs, NumbersAreNat, SlotTyped
    <3>2. /\ own.index.ring[SlotOf(i)].number >= i
          /\ own.index.ring[SlotOf(i)].number = i /\ ~own.index.ring[SlotOf(i)].clears
               => own.index.ring[SlotOf(i)].message = j
      BY <2>2 DEF WellKept
    <3>3. CASE SlotOf(i) = SlotOf(n)
      <4>1. own'.index.ring[SlotOf(i)].number = n
        BY <1>2, <1>4, <3>3 DEF MessageAt
      <4>2. i < n
        BY <1>2, <1>3, <3>1, <3>2
      <4> QED
        BY <1>2, <2>2, <3>1, <4>1, <4>2
    <3>4. CASE SlotOf(i) # SlotOf(n)
      BY <1>4, <2>2, <3>1, <3>2, <3>4
    <3> QED
      BY <3>3, <3>4
  <2> QED
    BY <2>1, <2>2 DEF Written
<1>6. \A s \in Slots : own.index.ring[s].number <= own'.index.ring[s].number
  BY <1>2, <1>3, <1>4 DEF MessageAt
<1> QED
  BY <1>5, <1>6 DEF WellKept, Moves

LEMMA PulledStays ==
  ASSUME TypedInv, WellKept(own), NEW r \in Relays, NEW s \in Slots, Pulled(r, s)
  PROVE  WellKept(own') /\ Moves
<1> DEFINE e == relay[r][s]
           f == own.index.ring[s]
<1>1. own \in Store /\ own' \in Store /\ e \in Entries /\ f \in Entries
  BY StoreIs DEF TypedInv, TypeOK, Pulled
<1>2. e.number \in Nat /\ f.number \in Nat /\ e.number >= f.number /\ (e.number = f.number => e.clears)
  BY <1>1, EntryTyped, AboveIs DEF Pulled, TypedInv, WellRing
<1>3. \A t \in Slots : own'.index.ring[t] = IF t = s THEN e ELSE own.index.ring[t]
  BY <1>1, StoreIs DEF Pulled
<1>4. \A t \in Slots : own.index.ring[t].number \in Nat
  BY <1>1, StoreIs, EntryTyped
<1>5. ASSUME NEW j \in Messages, NEW i \in own'.kept.under[j]
      PROVE  /\ i \in own.kept.under[j]
             /\ LET g == own'.index.ring[SlotOf(i)]
                IN g.number >= i /\ (g.number = i /\ ~g.clears => g.message = j)
  <2>1. i \in own.kept.under[j]
    BY DEF Pulled
  <2>2. i \in Nat /\ SlotOf(i) \in Slots
    BY <1>1, <2>1, StoreIs, NumbersAreNat, SlotTyped
  <2>3. /\ own.index.ring[SlotOf(i)].number >= i
        /\ own.index.ring[SlotOf(i)].number = i /\ ~own.index.ring[SlotOf(i)].clears
             => own.index.ring[SlotOf(i)].message = j
    BY <2>1 DEF WellKept
  <2> HIDE DEF e, f
  <2>4. CASE SlotOf(i) = s
    <3>1. own'.index.ring[SlotOf(i)] = e /\ f.number >= i
      BY <1>3, <2>2, <2>3, <2>4 DEF f
    <3> QED
      BY <1>2, <2>1, <2>2, <3>1
  <2>5. CASE SlotOf(i) # s
    BY <1>3, <2>1, <2>2, <2>3, <2>5
  <2> QED
    BY <2>4, <2>5
<1>6. \A t \in Slots : own.index.ring[t].number <= own'.index.ring[t].number
  BY <1>2, <1>3, <1>4
<1> QED
  BY <1>5, <1>6 DEF WellKept, Moves

LEMMA TidiedStays ==
  ASSUME TypedInv, WellKept(own), NEW cleared \in SUBSET Slots, NEW gone, Tidied(cleared, gone)
  PROVE  WellKept(own') /\ Moves
<1>1. own \in Store /\ own' \in Store
  BY DEF TypedInv, TypeOK, Tidied
<1>2. \A t \in Slots : own.index.ring[t].number \in Nat
  BY <1>1, StoreIs, EntryTyped
<1>3. \A t \in Slots :
        /\ own'.index.ring[t].number = own.index.ring[t].number
        /\ own'.index.ring[t].clears \/ own'.index.ring[t] = own.index.ring[t]
  BY DEF Tidied, ClearingOf
<1>4. \A m \in Messages : own'.kept.under[m] \subseteq own.kept.under[m]
  BY DEF Tidied
<1>5. \A m \in Messages : \A i \in own.kept.under[m] : SlotOf(i) \in Slots
  BY <1>1, StoreIs, NumbersAreNat, SlotTyped
<1>6. WellKept(own')
  BY <1>3, <1>4, <1>5 DEF WellKept
<1>7. Moves
  BY <1>2, <1>3, <1>4 DEF Moves
<1> QED
  BY <1>6, <1>7

LEMMA HandedHad ==
  ASSUME TypedInv, RelayHad, NEW r \in Relays, NEW s \in Slots, NEW e \in Entries,
         WellAt(e, s), Handed(r, s, e)
  PROVE  /\ RelayHad'
         /\ \A q \in Relays : had[q] \subseteq had'[q]
         /\ Says(e, relay[r][s]) = "holds" /\ e # Nothing /\ ~e.clears => e.message \in had'[r]
<1>1. /\ relay \in [Relays -> [Slots -> Entries]]
      /\ had \in [Relays -> SUBSET Messages]
  BY DEF TypedInv, TypeOK
<1>2. \A q \in Relays : had[q] \subseteq had'[q]
  BY <1>1 DEF Handed
<1>3. Above(e, relay[r][s]) /\ ~e.clears => e.message \in had'[r]
  BY <1>1 DEF Handed
<1>4. \A q \in Relays, t \in Slots :
        relay'[q][t] = IF q = r /\ t = s /\ Above(e, relay[r][s]) THEN e ELSE relay[q][t]
  BY <1>1 DEF Handed
<1>5. RelayHad'
  BY <1>2, <1>3, <1>4 DEF RelayHad
<1>6. ASSUME Says(e, relay[r][s]) = "holds", e # Nothing, ~e.clears
      PROVE  e.message \in had'[r]
  <2>1. Above(e, relay[r][s]) \/ e = relay[r][s]
    BY <1>6 DEF Says
  <2>2. CASE e = relay[r][s]
    BY <1>2, <1>6, <2>2 DEF RelayHad
  <2> QED
    BY <1>3, <1>6, <2>1, <2>2
<1> QED
  BY <1>2, <1>5, <1>6

(* What is taken stays so, where no more is and the relays forget nothing. *)
LEMMA TakenStays ==
  ASSUME NEW o, NEW p, NEW h, NEW g, TakenWell(o, h),
         \A m \in Messages : p.kept.taken[m] \subseteq o.kept.taken[m],
         \A r \in Relays : h[r] \subseteq g[r]
  PROVE  TakenWell(p, g)
BY DEF TakenWell

LEMMA AnswerTaken ==
  ASSUME own \in Store, TakenWell(own, had), NEW r \in Relays, NEW e \in Entries, NEW says,
         \A q \in Relays : had[q] \subseteq had'[q],
         ~e.clears => \A m \in Messages : e.number \in own.kept.under[m] /\ says = "holds" =>
                        m \in had'[r],
         own' = TakeAnswer(own, r, e, says)
  PROVE  TakenWell(own', had')
<1> SUFFICES ASSUME NEW m \in Messages, NEW q \in Relays, q \in own'.kept.taken[m]
             PROVE  m \in had'[q]
  BY DEF TakenWell
<1>1. q \in own.kept.taken[m] \/ (q = r /\ TakenUnder(own, e, says, m))
  BY TakeAnswerIs
<1>2. CASE q \in own.kept.taken[m]
  BY <1>2 DEF TakenWell
<1>3. CASE q = r /\ TakenUnder(own, e, says, m)
  BY <1>3 DEF TakenUnder
<1> QED
  BY <1>1, <1>2, <1>3

LEMMA InitKept == Init => KeptInv
<1> SUFFICES ASSUME Init PROVE KeptInv
  OBVIOUS
<1>1. WellKept(NoStore)
  BY DEF WellKept, NoStore
<1>2. \A h : TakenWell(NoStore, h)
  BY DEF TakenWell, NoStore
<1>3. RelayHad
  BY DEF Init, RelayHad
<1>4. ASSUME NEW r \in Relays PROVE AnswerWell(r)
  <2>1. answer[r].to.number = 0 /\ 0 \in Nat
    BY <1>4 DEF Init, NoAnswer, Nothing
  <2>2. SlotOf(0) \in Slots
    BY SlotTyped
  <2>3. own.index.ring[SlotOf(0)].number = 0
    BY <2>2 DEF Init, NoStore, NoIndex, Nothing
  <2>4. \A m \in Messages : own.kept.under[m] = {}
    BY DEF Init, NoStore
  <2> QED
    BY <2>1, <2>3, <2>4 DEF AnswerWell
<1> QED
  BY <1>1, <1>2, <1>3, <1>4 DEF Init, KeptInv

(* No answer is on its way.                                                *)
LEMMA NoneWell ==
  ASSUME TypedInv', NEW r \in Relays, answer'[r] = NoAnswer
  PROVE  AnswerWell(r)'
<1>1. own' \in Store
  BY DEF TypedInv, TypeOK
<1>2. SlotOf(0) \in Slots
  BY SlotTyped
<1>3. own'.index.ring[SlotOf(0)].number \in Nat
  BY <1>1, <1>2, StoreIs, EntryTyped
<1>4. \A m \in Messages : 0 \notin own'.kept.under[m]
  BY <1>1, StoreIs DEF Numbers
<1> QED
  BY <1>3, <1>4 DEF AnswerWell, NoAnswer, Nothing

LEMMA NextKept == TypedInv /\ KeptInv /\ [Next]_vars => KeptInv'
<1> SUFFICES ASSUME TypedInv, KeptInv, [Next]_vars PROVE KeptInv'
  OBVIOUS
<1>new. TypedInv'
  BY NextTyped
<1>own. /\ TypeOK /\ own \in Store /\ own' \in Store
        /\ WellKept(own) /\ WellKept(copy) /\ TakenWell(own, had) /\ TakenWell(copy, had)
        /\ RelayHad /\ \A r \in Relays : AnswerWell(r)
  BY <1>new DEF TypedInv, TypeOK, KeptInv
(* The sender's store moves on, and nothing else that the invariant tells. *)
<1>moves. ASSUME WellKept(own'), Moves, UNCHANGED <<relay, copy, answer, had>>,
                 \A m \in Messages : own'.kept.taken[m] \subseteq own.kept.taken[m]
          PROVE  KeptInv'
  <2>1. TakenWell(own', had')
    BY <1>own, <1>moves, TakenStays
  <2>2. \A r \in Relays : AnswerWell(r)'
    BY <1>new, <1>own, <1>moves, AnswerStays
  <2>3. RelayHad'
    BY <1>own, <1>moves DEF RelayHad
  <2> QED
    BY <1>own, <1>moves, <2>1, <2>2, <2>3 DEF KeptInv
<1>same. ASSUME UNCHANGED <<relay, own, copy, had>>,
                \A r \in Relays : answer'[r] = answer[r] \/ answer'[r] = NoAnswer
         PROVE  KeptInv'
  <2>1. Moves
    <3>1. \A s \in Slots : own.index.ring[s].number \in Nat
      BY <1>own, StoreIs, EntryTyped
    <3> QED
      BY <1>same, <3>1 DEF Moves
  <2>2. \A r \in Relays : AnswerWell(r)'
    BY <1>new, <1>own, <1>same, <2>1, AnswerStays, NoneWell
  <2>3. RelayHad'
    BY <1>own, <1>same DEF RelayHad
  <2> QED
    BY <1>own, <1>same, <2>2, <2>3 DEF KeptInv
<1>1. CASE Send
  <2>1. PICK n : IsNext(own.index, n) /\ Written(n, sent + 1)
    BY <1>1, <1>own, SendIs
  <2>2. sent + 1 \in Messages
    BY <1>1 DEF Send
  <2>3. WellKept(own') /\ Moves
    BY <1>own, <2>1, <2>2, WrittenStays
  <2>4. \A m \in Messages : own'.kept.taken[m] \subseteq own.kept.taken[m]
    BY <2>1 DEF Written
  <2> QED
    BY <1>1, <1>moves, <2>3, <2>4 DEF Send
<1>2. CASE WriteAgain
  <2>1. CASE Lessened
    <3>1. WellKept(own') /\ Moves
      BY <1>own, <2>1, KeptStays DEF Lessened
    <3> QED
      BY <1>2, <1>moves, <2>1, <3>1 DEF WriteAgain, Lessened
  <2>2. CASE \E m \in Messages : \E n : IsNext(own.index, n) /\ Written(n, m)
    <3>1. PICK m \in Messages : \E n : IsNext(own.index, n) /\ Written(n, m)
      BY <2>2
    <3>2. WellKept(own') /\ Moves
      BY <1>own, <3>1, WrittenStays
    <3>3. \A j \in Messages : own'.kept.taken[j] \subseteq own.kept.taken[j]
      BY <3>1 DEF Written
    <3> QED
      BY <1>2, <1>moves, <3>2, <3>3 DEF WriteAgain
  <2> QED
    BY <1>2, <1>own, <2>1, <2>2, WriteAgainIs
<1>3. CASE TakenEverywhere
  <2>1. PICK gone \in SUBSET Messages : own' = Drop(own, gone, TRUE)
    BY <1>3 DEF TakenEverywhere
  <2>2. Dropped(own, own', gone)
    BY <1>own, <2>1, DropIs
  <2>3. \A m \in Messages : /\ own'.kept.under[m] \subseteq own.kept.under[m]
                           /\ own'.kept.taken[m] \subseteq own.kept.taken[m]
    BY <2>2 DEF Dropped
  <2>4. WellKept(own') /\ Moves
    BY <1>own, <2>2, <2>3, KeptStays DEF Dropped
  <2> QED
    BY <1>3, <1>moves, <2>3, <2>4 DEF TakenEverywhere
<1>4. CASE Hourly
  <2>1. PICK cleared \in SUBSET Slots, gone \in SUBSET (Expired \cap Messages) :
          Tidied(cleared, gone)
    BY <1>4, <1>own, HourlyIs DEF TypedInv
  <2>2. WellKept(own') /\ Moves
    BY <1>own, <2>1, TidiedStays
  <2>3. \A m \in Messages : own'.kept.taken[m] \subseteq own.kept.taken[m]
    BY <2>1 DEF Tidied
  <2>4. UNCHANGED <<relay, copy, answer, had>>
    BY <1>4 DEF Hourly
  <2> QED
    BY <1>moves, <2>2, <2>3, <2>4
<1>5. ASSUME NEW r \in Relays, Pull(r) PROVE KeptInv'
  <2>1. PICK s \in Slots : Pulled(r, s)
    BY <1>5, PullIs
  <2>2. WellKept(own') /\ Moves
    BY <1>own, <2>1, PulledStays
  <2> QED
    BY <1>5, <1>moves, <2>1, <2>2 DEF Pull, Pulled
<1>6. ASSUME NEW r \in Relays, ReadToEnd(r) PROVE KeptInv'
  BY <1>6, <1>same DEF ReadToEnd
<1>7. ASSUME NEW r \in Relays, Push(r) PROVE KeptInv'
  <2> DEFINE e(s) == own.index.ring[s]
             says(s) == Says(e(s), relay[r][s])
  <2>1. PICK s \in Slots :
          /\ Handed(r, s, e(s))
          /\ \/ own' = TakeAnswer(own, r, e(s), says(s)) /\ UNCHANGED answer
             \/ answer' = [answer EXCEPT ![r] = [to |-> e(s), says |-> says(s)]] /\ UNCHANGED own
    BY <1>7, PushIs
  <2>2. e(s) \in Entries /\ WellAt(e(s), s)
    BY <1>own, StoreIs DEF TypedInv, WellRing
  <2>3. /\ RelayHad' /\ \A q \in Relays : had[q] \subseteq had'[q]
        /\ says(s) = "holds" /\ e(s) # Nothing /\ ~e(s).clears => e(s).message \in had'[r]
    BY <1>own, <2>1, <2>2, HandedHad
  <2>4. \A m \in Messages : e(s).number \in own.kept.under[m] =>
          e(s) # Nothing /\ SlotOf(e(s).number) = s /\ e(s).number \in Nat
    <3>1. \A m \in Messages : e(s).number \in own.kept.under[m] => e(s).number \in Numbers
      BY <1>own, StoreIs
    <3> QED
      BY <2>2, <3>1, EntryTyped DEF WellAt, Nothing, Numbers
  <2>5. ~e(s).clears => \A m \in Messages : e(s).number \in own.kept.under[m] =>
          e(s).message = m /\ (says(s) = "holds" => m \in had'[r])
    BY <1>own, <2>3, <2>4 DEF WellKept
  <2>6. UNCHANGED copy
    BY <1>7 DEF Push
  <2>7. TakenWell(copy', had')
    BY <1>own, <2>3, <2>6, TakenStays
  <2>8. \A t \in Slots : own.index.ring[t].number \in Nat
    BY <1>own, StoreIs, EntryTyped
  <2>9. CASE own' = TakeAnswer(own, r, e(s), says(s)) /\ UNCHANGED answer
    <3>1. TakenWell(own', had')
      <4>1. ~e(s).clears => \A m \in Messages :
              e(s).number \in own.kept.under[m] /\ says(s) = "holds" => m \in had'[r]
        BY <2>5
      <4> HIDE DEF e, says
      <4> QED
        BY <1>own, <2>2, <2>3, <2>9, <4>1, AnswerTaken
    <3>2. own'.index = own.index /\ own'.kept.under = own.kept.under
      BY <1>own, <2>2, <2>9, TakeAnswerIs
    <3>3. WellKept(own') /\ Moves
      BY <1>own, <3>2, KeptStays
    <3>4. \A q \in Relays : AnswerWell(q)'
      BY <1>new, <1>own, <2>3, <2>9, <3>3, AnswerStays
    <3> QED
      BY <1>own, <2>3, <2>6, <2>7, <3>1, <3>3, <3>4 DEF KeptInv
  <2>10. CASE answer' = [answer EXCEPT ![r] = [to |-> e(s), says |-> says(s)]] /\ UNCHANGED own
    <3>1. Moves
      BY <2>8, <2>10 DEF Moves
    <3>2. \A q \in Relays : q # r => AnswerWell(q)'
      BY <1>new, <1>own, <2>3, <2>10, <3>1, AnswerStays DEF TypeOK
    <3>3. answer'[r].to = e(s) /\ answer'[r].says = says(s)
      BY <1>own, <2>10 DEF TypeOK
    <3>4. e(s).number <= own'.index.ring[SlotOf(e(s).number)].number
      <4>1. CASE e(s) = Nothing
        <5>1. e(s).number = 0 /\ SlotOf(0) \in Slots
          BY <4>1, SlotTyped DEF Nothing
        <5> QED
          BY <2>8, <2>10, <5>1
      <4>2. CASE e(s) # Nothing
        BY <2>2, <2>8, <2>10, <4>2 DEF WellAt
      <4> QED
        BY <4>1, <4>2
    <3> HIDE DEF e, says
    <3>5. AnswerWell(r)'
      BY <2>5, <2>10, <3>3, <3>4 DEF AnswerWell
    <3>6. WellKept(own') /\ TakenWell(own', had')
      BY <1>own, <2>3, <2>10, TakenStays
    <3> QED
      BY <1>own, <2>3, <2>6, <2>7, <3>2, <3>5, <3>6 DEF KeptInv
  <2> QED
    BY <2>1, <2>9, <2>10
<1>8. ASSUME NEW r \in Relays, Answered(r) PROVE KeptInv'
  <2>1. /\ own' = TakeAnswer(own, r, answer[r].to, answer[r].says)
        /\ answer' = [answer EXCEPT ![r] = NoAnswer]
        /\ UNCHANGED <<relay, copy, had>>
    BY <1>8 DEF Answered
  <2>2. answer[r].to \in Entries /\ answer \in [Relays -> Answers]
    BY <1>own DEF TypeOK, Answers
  <2>3. TakenWell(own', had')
    <3>1. ~answer[r].to.clears => \A m \in Messages :
            answer[r].to.number \in own.kept.under[m] /\ answer[r].says = "holds" => m \in had'[r]
      BY <1>own, <2>1 DEF AnswerWell
    <3> QED
      BY <1>own, <2>1, <2>2, <3>1, AnswerTaken
  <2>4. own'.index = own.index /\ own'.kept.under = own.kept.under
    <3>1. \A says : /\ TakeAnswer(own, r, answer[r].to, says).index = own.index
                    /\ TakeAnswer(own, r, answer[r].to, says).kept.under = own.kept.under
      BY <1>own, <2>2, TakeAnswerIs
    <3> QED
      BY <2>1, <3>1
  <2>5. WellKept(own') /\ Moves
    BY <1>own, <2>4, KeptStays
  <2>6. \A q \in Relays : AnswerWell(q)'
    <3> TAKE q \in Relays
    <3>1. CASE q = r
      BY <1>new, <2>1, <2>2, <3>1, NoneWell
    <3>2. CASE q # r
      BY <1>new, <1>own, <2>1, <2>2, <2>5, <3>2, AnswerStays
    <3> QED
      BY <3>1, <3>2
  <2>7. RelayHad'
    BY <1>own, <2>1 DEF RelayHad
  <2> QED
    BY <1>own, <2>1, <2>3, <2>5, <2>6, <2>7 DEF KeptInv
<1>9. ASSUME NEW r \in Relays, Lose(r) PROVE KeptInv'
  <2>1. \A q \in Relays : answer'[q] = answer[q] \/ answer'[q] = NoAnswer
    BY <1>9, <1>own DEF Lose, TypeOK
  <2> QED
    BY <1>9, <1>same, <2>1 DEF Lose
<1>10. CASE Restart
  BY <1>10, <1>same DEF Restart
<1>11. CASE Copy
  <2>1. KeptInv'
    <3>1. UNCHANGED <<relay, own, answer, had>> /\ copy' = own
      BY <1>11 DEF Copy
    <3> QED
      BY <1>own, <3>1 DEF KeptInv, RelayHad, AnswerWell
  <2> QED
    BY <2>1
<1>12. CASE GoBack
  <2>1. /\ UNCHANGED <<relay, copy, had>> /\ own' = copy
        /\ \A r \in Relays : answer'[r] = NoAnswer
    BY <1>12 DEF GoBack
  <2>2. \A r \in Relays : AnswerWell(r)'
    BY <1>new, <2>1, NoneWell
  <2>3. RelayHad'
    BY <1>own, <2>1 DEF RelayHad
  <2> QED
    BY <1>own, <2>1, <2>2, <2>3 DEF KeptInv
<1>13. ASSUME NEW x \in Readers, NEW r \in Relays, ReaderPull(x, r) PROVE KeptInv'
  BY <1>13, <1>same DEF ReaderPull
<1>14. ASSUME NEW x \in Readers, NEW r \in Relays, ReaderPush(x, r) PROVE KeptInv'
  <2>1. PICK s \in Slots :
          /\ Above(reader[x].ring[s], relay[r][s])
          /\ relay' = [relay EXCEPT ![r][s] = reader[x].ring[s]]
          /\ Took(r, reader[x].ring[s])
    BY <1>14 DEF ReaderPush
  <2>2. reader[x].ring[s] \in Entries /\ WellAt(reader[x].ring[s], s)
    BY <1>own DEF TypedInv, TypeOK, WellRing, Index
  <2>3. Handed(r, s, reader[x].ring[s])
    BY <1>own, <2>1 DEF Handed, Took, TypeOK
  <2>4. RelayHad' /\ \A q \in Relays : had[q] \subseteq had'[q]
    BY <1>own, <2>2, <2>3, HandedHad
  <2>5. UNCHANGED <<own, copy, answer>>
    BY <1>14 DEF ReaderPush
  <2>6. TakenWell(own', had') /\ TakenWell(copy', had')
    BY <1>own, <2>4, <2>5, TakenStays
  <2>7. \A t \in Slots : own.index.ring[t].number \in Nat
    BY <1>own, StoreIs, EntryTyped
  <2>8. Moves
    BY <2>5, <2>7 DEF Moves
  <2>9. \A q \in Relays : AnswerWell(q)'
    BY <1>new, <1>own, <2>4, <2>5, <2>8, AnswerStays
  <2> QED
    BY <1>own, <2>4, <2>5, <2>6, <2>9 DEF KeptInv
<1>15. ASSUME NEW x \in Readers, ReaderHourly(x) PROVE KeptInv'
  BY <1>15, <1>same DEF ReaderHourly
<1>16. CASE Expire
  BY <1>16, <1>same DEF Expire
<1>17. CASE UNCHANGED vars
  BY <1>17, <1>same DEF vars
<1> QED
  BY <1>1, <1>2, <1>3, <1>4, <1>5, <1>6, <1>7, <1>8, <1>9, <1>10, <1>11, <1>12, <1>13, <1>14,
     <1>15, <1>16, <1>17 DEF Next

LEMMA Invariants == Spec => [](TypedInv /\ KeptInv)
<1>1. TypedInv /\ KeptInv /\ [Next]_vars => (TypedInv /\ KeptInv)'
  BY NextTyped, NextKept
<1> QED
  BY <1>1, InitTyped, InitKept, PTL DEF Spec

(***************************************************************************)
(* What counts as taken by a relay was taken there, whatever numbers were  *)
(* written twice, answers came late and copies the store went back to.     *)
(***************************************************************************)
THEOREM TakenWasTaken == Spec => []TakenIsThere
<1>1. KeptInv => TakenIsThere
  BY DEF KeptInv, TakenWell, TakenIsThere
<1> QED
  BY <1>1, Invariants, PTL

(***************************************************************************)
(* A message is kept until every relay took it, its index says that one    *)
(* may not have, it is shown no more, or the store goes back.              *)
(***************************************************************************)
THEOREM KeptTillTaken == Spec => KeptUntilTaken
<1> DEFINE A == \A m \in Messages :
                  IsKept(own.kept, m) /\ ~IsKept(own.kept', m) =>
                    \/ \A r \in Relays : m \in had[r]
                    \/ m \in own.kept.unsure'
                    \/ m \notin Rows(own.index)'
                    \/ m \in Expired
                    \/ own' = copy
<1>1. TypedInv /\ KeptInv /\ [Next]_vars => [A]_vars
  <2> SUFFICES ASSUME TypedInv, KeptInv, Next PROVE A
    OBVIOUS
  <2>own. TypeOK /\ own \in Store /\ TakenWell(own, had)
    BY DEF TypedInv, TypeOK, KeptInv
  <2>forgets. Forgets => A
    BY DEF Forgets, LetGo
  <2>same. own'.kept.under = own.kept.under => A
    BY DEF IsKept
  <2>1. CASE Send \/ WriteAgain
    BY <2>1, <2>own, <2>forgets, SendIs, WriteAgainIs
  <2>2. CASE TakenEverywhere
    <3> DEFINE gone == {m \in Messages : IsKept(own.kept, m) /\ own.kept.taken[m] = Relays}
    <3>1. own' = Drop(own, gone, TRUE) /\ gone \in SUBSET Messages
      BY <2>2 DEF TakenEverywhere
    <3>2. Dropped(own, own', gone)
      BY <2>own, <3>1, DropIs
    <3>3. \A m \in Messages : IsKept(own.kept, m) /\ ~IsKept(own.kept', m) => m \in gone
      BY <3>2 DEF Dropped, IsKept
    <3>4. \A m \in gone : \A r \in Relays : m \in had[r]
      BY <2>own DEF TakenWell
    <3> QED
      BY <3>3, <3>4
  <2>3. CASE Hourly
    <3>1. PICK cleared \in SUBSET Slots, gone \in SUBSET (Expired \cap Messages) :
            Tidied(cleared, gone)
      BY <2>3, <2>own, HourlyIs DEF TypedInv
    <3>2. \A m \in Messages : own'.kept.under[m] = IF m \in gone THEN {} ELSE own.kept.under[m]
      BY <3>1 DEF Tidied
    <3> QED
      BY <3>2 DEF IsKept
  <2>4. ASSUME NEW r \in Relays, Pull(r) PROVE A
    <3>1. own'.kept.under = own.kept.under
      BY <2>4, PullIs DEF Pulled
    <3> QED
      BY <3>1, <2>same
  <2>5. ASSUME NEW r \in Relays, Push(r) \/ Answered(r) PROVE A
    <3>1. \A e \in Entries : \A says : TakeAnswer(own, r, e, says).kept.under = own.kept.under
      BY <2>own, TakeAnswerIs
    <3>2. answer[r].to \in Entries /\ \A s \in Slots : own.index.ring[s] \in Entries
      BY <2>own, StoreIs DEF TypeOK, Answers
    <3>3. own'.kept.under = own.kept.under
      <4>1. CASE Push(r)
        BY <3>1, <3>2, <4>1, PushIs
      <4>2. CASE Answered(r)
        BY <3>1, <3>2, <4>2 DEF Answered
      <4> QED
        BY <2>5, <4>1, <4>2
    <3> QED
      BY <3>3, <2>same
  <2>6. CASE GoBack
    BY <2>6 DEF GoBack
  <2>7. CASE UNCHANGED own
    BY <2>7, <2>same
  <2> QED
    BY <2>1, <2>2, <2>3, <2>4, <2>5, <2>6, <2>7
       DEF Next, ReadToEnd, Lose, Restart, Copy, Expire, ReaderHourly, ReaderPull, ReaderPush
<1> QED
  BY <1>1, Invariants, PTL DEF Spec, KeptUntilTaken

-----------------------------------------------------------------------------
(***************************************************************************)
(* One message for one number.  What a reader holds was at a relay; what a *)
(* relay that was read holds is in the sender's ring, or at one that was   *)
(* not read: so that a number above all of the sender's own, once each was *)
(* read, is above every one there is.                                      *)
(***************************************************************************)
ReadersBelow ==
  \A x \in Readers, s \in Slots :
    \E q \in Relays : reader[x].ring[s].number <= relay[q][s].number
ReadBelow ==
  \A r \in fetched, s \in Slots :
    \/ relay[r][s].number <= own.index.ring[s].number
    \/ \E q \in Relays \ fetched : relay[r][s].number <= relay[q][s].number
CopyBelow ==
  \A s \in Slots : copy.index.ring[s].number <= own.index.ring[s].number

AllRings == Rings \cup {copy.index.ring}
Agree(e, f) == e.number = f.number /\ ~e.clears /\ ~f.clears => e = f
AllAgree == \A a, b \in AllRings, s \in Slots : Agree(a[s], b[s])

OrderInv == ReadersBelow /\ ReadBelow /\ CopyBelow
OneInv == hasty \/ AllAgree

LEMMA NumbersTyped ==
  ASSUME TypeOK, NEW s \in Slots
  PROVE  /\ own.index.ring[s].number \in Nat /\ copy.index.ring[s].number \in Nat
         /\ \A r \in Relays : relay[r][s].number \in Nat
         /\ \A x \in Readers : reader[x].ring[s].number \in Nat
<1>1. /\ own.index.ring[s] \in Entries /\ copy.index.ring[s] \in Entries
      /\ \A r \in Relays : relay[r][s] \in Entries
  BY StoreIs DEF TypeOK
<1>2. \A x \in Readers : reader[x].ring[s] \in Entries
  BY DEF TypeOK, Index
<1> QED
  BY <1>1, <1>2, EntryTyped

(* The numbers of the sender's ring grow, at least; relays and readers are *)
(* as they were.                                                           *)
OwnGrows == \A s \in Slots : own.index.ring[s].number <= own'.index.ring[s].number
RelaysGrow == \A q \in Relays, s \in Slots : relay[q][s].number <= relay'[q][s].number

LEMMA OwnStays ==
  ASSUME TypedInv, TypedInv', OrderInv, OwnGrows, UNCHANGED <<relay, reader, fetched, copy>>
  PROVE  OrderInv'
<1>1. \A s \in Slots : /\ own.index.ring[s].number \in Nat /\ own'.index.ring[s].number \in Nat
                       /\ copy.index.ring[s].number \in Nat
  BY NumbersTyped, StoreIs, EntryTyped DEF TypedInv, TypeOK
<1>2. \A r \in Relays, s \in Slots : relay[r][s].number \in Nat
  BY NumbersTyped DEF TypedInv
<1>3. fetched \subseteq Relays
  BY DEF TypedInv, TypeOK
<1>4. ReadBelow'
  <2> SUFFICES ASSUME NEW r \in fetched, NEW s \in Slots
               PROVE  \/ relay[r][s].number <= own'.index.ring[s].number
                      \/ \E q \in Relays \ fetched : relay[r][s].number <= relay[q][s].number
    BY DEF ReadBelow
  <2>1. CASE relay[r][s].number <= own.index.ring[s].number
    BY <1>1, <1>2, <1>3, <2>1 DEF OwnGrows
  <2> QED
    BY <2>1 DEF OrderInv, ReadBelow
<1>5. CopyBelow'
  BY <1>1 DEF OrderInv, CopyBelow, OwnGrows
<1> QED
  BY <1>4, <1>5 DEF OrderInv, ReadersBelow

LEMMA HandedGrows ==
  ASSUME TypedInv, NEW r \in Relays, NEW s \in Slots, NEW e \in Entries, WellAt(e, s),
         Handed(r, s, e)
  PROVE  /\ RelaysGrow
         /\ \A q \in Relays, t \in Slots :
              relay'[q][t] = relay[q][t] \/ (q = r /\ t = s /\ relay'[q][t] = e)
<1>1. relay \in [Relays -> [Slots -> Entries]] /\ \A q \in Relays : WellRing(relay[q])
  BY DEF TypedInv, TypeOK
<1>2. \A q \in Relays, t \in Slots :
        relay'[q][t] = IF q = r /\ t = s /\ Above(e, relay[r][s]) THEN e ELSE relay[q][t]
  BY <1>1 DEF Handed
<1>3. Above(e, relay[r][s]) => relay[r][s].number <= e.number
  BY <1>1, AboveIs, EntryTyped DEF WellRing
<1>4. \A q \in Relays, t \in Slots : relay[q][t].number \in Nat
  BY <1>1, EntryTyped
<1> QED
  BY <1>2, <1>3, <1>4 DEF RelaysGrow

LEMMA RelaysStay ==
  ASSUME TypedInv, TypedInv', OrderInv, RelaysGrow, UNCHANGED <<reader, fetched, copy>>,
         own'.index = own.index,
         \A r \in fetched, s \in Slots :
           \/ relay'[r][s] = relay[r][s]
           \/ relay'[r][s].number <= own.index.ring[s].number
           \/ \E q \in Relays : relay'[r][s].number <= relay[q][s].number
  PROVE  OrderInv'
<1>1. \A r \in Relays, s \in Slots : /\ relay[r][s].number \in Nat /\ relay'[r][s].number \in Nat
                                     /\ relay[r][s].number <= relay'[r][s].number
  <2>1. relay' \in [Relays -> [Slots -> Entries]]
    BY DEF TypedInv, TypeOK
  <2> QED
    BY <2>1, NumbersTyped, EntryTyped DEF RelaysGrow, TypedInv
<1>2. \A s \in Slots : own.index.ring[s].number \in Nat
  BY NumbersTyped DEF TypedInv
<1>3. fetched \subseteq Relays
  BY DEF TypedInv, TypeOK
<1>4. \A x \in Readers, s \in Slots : reader[x].ring[s].number \in Nat
  BY NumbersTyped DEF TypedInv
<1>5. ReadersBelow'
  BY <1>1, <1>4 DEF OrderInv, ReadersBelow
<1>6. ReadBelow'
  <2> SUFFICES ASSUME NEW r \in fetched, NEW s \in Slots
               PROVE  \/ relay'[r][s].number <= own.index.ring[s].number
                      \/ \E q \in Relays \ fetched : relay'[r][s].number <= relay'[q][s].number
    BY DEF ReadBelow
  <2>1. CASE relay'[r][s].number <= own.index.ring[s].number
    BY <2>1
  (* What is at some relay is in the sender's ring, or at one not read.    *)
  <2>2. ASSUME NEW q \in Relays, relay'[r][s].number <= relay[q][s].number
        PROVE  \/ relay'[r][s].number <= own.index.ring[s].number
               \/ \E p \in Relays \ fetched : relay'[r][s].number <= relay'[p][s].number
    <3>1. CASE q \notin fetched
      BY <1>1, <1>3, <2>2, <3>1
    <3>2. CASE q \in fetched /\ relay[q][s].number <= own.index.ring[s].number
      BY <1>1, <1>2, <1>3, <2>2, <3>2
    <3>3. ASSUME NEW p \in Relays \ fetched, relay[q][s].number <= relay[p][s].number
          PROVE  relay'[r][s].number <= relay'[p][s].number
      BY <1>1, <1>3, <2>2, <3>3
    <3> QED
      BY <3>1, <3>2, <3>3 DEF OrderInv, ReadBelow
  <2>3. CASE relay'[r][s] = relay[r][s]
    BY <1>1, <1>3, <2>2, <2>3
  <2> QED
    BY <2>1, <2>2, <2>3
<1> QED
  BY <1>5, <1>6 DEF OrderInv, CopyBelow

LEMMA ReadStays ==
  ASSUME TypedInv, OrderInv, NEW r \in Relays, ReadToEnd(r)
  PROVE  OrderInv'
<1>1. /\ \A s \in Slots : ~Above(relay[r][s], own.index.ring[s])
      /\ fetched' = fetched \cup {r} /\ UNCHANGED <<relay, own, copy, reader>>
  BY DEF ReadToEnd
<1>2. fetched \subseteq Relays
  BY DEF TypedInv, TypeOK
<1>3. \A s \in Slots : relay[r][s].number <= own.index.ring[s].number
  BY <1>1, NumbersTyped DEF Above, TypedInv
<1>4. \A q \in Relays, s \in Slots : relay[q][s].number \in Nat /\ own.index.ring[s].number \in Nat
  BY NumbersTyped DEF TypedInv
<1>5. ReadBelow'
  <2> SUFFICES ASSUME NEW p \in fetched \cup {r}, NEW s \in Slots
               PROVE  \/ relay[p][s].number <= own.index.ring[s].number
                      \/ \E q \in Relays \ (fetched \cup {r}) : relay[p][s].number <= relay[q][s].number
    BY <1>1 DEF ReadBelow
  <2>1. CASE p = r
    BY <1>3, <2>1
  <2>2. ASSUME p \in fetched, NEW q \in Relays \ fetched, relay[p][s].number <= relay[q][s].number
        PROVE  \/ relay[p][s].number <= own.index.ring[s].number
               \/ \E o \in Relays \ (fetched \cup {r}) : relay[p][s].number <= relay[o][s].number
    <3>1. CASE q = r
      BY <1>2, <1>3, <1>4, <2>2, <3>1
    <3>2. CASE q # r
      BY <2>2, <3>2
    <3> QED
      BY <3>1, <3>2
  <2>3. p = r \/ p \in fetched
    OBVIOUS
  <2> QED
    BY <2>1, <2>2, <2>3 DEF OrderInv, ReadBelow
<1> QED
  BY <1>1, <1>5 DEF OrderInv, ReadersBelow, CopyBelow

LEMMA InitOrder == Init => OrderInv /\ OneInv
<1> SUFFICES ASSUME Init PROVE OrderInv /\ OneInv
  OBVIOUS
<1>1. \A a \in AllRings : a = [s \in Slots |-> Nothing]
  BY DEF Init, AllRings, Rings, NoStore, NoIndex
<1>2. AllAgree
  BY <1>1 DEF AllAgree, Agree
<1>3. CopyBelow
  BY DEF Init, CopyBelow, NoStore, NoIndex, Nothing
<1>4. PICK r \in Relays : TRUE
  BY RingAssumption
<1>5. ReadersBelow
  BY <1>4 DEF Init, ReadersBelow, NoIndex, Nothing
<1>6. ReadBelow
  BY DEF Init, ReadBelow
<1> QED
  BY <1>2, <1>3, <1>5, <1>6 DEF OrderInv, OneInv

(* Every entry was in the same slot of a ring, or is a clearing.           *)
LEMMA AgreeStays ==
  ASSUME AllAgree,
         \A a \in AllRings', s \in Slots : a[s].clears \/ \E c \in AllRings : a[s] = c[s]
  PROVE  AllAgree'
<1> SUFFICES ASSUME NEW a \in AllRings', NEW b \in AllRings', NEW s \in Slots
             PROVE  Agree(a[s], b[s])
  BY DEF AllAgree, Agree
<1>1. CASE a[s].clears \/ b[s].clears
  BY <1>1 DEF Agree
<1>2. ASSUME NEW c \in AllRings, NEW d \in AllRings, a[s] = c[s], b[s] = d[s]
      PROVE  Agree(a[s], b[s])
  BY <1>2 DEF AllAgree
<1> QED
  BY <1>1, <1>2

LEMMA RingsAre ==
  /\ own.index.ring \in AllRings /\ copy.index.ring \in AllRings
  /\ \A x \in Readers : reader[x].ring \in AllRings
  /\ \A r \in Relays : relay[r] \in AllRings
  /\ \A a \in AllRings :
       \/ a = own.index.ring \/ a = copy.index.ring
       \/ \E x \in Readers : a = reader[x].ring
       \/ \E r \in Relays : a = relay[r]
BY DEF AllRings, Rings

LEMMA RingsBecome ==
  ASSUME NEW a \in AllRings'
  PROVE  \/ a = own'.index.ring \/ a = copy'.index.ring
         \/ \E x \in Readers : a = reader'[x].ring
         \/ \E r \in Relays : a = relay'[r]
BY DEF AllRings, Rings

(* Once every relay was read, the next number is above all there are.      *)
LEMMA NextIsNew ==
  ASSUME TypedInv, OrderInv, fetched = Relays, NEW n, IsNext(own.index, n),
         NEW a \in AllRings, NEW s \in Slots
  PROVE  a[s].number < n
<1>1. n \in Nat /\ own.index.ring[s].number < n
  BY NextIs, StoreIs DEF TypedInv, TypeOK
<1>2. /\ own.index.ring[s].number \in Nat /\ copy.index.ring[s].number \in Nat
      /\ \A r \in Relays : relay[r][s].number \in Nat
      /\ \A x \in Readers : reader[x].ring[s].number \in Nat
  BY NumbersTyped DEF TypedInv
<1>3. \A r \in Relays : relay[r][s].number <= own.index.ring[s].number
  BY DEF OrderInv, ReadBelow
<1>4. \A x \in Readers : reader[x].ring[s].number <= own.index.ring[s].number
  BY <1>2, <1>3 DEF OrderInv, ReadersBelow
<1>5. copy.index.ring[s].number <= own.index.ring[s].number
  BY DEF OrderInv, CopyBelow
<1> QED
  BY <1>1, <1>2, <1>3, <1>4, <1>5, RingsAre

LEMMA WrittenAgrees ==
  ASSUME TypedInv, OrderInv, AllAgree, fetched = Relays, NEW n, NEW m \in Messages,
         IsNext(own.index, n), Written(n, m), UNCHANGED <<relay, reader, copy>>
  PROVE  AllAgree'
<1>1. /\ own.index.ring \in [Slots -> Entries] /\ SlotOf(n) \in Slots /\ n \in Nat
  BY NextIs, StoreIs DEF TypedInv, TypeOK
<1>2. own'.index.ring = [own.index.ring EXCEPT ![SlotOf(n)] = MessageAt(n, m)]
  BY DEF Written
<1>3. \A a \in AllRings' : a = own'.index.ring \/ a \in AllRings
  BY RingsBecome, RingsAre
<1>4. \A a \in AllRings', s \in Slots :
        \/ \E c \in AllRings : a[s] = c[s]
        \/ s = SlotOf(n) /\ a[s] = MessageAt(n, m)
  BY <1>1, <1>2, <1>3, RingsAre
<1>5. \A c \in AllRings, s \in Slots : c[s].number < n
  BY NextIsNew
<1>6. \A c \in AllRings, s \in Slots : c[s].number # n
  <2>1. \A i : i < n => i # n
    BY <1>1
  <2> QED
    BY <1>5, <2>1
<1> SUFFICES ASSUME NEW a \in AllRings', NEW b \in AllRings', NEW s \in Slots
             PROVE  Agree(a[s], b[s])
  BY DEF AllAgree, Agree
<1>7. ASSUME NEW c \in AllRings, NEW d \in AllRings, a[s] = c[s], b[s] = d[s]
      PROVE  Agree(a[s], b[s])
  BY <1>7 DEF AllAgree
<1>8. \A c \in AllRings : Agree(MessageAt(n, m), c[s]) /\ Agree(c[s], MessageAt(n, m))
  BY <1>6 DEF Agree, MessageAt
<1>9. Agree(MessageAt(n, m), MessageAt(n, m))
  BY DEF Agree
<1> QED
  BY <1>4, <1>7, <1>8, <1>9

LEMMA NextOrder ==
  TypedInv /\ KeptInv /\ OrderInv /\ OneInv /\ [Next]_vars => OrderInv' /\ OneInv'
<1> SUFFICES ASSUME TypedInv, KeptInv, OrderInv, OneInv, [Next]_vars
             PROVE  OrderInv' /\ OneInv'
  OBVIOUS
<1>new. TypedInv'
  BY NextTyped
<1>own. /\ TypeOK /\ own \in Store /\ own' \in Store /\ WellKept(own)
        /\ own.index.ring \in [Slots -> Entries]
  BY <1>new, StoreIs DEF TypedInv, TypeOK, KeptInv
<1>grows. Moves => OwnGrows
  BY DEF Moves, OwnGrows
(* Nothing is written: entries go from ring to ring, or are cleared.       *)
<1>goes. ASSUME UNCHANGED hasty,
                \A a \in AllRings', s \in Slots : a[s].clears \/ \E c \in AllRings : a[s] = c[s]
         PROVE  OneInv'
  BY <1>goes, AgreeStays DEF OneInv
<1>same. ASSUME own'.index.ring = own.index.ring \/ own'.index.ring = copy.index.ring,
                copy'.index.ring = copy.index.ring \/ copy'.index.ring = own.index.ring,
                \A x \in Readers : reader'[x].ring = reader[x].ring,
                UNCHANGED <<relay, hasty>>
         PROVE  OneInv'
  <2>1. \A a \in AllRings' : a \in AllRings
    BY <1>same, RingsBecome, RingsAre
  <2> QED
    BY <1>goes, <1>same, <2>1
<1>wrote. ASSUME NEW n, NEW m \in Messages, IsNext(own.index, n), Written(n, m), Wrote,
                 UNCHANGED <<relay, copy, fetched, reader>>
          PROVE  OrderInv' /\ OneInv'
  <2>1. OrderInv'
    BY <1>new, <1>own, <1>grows, <1>wrote, WrittenStays, OwnStays
  <2>2. ASSUME fetched # Relays \/ hasty
        PROVE  OneInv'
    <3>1. hasty'
      BY <1>own, <1>wrote, <2>2 DEF Wrote, TypeOK
    <3> QED
      BY <3>1 DEF OneInv
  <2>3. ASSUME fetched = Relays /\ ~hasty
        PROVE  OneInv'
    <3>1. AllAgree
      BY <2>3 DEF OneInv
    <3>2. AllAgree'
      BY <1>wrote, <2>3, <3>1, WrittenAgrees
    <3> QED
      BY <3>2 DEF OneInv
  <2> QED
    BY <2>1, <2>2, <2>3
<1>1. CASE Send
  <2>1. PICK n : IsNext(own.index, n) /\ Written(n, sent + 1)
    BY <1>1, <1>own, SendIs
  <2>2. sent + 1 \in Messages /\ Wrote
    BY <1>1 DEF Send
  <2> QED
    BY <1>1, <1>wrote, <2>1, <2>2 DEF Send
<1>2. CASE WriteAgain
  <2>1. CASE Lessened /\ UNCHANGED hasty
    <3>1. OwnGrows
      BY <1>own, <2>1, NumbersTyped DEF Lessened, OwnGrows
    <3>2. UNCHANGED <<relay, reader, fetched, copy>>
      BY <1>2 DEF WriteAgain
    <3> QED
      BY <1>new, <1>same, <2>1, <3>1, <3>2, OwnStays DEF Lessened
  <2>2. CASE \E m \in Messages : \E n : IsNext(own.index, n) /\ Written(n, m) /\ Wrote
    BY <1>2, <1>wrote, <2>2 DEF WriteAgain
  <2> QED
    BY <1>2, <1>own, <2>1, <2>2, WriteAgainIs
<1>3. CASE TakenEverywhere
  <2>1. own'.index = own.index
    BY <1>3, <1>own, DropIs DEF TakenEverywhere, Dropped
  <2>2. OwnGrows
    BY <1>own, <2>1, NumbersTyped DEF OwnGrows
  <2> QED
    BY <1>3, <1>new, <1>same, <2>1, <2>2, OwnStays DEF TakenEverywhere
<1>4. CASE Hourly
  <2>1. PICK cleared \in SUBSET Slots, gone \in SUBSET (Expired \cap Messages) :
          Tidied(cleared, gone)
    BY <1>4, <1>own, HourlyIs DEF TypedInv
  <2>2. UNCHANGED <<relay, reader, fetched, copy, hasty>>
    BY <1>4 DEF Hourly
  <2>3. OrderInv'
    BY <1>new, <1>own, <1>grows, <2>1, <2>2, TidiedStays, OwnStays
  <2>4. \A s \in Slots : own'.index.ring[s].clears \/ own'.index.ring[s] = own.index.ring[s]
    BY <2>1 DEF Tidied, ClearingOf
  <2>5. \A a \in AllRings' : a = own'.index.ring \/ a \in AllRings
    BY <2>2, RingsBecome, RingsAre
  <2>6. OneInv'
    BY <1>goes, <2>2, <2>4, <2>5, RingsAre
  <2> QED
    BY <2>3, <2>6
<1>5. ASSUME NEW r \in Relays, Pull(r) PROVE OrderInv' /\ OneInv'
  <2>1. PICK s \in Slots : Pulled(r, s)
    BY <1>5, PullIs
  <2>2. UNCHANGED <<relay, reader, fetched, copy, hasty>>
    BY <1>5 DEF Pull
  <2>3. OrderInv'
    BY <1>new, <1>own, <1>grows, <2>1, <2>2, PulledStays, OwnStays
  <2>4. \A t \in Slots : own'.index.ring[t] = own.index.ring[t] \/ own'.index.ring[t] = relay[r][t]
    BY <1>own, <2>1 DEF Pulled
  <2>5. \A a \in AllRings' : a = own'.index.ring \/ a \in AllRings
    BY <2>2, RingsBecome, RingsAre
  <2>6. OneInv'
    BY <1>goes, <2>2, <2>4, <2>5, RingsAre
  <2> QED
    BY <2>3, <2>6
<1>6. ASSUME NEW r \in Relays, ReadToEnd(r) PROVE OrderInv' /\ OneInv'
  <2>1. UNCHANGED <<relay, own, copy, reader, hasty>>
    BY <1>6 DEF ReadToEnd
  <2> QED
    BY <1>6, <1>same, <2>1, ReadStays
<1>7. ASSUME NEW r \in Relays, Push(r) PROVE OrderInv' /\ OneInv'
  <2>1. PICK s \in Slots :
          /\ Handed(r, s, own.index.ring[s])
          /\ \/ own' = TakeAnswer(own, r, own.index.ring[s], Says(own.index.ring[s], relay[r][s]))
             \/ UNCHANGED own
    BY <1>7, PushIs
  <2>2. own.index.ring[s] \in Entries /\ WellAt(own.index.ring[s], s)
    BY <1>own DEF TypedInv, WellRing
  <2>3. own'.index = own.index
    BY <1>own, <2>1, <2>2, TakeAnswerIs
  <2>4. UNCHANGED <<copy, fetched, reader, hasty>>
    BY <1>7 DEF Push
  <2>5. /\ RelaysGrow
        /\ \A q \in Relays, t \in Slots :
             relay'[q][t] = relay[q][t] \/ relay'[q][t] = own.index.ring[t]
    BY <2>1, <2>2, HandedGrows
  <2>6. \A q \in fetched, t \in Slots :
          relay'[q][t] = relay[q][t] \/ relay'[q][t].number <= own.index.ring[t].number
    BY <1>own, <2>5, NumbersTyped DEF TypeOK
  <2>7. OrderInv'
    BY <1>new, <2>3, <2>4, <2>5, <2>6, RelaysStay
  <2>8. \A a \in AllRings' : a \in AllRings \/ \E q \in Relays : a = relay'[q]
    BY <2>3, <2>4, RingsBecome, RingsAre
  <2>9. OneInv'
    BY <1>goes, <2>4, <2>5, <2>8, RingsAre
  <2> QED
    BY <2>7, <2>9
<1>8. ASSUME NEW r \in Relays, Answered(r) PROVE OrderInv' /\ OneInv'
  <2>1. UNCHANGED <<relay, copy, fetched, reader, hasty>>
    BY <1>8 DEF Answered
  <2>2. own'.index = own.index
    <3>1. answer[r].to \in Entries
      BY <1>own DEF TypeOK, Answers
    <3>2. \A says : TakeAnswer(own, r, answer[r].to, says).index = own.index
      BY <1>own, <3>1, TakeAnswerIs
    <3> QED
      BY <1>8, <3>2 DEF Answered
  <2>3. OwnGrows
    BY <1>own, <2>2, NumbersTyped DEF OwnGrows
  <2> QED
    BY <1>new, <1>same, <2>1, <2>2, <2>3, OwnStays
<1>9. CASE (\E r \in Relays : Lose(r)) \/ Expire \/ UNCHANGED vars
  <2>1. UNCHANGED <<relay, own, copy, fetched, reader, hasty>>
    BY <1>9 DEF Lose, Expire, vars
  <2>2. OwnGrows
    BY <1>own, <2>1, NumbersTyped DEF OwnGrows
  <2> QED
    BY <1>new, <1>same, <2>1, <2>2, OwnStays
<1>10. CASE Restart \/ GoBack \/ Copy
  <2>1. /\ UNCHANGED <<relay, reader, hasty>>
        /\ \/ fetched' = {} /\ UNCHANGED copy /\ (own' = own \/ own' = copy)
           \/ UNCHANGED <<fetched, own>> /\ copy' = own
    BY <1>10 DEF Restart, GoBack, Copy
  <2>2. ReadersBelow' /\ ReadBelow'
    BY <2>1 DEF OrderInv, ReadersBelow, ReadBelow
  <2>3. CopyBelow'
    BY <1>own, <2>1, NumbersTyped DEF OrderInv, CopyBelow
  <2>4. OneInv'
    BY <1>same, <2>1
  <2> QED
    BY <2>2, <2>3, <2>4 DEF OrderInv
<1>11. ASSUME NEW x \in Readers, NEW r \in Relays, ReaderPull(x, r) PROVE OrderInv' /\ OneInv'
  <2>1. PICK s \in Slots :
          /\ Above(relay[r][s], reader[x].ring[s])
          /\ reader' = [reader EXCEPT ![x] = Take(@, s, relay[r][s])]
    BY <1>11 DEF ReaderPull
  <2>2. /\ reader \in [Readers -> Index]
        /\ reader[x] \in Index /\ reader[x].ring \in [Slots -> Entries]
        /\ relay[r][s] \in Entries /\ WellAt(relay[r][s], s) /\ WellAt(reader[x].ring[s], s)
    BY <1>own DEF TypedInv, TypeOK, WellRing, Index
  <2>3. relay[r][s].number > 0
    BY <2>1, <2>2, AboveIs DEF Numbers
  <2>4. Take(reader[x], s, relay[r][s]).ring = [reader[x].ring EXCEPT ![s] = relay[r][s]]
    BY <2>2, <2>3, TakeTyped
  <2>5. \A y \in Readers, t \in Slots :
          \/ reader'[y].ring[t] = reader[y].ring[t]
          \/ reader'[y].ring[t] = relay[r][t]
    BY <2>1, <2>2, <2>4
  <2>6. UNCHANGED <<relay, own, copy, fetched, hasty>>
    BY <1>11 DEF ReaderPull
  <2>7. ReadersBelow'
    BY <1>own, <2>5, <2>6, NumbersTyped DEF OrderInv, ReadersBelow
  <2>8. \A a \in AllRings' : a \in AllRings \/ \E y \in Readers : a = reader'[y].ring
    BY <2>6, RingsBecome, RingsAre
  <2>9. OneInv'
    BY <1>goes, <2>5, <2>6, <2>8, RingsAre
  <2> QED
    BY <2>6, <2>7, <2>9 DEF OrderInv, ReadBelow, CopyBelow
<1>12. ASSUME NEW x \in Readers, NEW r \in Relays, ReaderPush(x, r) PROVE OrderInv' /\ OneInv'
  <2>1. PICK s \in Slots :
          /\ Above(reader[x].ring[s], relay[r][s])
          /\ relay' = [relay EXCEPT ![r][s] = reader[x].ring[s]]
          /\ Took(r, reader[x].ring[s])
    BY <1>12 DEF ReaderPush
  <2>2. reader[x].ring[s] \in Entries /\ WellAt(reader[x].ring[s], s)
    BY <1>own DEF TypedInv, TypeOK, WellRing, Index
  <2>3. Handed(r, s, reader[x].ring[s])
    BY <1>own, <2>1 DEF Handed, Took, TypeOK
  <2>4. UNCHANGED <<own, copy, fetched, reader, hasty>>
    BY <1>12 DEF ReaderPush
  <2>5. /\ RelaysGrow
        /\ \A q \in Relays, t \in Slots :
             relay'[q][t] = relay[q][t] \/ relay'[q][t] = reader[x].ring[t]
    BY <2>2, <2>3, HandedGrows
  <2>6. \A t \in Slots : \E q \in Relays : reader[x].ring[t].number <= relay[q][t].number
    BY DEF OrderInv, ReadersBelow
  <2>7. \A q \in fetched, t \in Slots :
          \/ relay'[q][t] = relay[q][t]
          \/ \E p \in Relays : relay'[q][t].number <= relay[p][t].number
    BY <1>own, <2>5, <2>6 DEF TypeOK
  <2>8. OrderInv'
    BY <1>new, <2>4, <2>5, <2>7, RelaysStay
  <2>9. \A a \in AllRings' : a \in AllRings \/ \E q \in Relays : a = relay'[q]
    BY <2>4, RingsBecome, RingsAre
  <2>10. OneInv'
    BY <1>goes, <2>4, <2>5, <2>9, RingsAre
  <2> QED
    BY <2>8, <2>10
<1>13. ASSUME NEW x \in Readers, ReaderHourly(x) PROVE OrderInv' /\ OneInv'
  <2>1. UNCHANGED <<relay, own, copy, fetched, hasty>>
    BY <1>13 DEF ReaderHourly
  <2>2. \A y \in Readers : reader'[y].ring = reader[y].ring
    BY <1>13, <1>own, WithoutTyped DEF ReaderHourly, TypeOK
  <2>3. OrderInv'
    BY <2>1, <2>2 DEF OrderInv, ReadersBelow, ReadBelow, CopyBelow
  <2>4. OneInv'
    BY <1>same, <2>1, <2>2
  <2> QED
    BY <2>3, <2>4
<1> QED
  BY <1>1, <1>2, <1>3, <1>4, <1>5, <1>6, <1>7, <1>8, <1>9, <1>10, <1>11, <1>12, <1>13 DEF Next

(***************************************************************************)
(* No two devices or relays hold two messages under one number, though the *)
(* sender's store went back, where each message was written after every    *)
(* relay was read to its end.                                              *)
(***************************************************************************)
THEOREM OneForOne == Spec => []OneMessageOneNumber
<1>1. Init => OrderInv /\ OneInv
  BY InitOrder
<1>2. TypedInv /\ OneInv => OneMessageOneNumber
  <2> SUFFICES ASSUME TypedInv, AllAgree PROVE OneMessageOneNumber
    BY DEF OneInv, OneMessageOneNumber
  <2>1. \A a \in Rings : a \in AllRings
    BY DEF AllRings
  <2> QED
    BY <2>1 DEF AllAgree, Agree, OneMessageOneNumber
<1>3. (TypedInv /\ KeptInv) /\ (OrderInv /\ OneInv) /\ [Next]_vars => (OrderInv /\ OneInv)'
  BY NextOrder
<1> QED
  BY <1>1, <1>2, <1>3, Invariants, PTL DEF Spec

-----------------------------------------------------------------------------
(***************************************************************************)
(* A message stays with its readers for its 30 days.  What a reader shows  *)
(* under a number is the message that every ring has there, and a ring has *)
(* it cleared only once its days are up: so no clearing that comes takes   *)
(* from a reader what is not up.  A reader holds what it shows, or         *)
(* something above it: so no number that it shows is ever written again.   *)
(***************************************************************************)
ShownHeld ==
  \A x \in Readers : \A p \in reader[x].numbers :
    p[1] <= reader[x].ring[SlotOf(p[1])].number

Late(e, f) == e.number = f.number /\ e.clears /\ ~f.clears => f.message \in Expired
Shown(e, p) ==
  e.number = p[1] => IF e.clears THEN p[2] \in Expired ELSE e.message = p[2]

AllLate == \A a, b \in AllRings, s \in Slots : Late(a[s], b[s])
AllShown ==
  \A a \in AllRings, x \in Readers : \A p \in reader[x].numbers : Shown(a[SlotOf(p[1])], p)
TimeInv == hasty \/ (AllLate /\ AllShown)

LEMMA PairTyped ==
  ASSUME NEW y \in Index, NEW p \in y.numbers
  PROVE  /\ p[1] \in Numbers /\ p[1] \in Nat /\ SlotOf(p[1]) \in Slots
         /\ p[2] \in Messages /\ p = <<p[1], p[2]>>
<1>1. y.numbers \in SUBSET (Numbers \X Messages)
  BY DEF Index
<1>2. p[1] \in Numbers /\ p[2] \in Messages /\ p = <<p[1], p[2]>>
  BY <1>1
<1> QED
  BY <1>2, NumbersAreNat, SlotTyped

LEMMA RingsWell ==
  ASSUME TypedInv, NEW a \in AllRings, NEW s \in Slots
  PROVE  WellAt(a[s], s) /\ a[s] \in Entries
<1>1. own.index.ring \in [Slots -> Entries] /\ copy.index.ring \in [Slots -> Entries]
  BY StoreIs DEF TypedInv, TypeOK
<1>2. \A x \in Readers : reader[x].ring \in [Slots -> Entries]
  BY DEF TypedInv, TypeOK, Index
<1>3. \A r \in Relays : relay[r] \in [Slots -> Entries]
  BY DEF TypedInv, TypeOK
<1> QED
  BY <1>1, <1>2, <1>3, RingsAre DEF TypedInv, WellRing

(* What was taken from an index is of a ring that was there, and a ring is *)
(* made of those that were: an entry of one, or what clears it once its    *)
(* message has had its days.                                               *)
FromRings ==
  \A a \in AllRings', s \in Slots :
    \E c \in AllRings :
      \/ a[s] = c[s]
      \/ a[s] = ClearingOf(c[s].number) /\ ~c[s].clears /\ c[s].message \in Expired
ShowsFromRings ==
  \A x \in Readers : \A p \in reader'[x].numbers :
    \/ p \in reader[x].numbers
    \/ \E c \in AllRings : LET e == c[SlotOf(p[1])]
                           IN e.number = p[1] /\ ~e.clears /\ e.message = p[2]

LEMMA TimeStays ==
  ASSUME TypedInv, TypedInv', AllAgree, AllLate, AllShown,
         expired' >= expired, FromRings, ShowsFromRings
  PROVE  AllLate' /\ AllShown'
<1>1. Expired \subseteq Expired'
  BY DEF TypedInv, TypeOK, Expired
<1>2. AllLate'
  <2> SUFFICES ASSUME NEW a \in AllRings', NEW b \in AllRings', NEW s \in Slots,
                      a[s].number = b[s].number, a[s].clears, ~b[s].clears
               PROVE  b[s].message \in Expired
    BY <1>1 DEF AllLate, Late
  <2>1. PICK c \in AllRings :
          \/ a[s] = c[s]
          \/ a[s] = ClearingOf(c[s].number) /\ ~c[s].clears /\ c[s].message \in Expired
    BY DEF FromRings
  <2>2. PICK d \in AllRings : b[s] = d[s]
    <3>1. \A e \in AllRings : ClearingOf(e[s].number).clears
      BY DEF ClearingOf
    <3>2. PICK e \in AllRings : b[s] = e[s] \/ b[s] = ClearingOf(e[s].number)
      BY DEF FromRings
    <3> QED
      BY <3>1, <3>2
  <2>3. Late(c[s], d[s]) /\ Agree(c[s], d[s])
    BY DEF AllLate, AllAgree
  <2>4. CASE a[s] = c[s]
    BY <2>2, <2>3, <2>4 DEF Late
  <2>5. CASE a[s] = ClearingOf(c[s].number) /\ ~c[s].clears /\ c[s].message \in Expired
    <3>1. c[s] = d[s]
      BY <2>2, <2>3, <2>5 DEF Agree, ClearingOf
    <3> QED
      BY <2>2, <2>5, <3>1
  <2> QED
    BY <2>1, <2>4, <2>5
<1>3. AllShown'
  <2> SUFFICES ASSUME NEW a \in AllRings', NEW x \in Readers, NEW p \in reader'[x].numbers,
                      a[SlotOf(p[1])].number = p[1]
               PROVE  IF a[SlotOf(p[1])].clears THEN p[2] \in Expired
                      ELSE a[SlotOf(p[1])].message = p[2]
    BY <1>1 DEF AllShown, Shown
  <2> DEFINE s == SlotOf(p[1])
  <2>1. s \in Slots
    <3>1. reader'[x] \in Index
      BY DEF TypedInv, TypeOK
    <3> QED
      BY <3>1, PairTyped
  <2> HIDE DEF s
  <2>2. PICK c \in AllRings :
          \/ a[s] = c[s]
          \/ a[s] = ClearingOf(c[s].number) /\ ~c[s].clears /\ c[s].message \in Expired
    BY <2>1 DEF FromRings
  <2>3. c[s].number = p[1] /\ a[s].number = p[1]
    BY <2>2 DEF ClearingOf, s
  <2>4. CASE p \in reader[x].numbers
    <3>1. Shown(c[s], p)
      BY <2>4 DEF AllShown, s
    <3> QED
      BY <2>2, <2>3, <3>1 DEF Shown, ClearingOf, s
  <2>5. ASSUME NEW d \in AllRings, d[s].number = p[1], ~d[s].clears, d[s].message = p[2]
        PROVE  IF a[s].clears THEN p[2] \in Expired ELSE a[s].message = p[2]
    <3>1. Late(c[s], d[s]) /\ Agree(c[s], d[s])
      BY <2>1 DEF AllLate, AllAgree
    <3> QED
      BY <2>2, <2>3, <2>5, <3>1 DEF Late, Agree, ClearingOf
  <2> QED
    BY <2>4, <2>5 DEF ShowsFromRings, s
<1> QED
  BY <1>2, <1>3

(* A message is written under a number that no reader shows.               *)
LEMMA WrittenInTime ==
  ASSUME TypedInv, TypedInv', OrderInv, ShownHeld, AllLate, AllShown, fetched = Relays, NEW n,
         NEW m \in Messages, IsNext(own.index, n), Written(n, m),
         UNCHANGED <<relay, reader, copy, expired>>
  PROVE  AllLate' /\ AllShown'
<1>1. /\ own.index.ring \in [Slots -> Entries] /\ SlotOf(n) \in Slots /\ n \in Nat
  BY NextIs, StoreIs DEF TypedInv, TypeOK
<1>2. own'.index.ring = [own.index.ring EXCEPT ![SlotOf(n)] = MessageAt(n, m)]
  BY DEF Written
<1>3. \A a \in AllRings' : a = own'.index.ring \/ a \in AllRings
  BY RingsBecome, RingsAre
<1>4. \A a \in AllRings', s \in Slots :
        \/ \E c \in AllRings : a[s] = c[s]
        \/ s = SlotOf(n) /\ a[s] = MessageAt(n, m)
  BY <1>1, <1>2, <1>3, RingsAre
<1>5. \A c \in AllRings, s \in Slots : c[s].number < n
  BY NextIsNew
<1>6. \A c \in AllRings, s \in Slots : c[s].number # n
  <2>1. \A i : i < n => i # n
    BY <1>1
  <2> QED
    BY <1>5, <2>1
<1>7. Expired' = Expired
  BY DEF Expired
<1>8. AllLate'
  <2> SUFFICES ASSUME NEW a \in AllRings', NEW b \in AllRings', NEW s \in Slots
               PROVE  Late(a[s], b[s])
    BY <1>7 DEF AllLate, Late
  <2>1. ASSUME NEW c \in AllRings, NEW d \in AllRings, a[s] = c[s], b[s] = d[s]
        PROVE  Late(a[s], b[s])
    BY <2>1 DEF AllLate
  <2>2. \A c \in AllRings : Late(MessageAt(n, m), c[s]) /\ Late(c[s], MessageAt(n, m))
    BY <1>6 DEF Late, MessageAt
  <2>3. Late(MessageAt(n, m), MessageAt(n, m))
    BY DEF Late, MessageAt
  <2> QED
    BY <1>4, <2>1, <2>2, <2>3
<1>9. AllShown'
  <2> SUFFICES ASSUME NEW a \in AllRings', NEW x \in Readers, NEW p \in reader[x].numbers
               PROVE  Shown(a[SlotOf(p[1])], p)
    BY <1>7 DEF AllShown, Shown
  <2>1. p[1] \in Nat /\ SlotOf(p[1]) \in Slots
    BY PairTyped DEF TypedInv, TypeOK
  <2>2. p[1] # n
    <3>1. reader[x].ring[SlotOf(p[1])].number < n /\ reader[x].ring[SlotOf(p[1])].number \in Nat
      BY <1>5, <2>1, RingsAre, NumbersTyped DEF TypedInv
    <3>2. p[1] <= reader[x].ring[SlotOf(p[1])].number
      BY DEF ShownHeld
    <3> QED
      BY <1>1, <2>1, <3>1, <3>2
  <2>3. CASE a[SlotOf(p[1])] = MessageAt(n, m)
    BY <2>2, <2>3 DEF Shown, MessageAt
  <2>4. ASSUME NEW c \in AllRings, a[SlotOf(p[1])] = c[SlotOf(p[1])]
        PROVE  Shown(a[SlotOf(p[1])], p)
    BY <2>4 DEF AllShown
  <2> QED
    BY <1>4, <2>1, <2>3, <2>4
<1> QED
  BY <1>8, <1>9

(* Entries go from ring to ring, and none is written.                      *)
LEMMA GoesInTime ==
  ASSUME TypedInv, TypedInv', AllAgree, AllLate, AllShown, UNCHANGED expired,
         \A a \in AllRings', s \in Slots : \E c \in AllRings : a[s] = c[s], ShowsFromRings
  PROVE  AllLate' /\ AllShown'
<1>1. expired' >= expired
  BY DEF TypedInv, TypeOK
<1>2. FromRings
  BY DEF FromRings
<1> QED
  BY <1>1, <1>2, TimeStays

-----------------------------------------------------------------------------
(* What a reader makes of an entry.                                        *)

(* It shows what it showed, but for what is live no longer, and what the   *)
(* entry clears; and the entry, where that is a message.                   *)
Leaves(y, z, e) ==
  /\ \A p \in z.numbers : p \in y.numbers \/ (~e.clears /\ p = <<e.number, e.message>>)
  /\ \A m \in Rows(y) \ Rows(z) :
       \/ \A p \in y.numbers : p[2] = m => ~IsLive(p[1], z.highest)
       \/ e.clears /\ <<e.number, m>> \in y.numbers

LEMMA HoldLeaves ==
  ASSUME NEW y \in Index, NEW n \in Nat
  PROVE  /\ Hold(y, n).numbers \subseteq y.numbers
         /\ \A p \in y.numbers \ Hold(y, n).numbers : ~IsLive(p[1], Hold(y, n).highest)
BY DEF Hold, Index

LEMMA IndexAtShows ==
  ASSUME NEW y \in Index, NEW n \in Numbers, NEW m \in Messages
  PROVE  /\ y.numbers \subseteq IndexAt(y, n, m).numbers
         /\ IndexAt(y, n, m).highest = y.highest
         /\ \A p \in IndexAt(y, n, m).numbers : p \in y.numbers \/ p = <<n, m>>
BY DEF IndexAt, Index

LEMMA ClearLeaves ==
  ASSUME NEW y \in Index, NEW n \in Nat
  PROVE  /\ Clear(y, n).highest = y.highest
         /\ Clear(y, n).numbers = {p \in y.numbers : <<n, p[2]>> \notin y.numbers}
<1> DEFINE in == [y EXCEPT !.first = IF \E p \in @ : p[1] = n THEN @ ELSE @ \cup {<<n, 0>>}]
           gone == {m \in Rows(y) : <<n, m>> \in y.numbers}
<1>1. in \in Index /\ in.numbers = y.numbers /\ in.highest = y.highest
  BY DEF Index
<1>2. Clear(y, n) = Without(in, gone)
  BY DEF Clear
<1> HIDE DEF in
<1>3. /\ Without(in, gone).numbers = {p \in y.numbers : p[2] \notin gone}
      /\ Without(in, gone).highest = y.highest
  BY <1>1 DEF Without, Index
<1>4. \A p \in y.numbers : p[2] \in gone <=> <<n, p[2]>> \in y.numbers
  BY DEF Rows
<1> QED
  BY <1>2, <1>3, <1>4

LEMMA TakeLeaves ==
  ASSUME NEW y \in Index, NEW s \in Slots, NEW e \in Entries, WellAt(e, s), e.number > 0
  PROVE  Leaves(y, Take(y, s, e), e)
<1> DEFINE n == e.number
           in == [y EXCEPT !.ring[s] = e]
           held == Hold(in, n)
           z == Take(y, s, e)
<1>1. in \in Index /\ in.numbers = y.numbers
  BY DEF Index
<1>2. n \in Numbers /\ n \in Nat /\ (~e.clears => e.message \in Messages)
  <2>1. e # Nothing
    BY DEF Nothing
  <2> QED
    BY <2>1, EntryTyped DEF WellAt
<1>3. z = IF ~IsLive(n, held.highest) THEN in
          ELSE IF e.clears THEN Clear(held, n) ELSE IndexAt(held, n, e.message)
  BY DEF Take
<1> HIDE DEF in, n, z
<1>4. /\ held \in Index /\ held.numbers \subseteq y.numbers
      /\ \A p \in y.numbers \ held.numbers : ~IsLive(p[1], held.highest)
  BY <1>1, <1>2, HoldTyped, HoldLeaves
<1> HIDE DEF held
<1>5. CASE z = in
  <2>1. Rows(z) = Rows(y)
    BY <1>1, <1>5 DEF Rows
  <2> QED
    BY <1>1, <1>5, <2>1 DEF Leaves, z
<1>6. ASSUME z.highest = held.highest, NEW m \in Rows(y) \ Rows(z),
             \A p \in held.numbers : p[2] # m
      PROVE  \A p \in y.numbers : p[2] = m => ~IsLive(p[1], z.highest)
  BY <1>4, <1>6
<1>7. CASE ~e.clears /\ z = IndexAt(held, n, e.message)
  <2>1. /\ held.numbers \subseteq z.numbers /\ z.highest = held.highest
        /\ \A p \in z.numbers : p \in held.numbers \/ p = <<n, e.message>>
    BY <1>2, <1>4, <1>7, IndexAtShows
  <2>2. \A m \in Rows(y) \ Rows(z) : \A p \in held.numbers : p[2] # m
    BY <2>1 DEF Rows
  <2>3. \A m \in Rows(y) \ Rows(z) : \A p \in y.numbers : p[2] = m => ~IsLive(p[1], z.highest)
    BY <1>6, <2>1, <2>2
  <2>4. \A p \in z.numbers : p \in y.numbers \/ (~e.clears /\ p = <<e.number, e.message>>)
    BY <1>4, <1>7, <2>1 DEF n
  <2> QED
    BY <2>3, <2>4 DEF Leaves, z
<1>8. CASE e.clears /\ z = Clear(held, n)
  <2>1. z.highest = held.highest /\ z.numbers = {p \in held.numbers : <<n, p[2]>> \notin held.numbers}
    BY <1>2, <1>4, <1>8, ClearLeaves
  <2>2. ASSUME NEW m \in Rows(y) \ Rows(z), <<n, m>> \notin y.numbers
        PROVE  \A p \in held.numbers : p[2] # m
    BY <1>4, <2>1, <2>2 DEF Rows
  <2>3. \A m \in Rows(y) \ Rows(z) :
          \/ \A p \in y.numbers : p[2] = m => ~IsLive(p[1], z.highest)
          \/ e.clears /\ <<n, m>> \in y.numbers
    BY <1>6, <1>8, <2>1, <2>2
  <2>4. \A p \in z.numbers : p \in y.numbers
    BY <1>4, <2>1
  <2> QED
    BY <2>3, <2>4 DEF Leaves, z, n
<1> QED
  BY <1>3, <1>5, <1>7, <1>8

-----------------------------------------------------------------------------
LEMMA InitTime == Init => ShownHeld /\ TimeInv
<1> SUFFICES ASSUME Init PROVE ShownHeld /\ TimeInv
  OBVIOUS
<1>1. \A a \in AllRings : a = [s \in Slots |-> Nothing]
  BY DEF Init, AllRings, Rings, NoStore, NoIndex
<1>2. \A x \in Readers : reader[x].numbers = {}
  BY DEF Init, NoIndex
<1>3. AllLate
  BY <1>1 DEF AllLate, Late, Nothing
<1> QED
  BY <1>2, <1>3 DEF ShownHeld, TimeInv, AllShown

TimeBefore == TypedInv /\ KeptInv /\ OrderInv /\ OneInv /\ ShownHeld /\ TimeInv

LEMMA NextTime == TimeBefore /\ [Next]_vars => ShownHeld' /\ TimeInv'
<1> SUFFICES ASSUME TimeBefore, [Next]_vars PROVE ShownHeld' /\ TimeInv'
  OBVIOUS
<1> USE DEF TimeBefore
<1>new. TypedInv'
  BY NextTyped
<1>own. /\ TypeOK /\ own \in Store /\ own' \in Store /\ own.index.ring \in [Slots -> Entries]
  BY <1>new, StoreIs DEF TypedInv, TypeOK
<1>held. ASSUME UNCHANGED reader
         PROVE  ShownHeld' /\ ShowsFromRings
  BY <1>held DEF ShownHeld, ShowsFromRings
<1>goes. ASSUME UNCHANGED <<hasty, expired>>, ShowsFromRings,
                \A a \in AllRings', s \in Slots : \E c \in AllRings : a[s] = c[s]
         PROVE  TimeInv'
  <2>1. CASE hasty
    BY <1>goes, <2>1 DEF TimeInv
  <2>2. CASE ~hasty
    BY <1>new, <1>goes, <2>2, GoesInTime DEF TimeInv, OneInv
  <2> QED
    BY <2>1, <2>2
<1>same. ASSUME own'.index.ring = own.index.ring \/ own'.index.ring = copy.index.ring,
                copy'.index.ring = copy.index.ring \/ copy'.index.ring = own.index.ring,
                UNCHANGED <<relay, reader, hasty, expired>>
         PROVE  ShownHeld' /\ TimeInv'
  <2>1. \A a \in AllRings' : a \in AllRings
    BY <1>same, RingsBecome, RingsAre
  <2> QED
    BY <1>held, <1>goes, <1>same, <2>1
<1>wrote. ASSUME NEW n, NEW m \in Messages, IsNext(own.index, n), Written(n, m), Wrote,
                 UNCHANGED <<relay, copy, fetched, reader, expired>>
          PROVE  ShownHeld' /\ TimeInv'
  <2>1. ASSUME fetched # Relays \/ hasty
        PROVE  TimeInv'
    <3>1. hasty'
      BY <1>own, <1>wrote, <2>1 DEF Wrote, TypeOK
    <3> QED
      BY <3>1 DEF TimeInv
  <2>2. ASSUME fetched = Relays /\ ~hasty
        PROVE  TimeInv'
    <3>1. AllLate /\ AllShown
      BY <2>2 DEF TimeInv
    <3>2. AllLate' /\ AllShown'
      BY <1>new, <1>wrote, <2>2, <3>1, WrittenInTime
    <3> QED
      BY <3>2 DEF TimeInv
  <2> QED
    BY <1>held, <1>wrote, <2>1, <2>2
<1>1. CASE Send
  <2>1. PICK n : IsNext(own.index, n) /\ Written(n, sent + 1)
    BY <1>1, <1>own, SendIs
  <2>2. sent + 1 \in Messages /\ Wrote /\ UNCHANGED <<relay, copy, fetched, reader, expired>>
    BY <1>1 DEF Send
  <2> QED
    BY <1>wrote, <2>1, <2>2
<1>2. CASE WriteAgain
  <2>1. UNCHANGED <<relay, copy, fetched, reader, expired>>
    BY <1>2 DEF WriteAgain
  <2>2. CASE Lessened /\ UNCHANGED hasty
    BY <1>same, <2>1, <2>2 DEF Lessened
  <2>3. CASE \E m \in Messages : \E n : IsNext(own.index, n) /\ Written(n, m) /\ Wrote
    BY <1>wrote, <2>1, <2>3
  <2> QED
    BY <1>2, <1>own, <2>2, <2>3, WriteAgainIs
<1>3. CASE TakenEverywhere
  <2>1. own'.index = own.index
    BY <1>3, <1>own, DropIs DEF TakenEverywhere, Dropped
  <2> QED
    BY <1>3, <1>same, <2>1 DEF TakenEverywhere
<1>4. CASE Hourly
  <2>1. PICK cleared \in SUBSET Slots, gone \in SUBSET (Expired \cap Messages) :
          Tidied(cleared, gone)
    BY <1>4, <1>own, HourlyIs DEF TypedInv
  <2>2. UNCHANGED <<relay, reader, copy, hasty, expired>>
    BY <1>4 DEF Hourly
  <2>3. \A s \in Slots :
          \/ own'.index.ring[s] = own.index.ring[s]
          \/ /\ own'.index.ring[s] = ClearingOf(own.index.ring[s].number)
             /\ ~own.index.ring[s].clears /\ own.index.ring[s].message \in Expired
    <3> SUFFICES ASSUME NEW s \in Slots, s \in cleared
                 PROVE  /\ own'.index.ring[s] = ClearingOf(own.index.ring[s].number)
                        /\ ~own.index.ring[s].clears /\ own.index.ring[s].message \in Expired
      BY <2>1 DEF Tidied
    <3>1. /\ own'.index.ring[s] = ClearingOf(own.index.ring[s].number)
          /\ own.index.ring[s].message \in Expired
      BY <2>1 DEF Tidied
    <3>2. WellAt(own.index.ring[s], s) /\ own.index.ring[s].message # 0
      BY <3>1, <1>own DEF TypedInv, WellRing, Expired
    <3> QED
      BY <3>1, <3>2 DEF WellAt, Nothing
  <2>4. \A a \in AllRings' : a = own'.index.ring \/ a \in AllRings
    BY <2>2, RingsBecome, RingsAre
  <2>5. FromRings
    BY <2>3, <2>4, RingsAre DEF FromRings
  <2>6. ShownHeld' /\ ShowsFromRings
    BY <1>held, <2>2
  <2>7. expired' >= expired
    BY <1>own, <2>2 DEF TypeOK
  <2>8. CASE hasty
    BY <2>2, <2>6, <2>8 DEF TimeInv
  <2>9. CASE ~hasty
    BY <1>new, <2>5, <2>6, <2>7, <2>9, TimeStays DEF TimeInv, OneInv
  <2> QED
    BY <2>6, <2>8, <2>9
<1>5. ASSUME NEW r \in Relays, Pull(r) PROVE ShownHeld' /\ TimeInv'
  <2>1. PICK s \in Slots : Pulled(r, s)
    BY <1>5, PullIs
  <2>2. UNCHANGED <<relay, reader, copy, hasty, expired>>
    BY <1>5 DEF Pull
  <2>3. \A t \in Slots : own'.index.ring[t] = own.index.ring[t] \/ own'.index.ring[t] = relay[r][t]
    BY <1>own, <2>1 DEF Pulled
  <2>4. \A a \in AllRings' : a = own'.index.ring \/ a \in AllRings
    BY <2>2, RingsBecome, RingsAre
  <2>5. \A a \in AllRings', t \in Slots : \E c \in AllRings : a[t] = c[t]
    BY <2>3, <2>4, RingsAre
  <2> QED
    BY <1>held, <1>goes, <2>2, <2>5
<1>6. ASSUME NEW r \in Relays, ReadToEnd(r) \/ Lose(r) PROVE ShownHeld' /\ TimeInv'
  <2>1. UNCHANGED <<relay, own, copy, reader, hasty, expired>>
    BY <1>6 DEF ReadToEnd, Lose
  <2> QED
    BY <1>same, <2>1
<1>7. ASSUME NEW r \in Relays, Push(r) PROVE ShownHeld' /\ TimeInv'
  <2>1. PICK s \in Slots :
          /\ Handed(r, s, own.index.ring[s])
          /\ \/ own' = TakeAnswer(own, r, own.index.ring[s], Says(own.index.ring[s], relay[r][s]))
             \/ UNCHANGED own
    BY <1>7, PushIs
  <2>2. own.index.ring[s] \in Entries /\ WellAt(own.index.ring[s], s)
    BY <1>own DEF TypedInv, WellRing
  <2>3. own'.index = own.index
    BY <1>own, <2>1, <2>2, TakeAnswerIs
  <2>4. UNCHANGED <<copy, reader, hasty, expired>>
    BY <1>7 DEF Push
  <2>5. \A q \in Relays, t \in Slots :
          relay'[q][t] = relay[q][t] \/ relay'[q][t] = own.index.ring[t]
    BY <2>1, <2>2, HandedGrows
  <2>6. \A a \in AllRings' : a \in AllRings \/ \E q \in Relays : a = relay'[q]
    BY <2>3, <2>4, RingsBecome, RingsAre
  <2>7. \A a \in AllRings', t \in Slots : \E c \in AllRings : a[t] = c[t]
    BY <2>5, <2>6, RingsAre
  <2> QED
    BY <1>held, <1>goes, <2>4, <2>7
<1>8. ASSUME NEW r \in Relays, Answered(r) PROVE ShownHeld' /\ TimeInv'
  <2>1. UNCHANGED <<relay, copy, reader, hasty, expired>>
    BY <1>8 DEF Answered
  <2>2. own'.index = own.index
    <3>1. answer[r].to \in Entries
      BY <1>own DEF TypeOK, Answers
    <3>2. \A says : TakeAnswer(own, r, answer[r].to, says).index = own.index
      BY <1>own, <3>1, TakeAnswerIs
    <3> QED
      BY <1>8, <3>2 DEF Answered
  <2> QED
    BY <1>same, <2>1, <2>2
<1>9. CASE Restart \/ GoBack \/ Copy \/ UNCHANGED vars
  <2>1. /\ UNCHANGED <<relay, reader, hasty, expired>>
        /\ own' = own \/ own' = copy
        /\ copy' = copy \/ copy' = own
    BY <1>9 DEF Restart, GoBack, Copy, vars
  <2> QED
    BY <1>same, <2>1
<1>10. CASE Expire
  <2>1. UNCHANGED <<relay, own, copy, reader, hasty>> /\ expired' = expired + 1
    BY <1>10 DEF Expire
  <2>2. expired' >= expired
    BY <1>own, <2>1 DEF TypeOK
  <2>3. \A a \in AllRings' : a \in AllRings
    BY <2>1, RingsBecome, RingsAre
  <2>4. FromRings
    BY <2>3 DEF FromRings
  <2>5. ShownHeld' /\ ShowsFromRings
    BY <1>held, <2>1
  <2>6. CASE hasty
    BY <2>1, <2>5, <2>6 DEF TimeInv
  <2>7. CASE ~hasty
    BY <1>new, <2>2, <2>4, <2>5, <2>7, TimeStays DEF TimeInv, OneInv
  <2> QED
    BY <2>5, <2>6, <2>7
<1>11. ASSUME NEW x \in Readers, NEW r \in Relays, ReaderPull(x, r) PROVE ShownHeld' /\ TimeInv'
  <2>1. PICK s \in Slots :
          /\ Above(relay[r][s], reader[x].ring[s])
          /\ reader' = [reader EXCEPT ![x] = Take(@, s, relay[r][s])]
    BY <1>11 DEF ReaderPull
  <2>2. /\ reader \in [Readers -> Index] /\ reader' \in [Readers -> Index]
        /\ reader[x] \in Index /\ reader[x].ring \in [Slots -> Entries]
        /\ relay[r][s] \in Entries /\ WellAt(relay[r][s], s) /\ WellAt(reader[x].ring[s], s)
    BY <1>own, <1>new DEF TypedInv, TypeOK, WellRing, Index
  <2> DEFINE e == relay[r][s]
  <2>3. /\ e.number \in Nat /\ e.number > 0 /\ SlotOf(e.number) = s
        /\ e.number >= reader[x].ring[s].number /\ reader[x].ring[s].number \in Nat
    <3>1. e.number \in Numbers /\ SlotOf(e.number) = s /\ e.number >= reader[x].ring[s].number
      BY <2>1, <2>2, AboveIs
    <3> QED
      BY <2>2, <3>1, EntryTyped, NumbersAreNat DEF Numbers
  <2>4. /\ Take(reader[x], s, e).ring = [reader[x].ring EXCEPT ![s] = e]
        /\ Leaves(reader[x], Take(reader[x], s, e), e)
    BY <2>2, <2>3, TakeTyped, TakeLeaves
  <2>5. /\ reader'[x].ring = [reader[x].ring EXCEPT ![s] = e]
        /\ Leaves(reader[x], reader'[x], e)
        /\ \A y \in Readers \ {x} : reader'[y] = reader[y]
    BY <2>1, <2>2, <2>4
  <2> HIDE DEF e
  <2>6. UNCHANGED <<relay, own, copy, hasty, expired>>
    BY <1>11 DEF ReaderPull
  <2>7. \A p \in reader'[x].numbers : p \in reader[x].numbers \/ (~e.clears /\ p = <<e.number, e.message>>)
    BY <2>5 DEF Leaves
  <2>8. ShownHeld'
    <3> SUFFICES ASSUME NEW y \in Readers, NEW p \in reader'[y].numbers
                 PROVE  p[1] <= reader'[y].ring[SlotOf(p[1])].number
      BY DEF ShownHeld
    <3>1. CASE y # x
      BY <2>5, <3>1 DEF ShownHeld
    <3>2. CASE y = x /\ p = <<e.number, e.message>>
      BY <2>2, <2>3, <2>5, <3>2
    <3>3. CASE y = x /\ p \in reader[x].numbers
      <4>1. p[1] \in Nat /\ SlotOf(p[1]) \in Slots
        BY <2>2, <3>3, PairTyped
      <4>2. p[1] <= reader[x].ring[SlotOf(p[1])].number
        BY <3>3 DEF ShownHeld
      <4> QED
        BY <2>2, <2>3, <2>5, <3>3, <4>1, <4>2
    <3> QED
      BY <2>7, <3>1, <3>2, <3>3
  <2>9. ShowsFromRings
    <3>1. relay[r] \in AllRings /\ relay[r][SlotOf(e.number)] = e
      BY <2>3, RingsAre DEF e
    <3> QED
      BY <2>5, <2>7, <3>1 DEF ShowsFromRings
  <2>10. \A y \in Readers, t \in Slots :
           reader'[y].ring[t] = reader[y].ring[t] \/ reader'[y].ring[t] = relay[r][t]
    BY <2>2, <2>5 DEF e
  <2>11. \A a \in AllRings' : a \in AllRings \/ \E y \in Readers : a = reader'[y].ring
    BY <2>6, RingsBecome, RingsAre
  <2>12. \A a \in AllRings', t \in Slots : \E c \in AllRings : a[t] = c[t]
    BY <2>10, <2>11, RingsAre
  <2> QED
    BY <1>goes, <2>6, <2>8, <2>9, <2>12
<1>12. ASSUME NEW x \in Readers, NEW r \in Relays, ReaderPush(x, r) PROVE ShownHeld' /\ TimeInv'
  <2>1. PICK s \in Slots : relay' = [relay EXCEPT ![r][s] = reader[x].ring[s]]
    BY <1>12 DEF ReaderPush
  <2>2. UNCHANGED <<own, copy, reader, hasty, expired>>
    BY <1>12 DEF ReaderPush
  <2>3. \A q \in Relays, t \in Slots :
          relay'[q][t] = relay[q][t] \/ relay'[q][t] = reader[x].ring[t]
    BY <1>own, <2>1 DEF TypeOK
  <2>4. \A a \in AllRings' : a \in AllRings \/ \E q \in Relays : a = relay'[q]
    BY <2>2, RingsBecome, RingsAre
  <2>5. \A a \in AllRings', t \in Slots : \E c \in AllRings : a[t] = c[t]
    BY <2>3, <2>4, RingsAre
  <2> QED
    BY <1>held, <1>goes, <2>2, <2>5
<1>13. ASSUME NEW x \in Readers, ReaderHourly(x) PROVE ShownHeld' /\ TimeInv'
  <2>1. UNCHANGED <<relay, own, copy, hasty, expired>>
    BY <1>13 DEF ReaderHourly
  <2>2. \A y \in Readers : /\ reader'[y].ring = reader[y].ring
                           /\ reader'[y].numbers \subseteq reader[y].numbers
    <3>1. \A y \in Index : /\ Without(y, Expired).ring = y.ring
                           /\ Without(y, Expired).numbers \subseteq y.numbers
      BY DEF Without, Index
    <3> QED
      BY <1>13, <1>own, <3>1 DEF ReaderHourly, TypeOK
  <2>3. ShownHeld' /\ ShowsFromRings
    BY <2>2 DEF ShownHeld, ShowsFromRings
  <2>4. \A a \in AllRings' : a \in AllRings
    BY <2>1, <2>2, RingsBecome, RingsAre
  <2> QED
    BY <1>goes, <2>1, <2>3, <2>4
<1> QED
  BY <1>1, <1>2, <1>3, <1>4, <1>5, <1>6, <1>7, <1>8, <1>9, <1>10, <1>11, <1>12, <1>13 DEF Next

(***************************************************************************)
(* A message at a live number leaves no reader before its 30 days are up,  *)
(* whatever is cleared and however often the sender's store went back,     *)
(* where each message was written after every relay was read to its end.   *)
(***************************************************************************)
THEOREM StaysItsDays == Spec => LeavesInItsTime
<1>1. Init => (OrderInv /\ OneInv) /\ (ShownHeld /\ TimeInv)
  BY InitOrder, InitTime
<1>2. (TypedInv /\ KeptInv) /\ (OrderInv /\ OneInv) /\ (ShownHeld /\ TimeInv) /\ [Next]_vars
        => (OrderInv /\ OneInv)' /\ (ShownHeld /\ TimeInv)'
  BY NextOrder, NextTime DEF TimeBefore
<1>3. TypedInv /\ TimeInv /\ [Next]_vars =>
        [hasty \/
         \A x \in Readers : \A m \in Rows(reader[x]) \ Rows(reader[x])' :
           \/ m \in Expired
           \/ \A p \in reader[x].numbers : p[2] = m => ~IsLive(p[1], reader[x].highest')]_vars
  <2> SUFFICES ASSUME TypedInv, AllShown, Next, NEW x \in Readers,
                      NEW m \in Rows(reader[x]) \ Rows(reader'[x])
               PROVE  \/ m \in Expired
                      \/ \A p \in reader[x].numbers : p[2] = m => ~IsLive(p[1], reader'[x].highest)
    BY DEF TimeInv
  <2>1. reader \in [Readers -> Index] /\ m \notin Rows(reader'[x]) /\ m \in Rows(reader[x])
    BY DEF TypedInv, TypeOK
  <2>2. CASE UNCHANGED reader
    BY <2>1, <2>2
  <2>3. ASSUME NEW y \in Readers, ReaderHourly(y)
        PROVE  m \in Expired
    <3>1. reader'[x] = reader[x] \/ reader'[x] = Without(reader[x], Expired)
      BY <2>1, <2>3 DEF ReaderHourly
    <3>2. reader'[x] = Without(reader[x], Expired)
      BY <2>1, <3>1
    <3>3. PICK p \in reader[x].numbers : p[2] = m
      BY <2>1 DEF Rows
    <3>4. Without(reader[x], Expired).numbers = {q \in reader[x].numbers : q[2] \notin Expired}
      BY <2>1 DEF Without, Index
    <3> QED
      BY <2>1, <3>2, <3>3, <3>4 DEF Rows
  <2>4. ASSUME NEW y \in Readers, NEW r \in Relays, ReaderPull(y, r)
        PROVE  \/ m \in Expired
               \/ \A p \in reader[x].numbers : p[2] = m => ~IsLive(p[1], reader'[x].highest)
    <3>1. PICK s \in Slots :
            /\ Above(relay[r][s], reader[y].ring[s])
            /\ reader' = [reader EXCEPT ![y] = Take(@, s, relay[r][s])]
      BY <2>4 DEF ReaderPull
    <3>2. x = y
      BY <2>1, <3>1
    <3>3. reader'[x] = Take(reader[x], s, relay[r][s])
      BY <2>1, <3>1, <3>2
    <3>4. /\ relay[r][s] \in Entries /\ WellAt(relay[r][s], s) /\ WellAt(reader[x].ring[s], s)
          /\ reader[x] \in Index /\ reader[x].ring[s] \in Entries
      BY <2>1 DEF TypedInv, TypeOK, WellRing, Index
    <3>5. relay[r][s].number > 0 /\ SlotOf(relay[r][s].number) = s
      BY <3>1, <3>2, <3>4, AboveIs DEF Numbers
    <3>6. Leaves(reader[x], reader'[x], relay[r][s])
      BY <3>3, <3>4, <3>5, TakeLeaves
    <3>7. ASSUME relay[r][s].clears, <<relay[r][s].number, m>> \in reader[x].numbers
          PROVE  m \in Expired
      <4> DEFINE p == <<relay[r][s].number, m>>
      <4>1. Shown(relay[r][SlotOf(p[1])], p)
        BY <3>7, RingsAre DEF AllShown
      <4> QED
        BY <3>5, <3>7, <4>1 DEF Shown
    <3> QED
      BY <2>1, <3>6, <3>7 DEF Leaves
  <2>5. \/ UNCHANGED reader
        \/ \E y \in Readers : ReaderHourly(y) \/ \E r \in Relays : ReaderPull(y, r)
    BY DEF Next, Send, WriteAgain, TakenEverywhere, Hourly, Pull, ReadToEnd, Push, Answered, Lose,
      Restart, Copy, GoBack, Expire, ReaderPush
  <2> QED
    BY <2>2, <2>3, <2>4, <2>5
<1> QED
  BY <1>1, <1>2, <1>3, Invariants, PTL DEF Spec, LeavesInItsTime
=============================================================================
