--------------------------- MODULE CrossingProofs ---------------------------
(***************************************************************************)
(* The safety properties of Crossing, for any devices, texts and jumps,    *)
(* any width of a band and any number of statements.                       *)
(*                                                                         *)
(* EditStaysAbove compares two entries by the revision each has in the     *)
(* later of their two generations.  The induction compares them instead by *)
(* where both end up once they have crossed (EndsAbove): lifting is a      *)
(* strictly increasing function of the revisions that may be entries under *)
(* one statement, and lifting twice is lifting once, so the two agree, and *)
(* a carry does not change where an entry ends up.                         *)
(***************************************************************************)
EXTENDS Crossing, RevisionProofs

\* A text ends up at one revision, whoever carried it and when.
OneTextOneEnd ==
  \A p, q \in Placed : p[2].text = q[2].text => Lifted(p[2].rev) = Lifted(q[2].rev)

\* An edit ends up above what it was written over.
EndsAbove ==
  \A p, q \in Placed :
    p[2].text \in over[q[2].text] => Lifted(p[2].rev) < Lifted(q[2].rev)

\* Only a text that was written is anywhere.
PlacedWritten == \A p \in Placed : p[2].text \in Written

IInv ==
  /\ TypeOK
  /\ EntriesMayBe
  /\ PlacedWritten
  /\ OneTextOneEnd
  /\ EndsAbove

LEMMA PlacedType ==
  ASSUME TypeOK, EntriesMayBe, NEW p \in Placed
  PROVE  /\ p = <<p[1], p[2]>>
         /\ p[1] \in Statements
         /\ p[2] \in Entry
         /\ p[2].rev \in Nat
         /\ MayBeUnder(p[2].rev, p[1])
  BY DEF Placed, TypeOK, EntriesMayBe, Entry

LEMMA PlacedHeld ==
  ASSUME NEW d \in Devices, NEW e \in held[d]
  PROVE  <<applied[d], e>> \in Placed
  BY DEF Placed

\* What the two orders have to do with one another.
LEMMA EndsAboveGives ==
  ASSUME TypeOK, EntriesMayBe, EndsAbove
  PROVE  EditStaysAbove
<1> SUFFICES ASSUME NEW p \in Placed, NEW q \in Placed,
                    p[2].text \in over[q[2].text]
             PROVE  RevIn(p, q[1]) < RevIn(q, p[1])
  BY DEF EditStaysAbove
<1> DEFINE r == p[2].rev
           t == q[2].rev
<1>1. /\ r \in Nat /\ t \in Nat
      /\ p[1] \in Statements /\ q[1] \in Statements
      /\ MayBeUnder(r, p[1]) /\ MayBeUnder(t, q[1])
  BY PlacedType
<1>2. Lifted(r) < Lifted(t)
  BY DEF EndsAbove
<1>3. p[1] \in Int /\ q[1] \in Int
  BY <1>1 DEF Statements
<1>4. Lifted(r) \in Nat /\ Lifted(t) \in Nat
  BY <1>1, LiftedType
<1> HIDE DEF r, t
<1>5. CASE p[1] = q[1]
  <2>1. RevIn(p, q[1]) = r /\ RevIn(q, p[1]) = t
    BY <1>5, <1>3 DEF RevIn, r, t
  <2>2. ~(t < r)
    <3>1. ASSUME t < r PROVE FALSE
      <4>1. Lifted(t) < Lifted(r)
        BY <3>1, <1>1, <1>5, LiftedOrder
      <4> QED
        BY <4>1, <1>2, <1>4
    <3> QED
      BY <3>1
  <2>3. t # r
    BY <1>2, <1>4
  <2> QED
    BY <2>1, <2>2, <2>3, <1>1
<1>6. CASE p[1] < q[1]
  <2>1. RevIn(p, q[1]) = Lifted(r) /\ RevIn(q, p[1]) = t
    BY <1>6, <1>3 DEF RevIn, r, t
  <2>2. MayBeUnder(Lifted(r), q[1])
    BY <1>1, <1>6, LiftedMayBe
  <2>3. Lifted(Lifted(r)) = Lifted(r)
    BY <1>1, LiftedOnce
  <2>4. ~(t < Lifted(r))
    <3>1. ASSUME t < Lifted(r) PROVE FALSE
      <4>1. Lifted(t) < Lifted(Lifted(r))
        BY <3>1, <1>1, <1>4, <2>2, LiftedOrder
      <4> QED
        BY <4>1, <2>3, <1>2, <1>4
    <3> QED
      BY <3>1
  <2>5. t # Lifted(r)
    BY <1>2, <2>3, <1>4
  <2> QED
    BY <2>1, <2>4, <2>5, <1>1, <1>4
<1>7. CASE q[1] < p[1]
  <2>1. RevIn(p, q[1]) = r /\ RevIn(q, p[1]) = Lifted(t)
    BY <1>7, <1>3 DEF RevIn, r, t
  <2>2. Lifted(r) >= r
    BY <1>1, LiftedType
  <2> QED
    BY <2>1, <2>2, <1>1, <1>2, <1>4
<1> QED
  BY <1>3, <1>5, <1>6, <1>7

LEMMA UnderWritten ==
  ASSUME TypeOK, PlacedWritten, NEW d \in Devices
  PROVE  Under(d) \subseteq Written
<1> SUFFICES ASSUME NEW c \in Currents(held[d], applied[d])
             PROVE  {c.text} \cup over[c.text] \subseteq Written
  BY DEF Under
<1>1. c \in held[d]
  BY DEF Currents
<1>2. c.text \in Written
  <2>1. <<applied[d], c>> \in Placed
    BY <1>1, PlacedHeld
  <2> QED
    BY <2>1 DEF PlacedWritten
<1> QED
  BY <1>2 DEF TypeOK

-----------------------------------------------------------------------------
\* A step that writes no text and puts nothing in a new place, keeps IInv.
LEMMA NothingNew ==
  ASSUME IInv, TypeOK', EntriesMayBe', UNCHANGED over, Placed' \subseteq Placed
  PROVE  IInv'
<1>1. PlacedWritten'
  BY DEF IInv, PlacedWritten, Written
<1>2. OneTextOneEnd'
  BY DEF IInv, OneTextOneEnd
<1>3. EndsAbove'
  BY DEF IInv, EndsAbove
<1> QED
  BY <1>1, <1>2, <1>3 DEF IInv

(* A store holds nothing but what it held and what was given to it. *)
LEMMA StoreType ==
  ASSUME NEW entries, NEW e
  PROVE  Store(entries, e) \subseteq entries \cup {e}
  BY DEF Store

(* With one statement, nothing written and nothing held, the invariant holds. *)
THEOREM InitIInv == Init => IInv
<1> SUFFICES ASSUME Init PROVE IInv
  OBVIOUS
<1>1. Placed = {}
  BY DEF Init, Placed
<1>2. TypeOK
  BY RevisionAssumption DEF Init, TypeOK, Statements, Written
<1>3. EntriesMayBe
  BY DEF Init, EntriesMayBe
<1> QED
  BY <1>1, <1>2, <1>3 DEF IInv, PlacedWritten, OneTextOneEnd, EndsAbove

\* An edit, at a revision above the highest that counts.
LEMMA WriteAtKeeps ==
  ASSUME IInv, NEW d \in Devices, NEW text \in Texts, NEW rev \in Nat,
         NEW h \in Highest(held[d], applied[d]), rev > h,
         MayBeUnder(rev, applied[d]), WriteAt(d, text, rev)
  PROVE  IInv'
<1> DEFINE e == [rev |-> rev, text |-> text, author |-> d]
           new == <<applied[d], e>>
<1>1. /\ TypeOK /\ EntriesMayBe /\ PlacedWritten /\ OneTextOneEnd /\ EndsAbove
  BY DEF IInv
<1>2. /\ text \notin Written
      /\ Written' = Written \cup {text}
      /\ over'[text] = Under(d)
      /\ \A t \in Written : over'[t] = over[t]
      /\ UNCHANGED <<applied, made, relays>>
  BY DEF WriteAt, Written
<1>3. e \in Entry
  BY DEF Entry
<1>4. \A c \in Devices : held'[c] \subseteq held[c] \cup (IF c = d THEN {e} ELSE {})
  BY <1>1, StoreType DEF WriteAt, TypeOK
<1>5. TypeOK'
  <2>1. Under(d) \subseteq Written
    BY <1>1, UnderWritten
  <2>2. held' \in [Devices -> SUBSET Entry]
    BY <1>1, <1>3, <1>4 DEF WriteAt, TypeOK
  <2>3. \A t \in Written' : over'[t] \subseteq Written'
    BY <1>1, <1>2, <2>1 DEF TypeOK
  <2> QED
    BY <1>1, <1>2, <2>2, <2>3 DEF TypeOK
<1>6. EntriesMayBe'
  BY <1>1, <1>2, <1>4 DEF EntriesMayBe
<1>7. \A p \in Placed' : p \in Placed \/ p = new
  BY <1>2, <1>4 DEF Placed
<1>8. \A p \in Placed : p[2].text \in Written /\ p[2].text # text
  BY <1>1, <1>2 DEF PlacedWritten
<1>9. new[2].text = text /\ new[2].rev = rev
  OBVIOUS
<1> HIDE DEF e, new
<1>10. PlacedWritten'
  BY <1>2, <1>7, <1>8, <1>9 DEF PlacedWritten
<1>11. OneTextOneEnd'
  BY <1>1, <1>7, <1>8, <1>9 DEF OneTextOneEnd
<1>12. ASSUME NEW p \in Placed, p[2].text \in Under(d)
       PROVE  Lifted(p[2].rev) < Lifted(rev)
  <2>1. PICK c \in Currents(held[d], applied[d]) :
          p[2].text = c.text \/ p[2].text \in over[c.text]
    BY <1>12 DEF Under
  <2>2. c \in held[d] /\ MayBeUnder(c.rev, applied[d]) /\ <<applied[d], c>> \in Placed
    BY <2>1, PlacedHeld DEF Currents, IsCurrent
  <2>3. c.rev \in Nat /\ p[2].rev \in Nat /\ applied[d] \in Statements
    BY <1>1, <2>2, PlacedType DEF TypeOK
  <2>4. c.rev < rev
    <3>1. Band(c.rev) <= applied[d]
      BY <2>2, <2>3, Split DEF MayBeUnder, Statements
    <3>2. c.rev <= h /\ h \in Int
      BY <3>1, <2>2, <2>3, <1>1 DEF Highest, NoRev, TypeOK, Entry
    <3> QED
      BY <3>2, <2>3
  <2>5. Lifted(c.rev) < Lifted(rev)
    BY <2>2, <2>3, <2>4, LiftedOrder
  <2>6. Lifted(p[2].rev) <= Lifted(c.rev)
    <3>1. CASE p[2].text = c.text
      <4>1. Lifted(p[2].rev) = Lifted(c.rev)
        BY <3>1, <2>2, <1>1 DEF OneTextOneEnd
      <4> QED
        BY <4>1, <2>3, LiftedType
    <3>2. CASE p[2].text \in over[c.text]
      <4>1. Lifted(p[2].rev) < Lifted(c.rev)
        BY <3>2, <2>2, <1>1 DEF EndsAbove
      <4> QED
        BY <4>1, <2>3, LiftedType
    <3> QED
      BY <2>1, <3>1, <3>2
  <2> QED
    BY <2>3, <2>5, <2>6, LiftedType
<1>13. EndsAbove'
  <2> SUFFICES ASSUME NEW p \in Placed', NEW q \in Placed',
                      p[2].text \in over'[q[2].text]
               PROVE  Lifted(p[2].rev) < Lifted(q[2].rev)
    BY DEF EndsAbove
  <2>1. CASE q \in Placed
    <3>1. over'[q[2].text] = over[q[2].text] /\ over[q[2].text] \subseteq Written
      BY <2>1, <1>1, <1>2, <1>8 DEF TypeOK
    <3>2. p \in Placed
      BY <3>1, <1>2, <1>7, <1>9
    <3> QED
      BY <3>1, <3>2, <2>1, <1>1 DEF EndsAbove
  <2>2. CASE q = new
    <3>1. p[2].text \in Under(d)
      BY <2>2, <1>2, <1>9
    <3>2. Under(d) \subseteq Written
      BY <1>1, UnderWritten
    <3>3. p \in Placed
      BY <3>1, <3>2, <1>2, <1>7, <1>9
    <3> QED
      BY <3>1, <3>3, <2>2, <1>9, <1>12
  <2> QED
    BY <1>7, <2>1, <2>2
<1> QED
  BY <1>5, <1>6, <1>10, <1>11, <1>13 DEF IInv

LEMMA WriteKeeps ==
  ASSUME IInv, NEW d \in Devices, NEW text \in Texts, Write(d, text)
  PROVE  IInv'
<1>1. PICK h \in Highest(held[d], applied[d]) :
        /\ NextUnder(h, applied[d]) # NoRev
        /\ WriteAt(d, text, NextUnder(h, applied[d]))
  BY DEF Write
<1>2. applied[d] \in Statements /\ applied[d] \in Nat
  BY DEF IInv, TypeOK, Statements
<1>3. h \in Nat
  BY <1>2 DEF Highest, NoRev, IInv, TypeOK, Entry
<1>4. /\ NextUnder(h, applied[d]) \in Nat
      /\ NextUnder(h, applied[d]) > h
      /\ MayBeUnder(NextUnder(h, applied[d]), applied[d])
  BY <1>1, <1>2, <1>3, NextAbove, NextUnderType
<1> QED
  BY <1>1, <1>4, WriteAtKeeps

LEMMA JumpKeeps ==
  ASSUME IInv, NEW d \in Devices, NEW text \in Texts, NEW rev \in Jumps, Jump(d, text, rev)
  PROVE  IInv'
<1>1. PICK h \in Highest(held[d], applied[d]) : rev > h + 1
  BY DEF Jump
<1>2. applied[d] \in Statements
  BY DEF IInv, TypeOK
<1>3. h \in Nat /\ rev \in Nat
  BY <1>2, CrossingAssumption DEF Highest, NoRev, IInv, TypeOK, Entry
<1>4. rev > h /\ MayBeUnder(rev, applied[d]) /\ WriteAt(d, text, rev)
  BY <1>1, <1>3 DEF Jump
<1> QED
  BY <1>3, <1>4, WriteAtKeeps

LEMMA PushKeeps ==
  ASSUME IInv, NEW d \in Devices, Push(d)
  PROVE  IInv'
<1>1. PICK e \in held[d] :
        /\ relays' = [relays EXCEPT ![applied[d]] = Store(@, e)]
        /\ UNCHANGED <<applied, made, held, over>>
  BY DEF Push
<1>2. applied[d] \in Statements /\ e \in Entry /\ MayBeUnder(e.rev, applied[d])
  BY DEF IInv, TypeOK, EntriesMayBe
<1>3. \A n \in Statements :
        relays'[n] \subseteq relays[n] \cup (IF n = applied[d] THEN {e} ELSE {})
  BY <1>1, <1>2, StoreType DEF IInv, TypeOK
<1>4. relays' \in [Statements -> SUBSET Entry]
  BY <1>1, <1>2, <1>3 DEF IInv, TypeOK
<1>5. TypeOK' /\ EntriesMayBe'
  BY <1>1, <1>2, <1>3, <1>4 DEF IInv, TypeOK, EntriesMayBe, Written
<1>6. Placed' \subseteq Placed
  BY <1>1, <1>2, <1>3, PlacedHeld DEF Placed
<1> QED
  BY <1>1, <1>5, <1>6, NothingNew

LEMMA PullKeeps ==
  ASSUME IInv, NEW d \in Devices, Pull(d)
  PROVE  IInv'
<1>1. PICK e \in relays[applied[d]] :
        /\ held' = [held EXCEPT ![d] = Store(@, e)]
        /\ UNCHANGED <<applied, made, relays, over>>
  BY DEF Pull
<1>2. applied[d] \in Statements /\ e \in Entry /\ MayBeUnder(e.rev, applied[d])
  BY DEF IInv, TypeOK, EntriesMayBe
<1>3. \A c \in Devices : held'[c] \subseteq held[c] \cup (IF c = d THEN {e} ELSE {})
  BY <1>1, StoreType DEF IInv, TypeOK
<1>4. held' \in [Devices -> SUBSET Entry]
  BY <1>1, <1>2, <1>3 DEF IInv, TypeOK
<1>5. TypeOK' /\ EntriesMayBe'
  BY <1>1, <1>2, <1>3, <1>4 DEF IInv, TypeOK, EntriesMayBe, Written
<1>6. <<applied[d], e>> \in Placed
  BY <1>2 DEF Placed
<1>7. Placed' \subseteq Placed
  BY <1>1, <1>3, <1>6 DEF Placed
<1> QED
  BY <1>1, <1>5, <1>7, NothingNew

LEMMA MakeKeeps ==
  ASSUME IInv, NEW d \in Devices, Make(d)
  PROVE  IInv'
<1>1. made' \in Statements
  BY RevisionAssumption DEF Make, IInv, TypeOK, Statements
<1>2. TypeOK' /\ EntriesMayBe'
  BY <1>1 DEF Make, IInv, TypeOK, EntriesMayBe, Written
<1>3. Placed' \subseteq Placed
  BY DEF Make, Placed
<1> QED
  BY <1>2, <1>3, NothingNew DEF Make

\* A carried entry ends up where the version it carries does.
LEMMA ApplyKeeps ==
  ASSUME IInv, NEW d \in Devices, NEW n \in Statements, Apply(d, n)
  PROVE  IInv'
<1> DEFINE m == applied[d]
           Carried(c) == [rev |-> CarriedRev(c.rev, m, n), text |-> c.text, author |-> d]
           Brought == {Carried(c) : c \in Currents(held[d], m)}
<1>1. /\ TypeOK /\ EntriesMayBe /\ PlacedWritten /\ OneTextOneEnd /\ EndsAbove
  BY DEF IInv
<1>2. /\ applied' = [applied EXCEPT ![d] = n]
      /\ held' = [held EXCEPT ![d] = Brought]
      /\ m \in Statements /\ m < n
      /\ UNCHANGED <<made, relays, over>>
  BY <1>1 DEF Apply, TypeOK, Statements
<1>3. ASSUME NEW c \in Currents(held[d], m)
      PROVE  /\ <<m, c>> \in Placed
             /\ Carried(c) \in Entry
             /\ Carried(c).text = c.text
             /\ MayBeUnder(Carried(c).rev, n)
             /\ Lifted(Carried(c).rev) = Lifted(c.rev)
  <2>1. c \in held[d] /\ MayBeUnder(c.rev, m)
    BY DEF Currents, IsCurrent
  <2>2. c.rev \in Nat /\ c.text \in Texts
    BY <2>1, <1>1 DEF TypeOK, Entry
  <2>3. Carried(c).rev = Lifted(c.rev) /\ Lifted(c.rev) \in Nat
    BY <1>2, <2>2, LiftedType DEF CarriedRev
  <2>4. MayBeUnder(Lifted(c.rev), n)
    BY <1>2, <2>1, <2>2, LiftedMayBe
  <2>5. Lifted(Lifted(c.rev)) = Lifted(c.rev)
    BY <2>2, LiftedOnce
  <2>6. Carried(c) \in Entry
    BY <2>2, <2>3 DEF Entry
  <2> QED
    BY <2>1, <2>3, <2>4, <2>5, <2>6, PlacedHeld
<1> HIDE DEF Carried
<1>4. TypeOK'
  BY <1>1, <1>2, <1>3 DEF TypeOK, Written
<1>5. EntriesMayBe'
  BY <1>1, <1>2, <1>3 DEF EntriesMayBe, TypeOK
<1>6. ASSUME NEW p \in Placed'
      PROVE  \E q \in Placed : p[2].text = q[2].text /\ Lifted(p[2].rev) = Lifted(q[2].rev)
  <2>1. CASE p \in Placed
    BY <2>1
  <2>2. CASE p \notin Placed
    <3>1. PICK c \in Currents(held[d], m) : p[2] = Carried(c)
      BY <2>2, <1>1, <1>2 DEF Placed, TypeOK
    <3>2. p[2].text = <<m, c>>[2].text /\ Lifted(p[2].rev) = Lifted(<<m, c>>[2].rev)
      BY <3>1, <1>3
    <3> QED
      BY <3>2, <1>3
  <2> QED
    BY <2>1, <2>2
<1>7. over' = over
  BY <1>2
<1>8. PlacedWritten'
  BY <1>1, <1>6, <1>7 DEF PlacedWritten, Written
<1>9. OneTextOneEnd'
  BY <1>1, <1>6 DEF OneTextOneEnd
<1>10. EndsAbove'
  BY <1>1, <1>6, <1>7 DEF EndsAbove
<1> QED
  BY <1>4, <1>5, <1>8, <1>9, <1>10 DEF IInv

(* Each write, jump, push, pull, statement and carry keeps the invariant. *)
THEOREM NextIInv == IInv /\ [Next]_vars => IInv'
<1> SUFFICES ASSUME IInv, [Next]_vars PROVE IInv'
  OBVIOUS
<1>1. ASSUME NEW d \in Devices, NEW text \in Texts, Write(d, text) PROVE IInv'
  BY <1>1, WriteKeeps
<1>2. ASSUME NEW d \in Devices, NEW text \in Texts, NEW rev \in Jumps, Jump(d, text, rev)
      PROVE  IInv'
  BY <1>2, JumpKeeps
<1>3. ASSUME NEW d \in Devices, Push(d) PROVE IInv'
  BY <1>3, PushKeeps
<1>4. ASSUME NEW d \in Devices, Pull(d) PROVE IInv'
  BY <1>4, PullKeeps
<1>5. ASSUME NEW d \in Devices, Make(d) PROVE IInv'
  BY <1>5, MakeKeeps
<1>6. ASSUME NEW d \in Devices, NEW n \in Statements, Apply(d, n) PROVE IInv'
  BY <1>6, ApplyKeeps
<1>7. CASE UNCHANGED vars
  BY <1>7 DEF vars, IInv, TypeOK, EntriesMayBe, PlacedWritten, OneTextOneEnd, EndsAbove,
              Placed, Written
<1> QED
  BY <1>1, <1>2, <1>3, <1>4, <1>5, <1>6, <1>7 DEF Next

\* A name with nothing at a revision yet is within reach.
LEMMA FirstRev ==
  ASSUME NEW n \in Statements
  PROVE  NextUnder(NoRev, n) # NoRev
<1>1. n \in Nat /\ n > 0
  BY RevisionAssumption DEF Statements
<1>2. NoRev + 1 = Size * 0 + 1 /\ 1 < Size /\ NoRev + 1 \in Nat
  BY SizeType, RevisionAssumption DEF NoRev
<1>3. Band(NoRev + 1) = 0
  BY <1>2, SplitOnly
<1>4. Lifted(NoRev + 1) >= NoRev + 1 /\ Lifted(NoRev + 1) \in Nat
  BY <1>2, LiftedType
<1> QED
  BY <1>1, <1>2, <1>3, <1>4 DEF NextUnder, NoRev

\* After an Apply the device has a next revision for the name.
LEMMA ApplyGivesNext ==
  ASSUME IInv, NEW c \in Devices, NEW n \in Statements, Apply(c, n),
         NEW d \in Devices, applied'[d] # applied[d],
         NEW h \in Highest(held'[d], applied'[d])
  PROVE  NextUnder(h, applied'[d]) # NoRev
<1>1. c = d /\ applied'[d] = n /\ applied[d] \in Statements /\ applied[d] < n
  BY DEF Apply, IInv, TypeOK, Statements
<1>2. ASSUME NEW e \in held'[d]
      PROVE  \E f \in held[d] : /\ f.rev \in Nat
                                 /\ MayBeUnder(f.rev, applied[d])
                                 /\ e.rev = Lifted(f.rev)
  <2>1. PICK f \in Currents(held[d], applied[d]) :
          e = [rev |-> CarriedRev(f.rev, applied[d], n), text |-> f.text, author |-> d]
    BY <1>1, <1>2 DEF Apply, IInv, TypeOK
  <2>2. f \in held[d] /\ MayBeUnder(f.rev, applied[d]) /\ f.rev \in Nat
    BY DEF Currents, IsCurrent, IInv, TypeOK, Entry
  <2>3. CarriedRev(f.rev, applied[d], n) = Lifted(f.rev)
    BY <1>1 DEF CarriedRev, Statements
  <2> QED
    BY <2>1, <2>2, <2>3
<1>3. h = NoRev \/ \E e \in held'[d] : h = e.rev
  BY DEF Highest
<1>4. CASE h = NoRev
  BY <1>4, <1>1, FirstRev
<1>5. CASE \E e \in held'[d] : h = e.rev
  <2>1. PICK e \in held'[d] : h = e.rev
    BY <1>5
  <2>2. PICK f \in held[d] : /\ f.rev \in Nat
                             /\ MayBeUnder(f.rev, applied[d])
                             /\ e.rev = Lifted(f.rev)
    BY <1>2
  <2> QED
    BY <2>1, <2>2, <1>1, StatementFrees
<1> QED
  BY <1>3, <1>4, <1>5

(* So it always holds. *)
THEOREM Invariant == Spec => []IInv
  BY InitIInv, NextIInv, PTL DEF Spec

\* Spec keeps to its types.
THEOREM TypeCorrect == Spec => []TypeOK
<1>1. IInv => TypeOK
  BY DEF IInv
<1> QED
  BY <1>1, Invariant, PTL

\* Every entry of a generation's channel is at a revision that may be an
\* entry's under its statement.
THEOREM EntriesAlwaysMayBe == Spec => []EntriesMayBe
<1>1. IInv => EntriesMayBe
  BY DEF IInv
<1> QED
  BY <1>1, Invariant, PTL

\* An edit is above what it was written over, in whichever generations the
\* two are.
THEOREM EditAlwaysAbove == Spec => []EditStaysAbove
<1>1. IInv => EditStaysAbove
  BY EndsAboveGives DEF IInv
<1> QED
  BY <1>1, Invariant, PTL

\* Devices under two statements give an edit one revision.
THEOREM OneEditAlwaysOneRev == Spec => []OneEditOneRev
<1>1. IInv => OneEditOneRev
  <2> SUFFICES ASSUME IInv, NEW c \in Devices, NEW d \in Devices,
                      NEW hc \in Highest(held[c], applied[c]),
                      NEW hd \in Highest(held[d], applied[d]),
                      applied[c] < applied[d],
                      hd = Lifted(hc),
                      NextUnder(hc, applied[c]) # NoRev
               PROVE  NextUnder(hd, applied[d]) = Lifted(NextUnder(hc, applied[c]))
    BY DEF OneEditOneRev
  <2>1. applied[c] \in Statements /\ applied[d] \in Statements
    BY DEF IInv, TypeOK
  <2>2. hc \in Nat /\ (hc = NoRev \/ MayBeUnder(hc, applied[c]))
    BY DEF IInv, TypeOK, EntriesMayBe, Entry, Highest, NoRev
  <2> QED
    BY <2>1, <2>2, OneEditOneRevision
<1> QED
  BY <1>1, Invariant, PTL

\* Coming to a later statement puts the name within reach.
THEOREM ApplyAlwaysFrees == Spec => ApplyFrees
<1> DEFINE Frees == \A d \in Devices : applied'[d] # applied[d] =>
                      \A h \in Highest(held'[d], applied'[d]) :
                        NextUnder(h, applied'[d]) # NoRev
<1>1. ASSUME IInv, [Next]_vars PROVE [Frees]_vars
  <2> SUFFICES ASSUME NEW d \in Devices, applied'[d] # applied[d],
                      NEW h \in Highest(held'[d], applied'[d])
               PROVE  NextUnder(h, applied'[d]) # NoRev
    OBVIOUS
  <2>1. PICK c \in Devices, n \in Statements : Apply(c, n)
    BY <1>1 DEF Next, Write, Jump, WriteAt, Push, Pull, Make, vars
  <2> QED
    BY <1>1, <2>1, ApplyGivesNext
<1> QED
  BY <1>1, Invariant, PTL DEF Spec, ApplyFrees
=============================================================================
