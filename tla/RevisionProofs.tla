--------------------------- MODULE RevisionProofs ---------------------------
(***************************************************************************)
(* What the renumbering of cordelia-core/src/revision.rs gives, for every  *)
(* width of a band and every number of statements.                         *)
(***************************************************************************)
EXTENDS Revision, TLAPS

\* Division with remainder, for any divisor.
LEMMA Divide ==
  ASSUME NEW a \in Nat, NEW s \in Nat, s > 0
  PROVE  /\ a \div s \in Nat
         /\ a % s \in Nat
         /\ a % s < s
         /\ a = s * (a \div s) + (a % s)
<1>1. a \div s \in Int /\ a \div s >= 0
  BY SMT
<1>2. a % s \in Int /\ a % s >= 0 /\ a % s < s
  BY SMT
<1>3. a = s * (a \div s) + (a % s)
  BY SMT
<1> QED
  BY <1>1, <1>2, <1>3

\* A quotient and a remainder are the only ones.
LEMMA DivideOnly ==
  ASSUME NEW s \in Nat, NEW q \in Nat, NEW c \in Nat, c < s
  PROVE  (s * q + c) \div s = q /\ (s * q + c) % s = c
<1>1. s > 0 /\ s * q \in Nat /\ s * q + c \in Nat
  OBVIOUS
<1>2. (s * q + c) \div s = q
  BY <1>1
<1>3. s * q + c = s * ((s * q + c) \div s) + ((s * q + c) % s)
  BY <1>1, Divide
<1> QED
  BY <1>1, <1>2, <1>3, Divide

LEMMA SizeType == Size \in Nat /\ Size > 0 /\ Size = Half + Half /\ Half < Size
  BY RevisionAssumption DEF Size

\* A revision is its band and its count.
LEMMA Split ==
  ASSUME NEW rev \in Nat
  PROVE  /\ Band(rev) \in Nat
         /\ Count(rev) \in Nat
         /\ Count(rev) < Size
         /\ rev = Size * Band(rev) + Count(rev)
  BY SizeType, Divide DEF Band, Count

LEMMA SplitOnly ==
  ASSUME NEW b \in Nat, NEW c \in Nat, c < Size
  PROVE  Band(Size * b + c) = b /\ Count(Size * b + c) = c
  BY SizeType, DivideOnly DEF Band, Count

\* A revision in a lower band is a lower revision, by at least the
\* difference of their counts to the band's end.
LEMMA BandOrder ==
  ASSUME NEW r \in Nat, NEW t \in Nat
  PROVE  /\ Band(r) < Band(t) => r - Count(r) + Size <= t - Count(t)
         /\ r < t => Band(r) <= Band(t)
         /\ Band(r) = Band(t) => r - Count(r) = t - Count(t)
<1>1. /\ Band(r) \in Nat /\ Band(t) \in Nat /\ Count(r) \in Nat /\ Count(t) \in Nat
      /\ Count(r) < Size /\ Count(t) < Size
      /\ r = Size * Band(r) + Count(r) /\ t = Size * Band(t) + Count(t)
  BY Split
<1>2. ASSUME Band(r) < Band(t) PROVE Size * Band(r) + Size <= Size * Band(t)
  <2>1. PICK k \in Nat : Band(t) = Band(r) + 1 + k
    <3>1. Band(t) - Band(r) - 1 \in Nat
      BY <1>1, <1>2
    <3> QED
      BY <3>1, <1>1
  <2>2. Size * Band(t) = Size * Band(r) + Size + Size * k
    BY <2>1, <1>1, SizeType
  <2>3. Size * k >= 0 /\ Size * k \in Int /\ Size * Band(r) \in Int
    BY SizeType, <1>1
  <2> QED
    BY <2>2, <2>3, <1>1, SizeType
<1>3. ASSUME Band(t) < Band(r) PROVE Size * Band(t) + Size <= Size * Band(r)
  <2>1. PICK k \in Nat : Band(r) = Band(t) + 1 + k
    <3>1. Band(r) - Band(t) - 1 \in Nat
      BY <1>1, <1>3
    <3> QED
      BY <3>1, <1>1
  <2>2. Size * Band(r) = Size * Band(t) + Size + Size * k
    BY <2>1, <1>1, SizeType
  <2>3. Size * k >= 0 /\ Size * k \in Int /\ Size * Band(t) \in Int
    BY SizeType, <1>1
  <2> QED
    BY <2>2, <2>3, <1>1, SizeType
<1>4. Size * Band(r) \in Int /\ Size * Band(t) \in Int
  BY <1>1, SizeType
<1> QED
  BY <1>1, <1>2, <1>3, <1>4, SizeType

\* Adding half a band to a revision in the top half of its band.
LEMMA NextBand ==
  ASSUME NEW r \in Nat, Count(r) >= Half
  PROVE  Band(r + Half) = Band(r) + 1 /\ Count(r + Half) = Count(r) - Half
<1>1. /\ Band(r) \in Nat /\ Count(r) \in Nat /\ Count(r) < Size
      /\ r = Size * Band(r) + Count(r)
  BY Split
<1>2. Size * (Band(r) + 1) = Size * Band(r) + Size /\ Size * Band(r) \in Int
  BY <1>1, SizeType
<1>3. r + Half = Size * (Band(r) + 1) + (Count(r) - Half)
  <2>1. PICK low \in Int : low = Size * Band(r)
    BY <1>2
  <2>2. r = low + Count(r) /\ Size * (Band(r) + 1) = low + Size
    BY <2>1, <1>1, <1>2
  <2>3. r + Half = low + Size + (Count(r) - Half)
    BY <2>2, <1>1, SizeType, RevisionAssumption
  <2> QED
    BY <2>2, <2>3
<1>4. Count(r) - Half \in Nat /\ Count(r) - Half < Size /\ Band(r) + 1 \in Nat
  BY <1>1, SizeType, RevisionAssumption
<1> QED
  BY <1>3, <1>4, SplitOnly

\* Going up by one stays in the band, or starts the next one.
LEMMA NextOne ==
  ASSUME NEW r \in Nat
  PROVE  \/ Band(r + 1) = Band(r) /\ Count(r + 1) = Count(r) + 1
         \/ Band(r + 1) = Band(r) + 1 /\ Count(r + 1) = 0 /\ Count(r) = Size - 1
<1>1. /\ Band(r) \in Nat /\ Count(r) \in Nat /\ Count(r) < Size
      /\ r = Size * Band(r) + Count(r)
  BY Split
<1>2. Size * (Band(r) + 1) = Size * Band(r) + Size /\ Size * Band(r) \in Int
  BY <1>1, SizeType
<1>3. CASE Count(r) + 1 < Size
  <2>1. r + 1 = Size * Band(r) + (Count(r) + 1)
    BY <1>1, <1>2
  <2> QED
    BY <2>1, <1>1, <1>3, SplitOnly
<1>4. CASE Count(r) + 1 = Size
  <2>1. r + 1 = Size * (Band(r) + 1) + 0
    BY <1>1, <1>2, <1>4, SizeType
  <2>2. Band(r) + 1 \in Nat /\ 0 \in Nat /\ 0 < Size
    BY <1>1, SizeType
  <2>3. Band(r + 1) = Band(r) + 1 /\ Count(r + 1) = 0
    BY <2>1, <2>2, SplitOnly
  <2> QED
    BY <2>3, <1>4, <1>1, SizeType
<1> QED
  BY <1>1, <1>3, <1>4, SizeType

LEMMA LiftedType ==
  ASSUME NEW r \in Nat
  PROVE  Lifted(r) \in Nat /\ Lifted(r) >= r
  BY RevisionAssumption DEF Lifted

LEMMA NextUnderType ==
  ASSUME NEW h \in Nat, NEW n \in Nat
  PROVE  NextUnder(h, n) \in Nat
  BY LiftedType DEF NextUnder, NoRev

\* Lifting twice is lifting once: a device several statements behind moves
\* what it holds to where the others moved it.
THEOREM LiftedOnce ==
  ASSUME NEW r \in Nat
  PROVE  Lifted(Lifted(r)) = Lifted(r)
<1>1. CASE Band(r) < MaxStatement /\ Count(r) >= Half
  <2>1. Lifted(r) = r + Half
    BY <1>1 DEF Lifted
  <2>2. Count(r + Half) < Half
    BY <1>1, NextBand, Split, SizeType, RevisionAssumption
  <2> QED
    BY <2>1, <2>2, Split, LiftedType, RevisionAssumption DEF Lifted
<1>2. CASE ~(Band(r) < MaxStatement /\ Count(r) >= Half)
  BY <1>2 DEF Lifted
<1> QED
  BY <1>1, <1>2

\* What may be an entry under a statement, lifted, may be one under every
\* later statement: nothing a carry brings over is refused there.
THEOREM LiftedMayBe ==
  ASSUME NEW n \in Statements, NEW m \in Statements, n < m,
         NEW r \in Nat, MayBeUnder(r, n)
  PROVE  MayBeUnder(Lifted(r), m)
<1>0. n \in Nat /\ m \in Nat /\ n <= MaxStatement /\ m <= MaxStatement /\ r # 0
  BY RevisionAssumption DEF Statements, MayBeUnder, NoRev
<1>1. Band(r) <= n /\ Band(r) \in Nat /\ Count(r) \in Nat /\ Count(r) < Size
  BY Split, <1>0 DEF MayBeUnder
<1>2. CASE Count(r) < Half
  <2>1. Lifted(r) = r
    BY <1>2, <1>1, RevisionAssumption DEF Lifted
  <2> QED
    BY <2>1, <1>0, <1>1, <1>2 DEF MayBeUnder, NoRev
<1>3. CASE Count(r) >= Half
  <2>1. Band(r) = n
    BY <1>3, <1>1, <1>0, RevisionAssumption DEF MayBeUnder
  <2>2. Lifted(r) = r + Half
    BY <2>1, <1>0, <1>3, RevisionAssumption DEF Lifted
  <2>3. Band(r + Half) = n + 1 /\ Count(r + Half) < Half
    BY <2>1, <1>3, <1>1, NextBand, SizeType, RevisionAssumption
  <2>4. r + Half # 0
    BY RevisionAssumption
  <2> QED
    BY <2>2, <2>3, <2>4, <1>0 DEF MayBeUnder, NoRev
<1> QED
  BY <1>1, <1>2, <1>3, RevisionAssumption

\* Lifting keeps the order of every two revisions that may be entries under
\* one statement.
THEOREM LiftedOrder ==
  ASSUME NEW n \in Statements,
         NEW r \in Nat, NEW t \in Nat, MayBeUnder(r, n), MayBeUnder(t, n), r < t
  PROVE  Lifted(r) < Lifted(t)
<1>1. n \in Nat /\ n <= MaxStatement
  BY RevisionAssumption DEF Statements
<1>2. /\ Band(r) \in Nat /\ Count(r) \in Nat /\ Band(t) \in Nat /\ Count(t) \in Nat
  BY Split
<1>3. CASE Lifted(r) = r
  BY <1>3, LiftedType
<1>4. CASE Lifted(r) # r
  <2>1. Lifted(r) = r + Half /\ Count(r) >= Half /\ Band(r) < MaxStatement
    BY <1>4 DEF Lifted
  <2>2. Band(r) = n
    BY <2>1, <1>1, <1>2, RevisionAssumption DEF MayBeUnder
  <2>3. Band(t) = n
    BY <2>2, <1>1, <1>2, BandOrder DEF MayBeUnder
  <2>4. Count(t) >= Half
    BY <2>1, <2>2, <2>3, <1>2, BandOrder, RevisionAssumption
  <2>5. Lifted(t) = t + Half
    BY <2>1, <2>2, <2>3, <2>4 DEF Lifted
  <2> QED
    BY <2>1, <2>5, RevisionAssumption
<1> QED
  BY <1>3, <1>4

\* The next revision is above the highest that counts, and may be an entry's.
THEOREM NextAbove ==
  ASSUME NEW n \in Statements, NEW h \in Nat, NextUnder(h, n) # NoRev
  PROVE  NextUnder(h, n) > h /\ MayBeUnder(NextUnder(h, n), n)
<1>1. n \in Nat /\ n <= MaxStatement
  BY RevisionAssumption DEF Statements
<1>2. h + 1 \in Nat /\ Band(h + 1) \in Nat /\ Count(h + 1) \in Nat /\ Band(h + 1) <= n
  BY Split, <1>1 DEF NextUnder
<1>3. CASE Band(h + 1) = n
  BY <1>1, <1>2, <1>3 DEF NextUnder, MayBeUnder, NoRev
<1>4. CASE Band(h + 1) < n
  <2>1. NextUnder(h, n) = Lifted(h + 1)
    BY <1>4, <1>1, <1>2 DEF NextUnder
  <2>2. Lifted(h + 1) >= h + 1 /\ Lifted(h + 1) \in Nat
    BY <1>2, LiftedType
  <2>3. MayBeUnder(Lifted(h + 1), n)
    <3>1. CASE Count(h + 1) < Half
      <4>1. Lifted(h + 1) = h + 1
        BY <3>1, <1>2, RevisionAssumption DEF Lifted
      <4> QED
        BY <4>1, <3>1, <1>4, <1>1 DEF MayBeUnder, NoRev
    <3>2. CASE Count(h + 1) >= Half
      <4>1. Lifted(h + 1) = h + 1 + Half
        BY <3>2, <1>4, <1>1, <1>2, RevisionAssumption DEF Lifted
      <4>2. Band(h + 1 + Half) = Band(h + 1) + 1 /\ Count(h + 1 + Half) < Half
        BY <3>2, <1>2, NextBand, Split, SizeType, RevisionAssumption
      <4>3. h + 1 + Half # 0
        BY RevisionAssumption
      <4> QED
        BY <4>1, <4>2, <4>3, <1>4, <1>1, <1>2 DEF MayBeUnder, NoRev
    <3> QED
      BY <3>1, <3>2, <1>2, RevisionAssumption
  <2> QED
    BY <2>1, <2>2, <2>3
<1> QED
  BY <1>1, <1>2, <1>3, <1>4

\* An edit of one version has one revision: given under a statement and
\* then lifted, it is the one that a device which had applied a later
\* statement gave the same edit.
THEOREM OneEditOneRevision ==
  ASSUME NEW n \in Statements, NEW m \in Statements, n < m,
         NEW h \in Nat, h = NoRev \/ MayBeUnder(h, n),
         NextUnder(h, n) # NoRev
  PROVE  NextUnder(Lifted(h), m) = Lifted(NextUnder(h, n))
<1>1. n \in Nat /\ m \in Nat /\ n <= MaxStatement /\ m <= MaxStatement
  BY RevisionAssumption DEF Statements
<1>2. /\ Band(h) \in Nat /\ Count(h) \in Nat /\ Count(h) < Size
      /\ h + 1 \in Nat
      /\ Band(h + 1) \in Nat /\ Count(h + 1) \in Nat /\ Count(h + 1) < Size
  BY Split
<1>3. Band(h + 1) <= n
  BY <1>1, <1>2 DEF NextUnder
<1>4. Lifted(NextUnder(h, n)) = Lifted(h + 1)
  BY <1>1, <1>2, <1>3, LiftedOnce DEF NextUnder
<1>5. CASE Count(h) < Half
  <2>1. Lifted(h) = h
    BY <1>5, <1>2, RevisionAssumption DEF Lifted
  <2> QED
    BY <2>1, <1>1, <1>2, <1>3, <1>4 DEF NextUnder
<1>6. CASE Count(h) >= Half
  <2>1. h # NoRev /\ MayBeUnder(h, n)
    <3>1. CASE h = NoRev
      <4>1. h = Size * 0 + 0 /\ 0 < Size
        BY <3>1, SizeType DEF NoRev
      <4>2. Count(h) = 0
        BY <4>1, SplitOnly
      <4> QED
        BY <4>2, <1>6, RevisionAssumption
    <3> QED
      BY <3>1 DEF MayBeUnder
  <2>2. Band(h) = n
    BY <2>1, <1>6, <1>1, <1>2, RevisionAssumption DEF MayBeUnder
  <2>3. Band(h + 1) = n /\ Count(h + 1) = Count(h) + 1
    BY <2>2, <1>3, <1>1, NextOne
  <2>4. Lifted(h) = h + Half /\ Lifted(h + 1) = h + 1 + Half
    BY <2>2, <2>3, <1>6, <1>1, <1>2, RevisionAssumption DEF Lifted
  <2>5. Band(h + 1 + Half) = n + 1 /\ Count(h + 1 + Half) = Count(h + 1) - Half
    BY <2>3, <1>6, <1>2, NextBand, RevisionAssumption
  <2>6. h + Half + 1 = h + 1 + Half /\ h + 1 + Half \in Nat
    BY RevisionAssumption
  <2>7. Count(h + 1 + Half) < Half
    BY <2>5, <1>2, SizeType, RevisionAssumption
  <2>8. Lifted(h + 1 + Half) = h + 1 + Half
    BY <2>7, <2>6, Split, RevisionAssumption DEF Lifted
  <2>9. NextUnder(h + Half, m) = h + 1 + Half
    BY <2>5, <2>6, <2>8, <1>1, <1>2 DEF NextUnder
  <2> QED
    BY <2>4, <2>9, <1>4
<1> QED
  BY <1>2, <1>5, <1>6, RevisionAssumption

\* A statement puts every name within reach again: whatever revision a
\* version is at, even the last of its band, an edit over it has one under
\* every later statement.
THEOREM StatementFrees ==
  ASSUME NEW n \in Statements, NEW m \in Statements, n < m,
         NEW h \in Nat, MayBeUnder(h, n)
  PROVE  NextUnder(Lifted(h), m) # NoRev
<1>1. n \in Nat /\ m \in Nat
  BY RevisionAssumption DEF Statements
<1>2. MayBeUnder(Lifted(h), m)
  BY LiftedMayBe
<1>3. Lifted(h) \in Nat
  BY LiftedType
<1>4. /\ Band(Lifted(h)) \in Nat /\ Count(Lifted(h)) \in Nat
      /\ Band(Lifted(h) + 1) \in Nat /\ Lifted(h) + 1 \in Nat
  BY <1>3, Split
<1>5. Count(Lifted(h)) < Half
  <2>1. CASE Lifted(h) = h
    <3>1. CASE Band(h) < MaxStatement
      BY <3>1, <2>1, Split, RevisionAssumption DEF Lifted
    <3>2. CASE ~(Band(h) < MaxStatement)
      <4>1. Band(h) = n /\ n < MaxStatement
        BY <3>2, <1>1, Split, RevisionAssumption DEF MayBeUnder, Statements
      <4> QED
        BY <4>1, <3>2
    <3> QED
      BY <3>1, <3>2
  <2>2. CASE Lifted(h) # h
    <3>1. Lifted(h) = h + Half /\ Count(h) >= Half
      BY <2>2 DEF Lifted
    <3>2. Count(h + Half) = Count(h) - Half /\ Count(h) \in Nat /\ Count(h) < Size
      BY <3>1, NextBand, Split
    <3> QED
      BY <3>1, <3>2, SizeType, RevisionAssumption
  <2> QED
    BY <2>1, <2>2
<1>6. Band(Lifted(h) + 1) = Band(Lifted(h))
  BY <1>3, <1>4, <1>5, NextOne, SizeType, RevisionAssumption
<1>7. Band(Lifted(h) + 1) <= m
  BY <1>2, <1>6, <1>1, <1>4 DEF MayBeUnder
<1>8. Lifted(Lifted(h) + 1) # NoRev
  BY <1>4, <1>3, LiftedType DEF NoRev
<1> QED
  BY <1>7, <1>8, <1>3, <1>4, <1>1 DEF NextUnder, NoRev
=============================================================================
