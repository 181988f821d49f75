------------------------------ MODULE Revision ------------------------------
(***************************************************************************)
(* A revision as a band and a count: cordelia-core/src/revision.rs.        *)
(*                                                                         *)
(* Half is REV_BAND_HALF (2^43 in the code) and MaxStatement is            *)
(* MAX_STATEMENT_NUMBER (256).  Revision 0 is no entry's revision, and     *)
(* stands here for the code's None as well.                                *)
(***************************************************************************)
EXTENDS Integers

CONSTANTS Half, MaxStatement

ASSUME RevisionAssumption ==
  /\ Half \in Nat /\ Half > 0
  /\ MaxStatement \in Nat /\ MaxStatement > 0

NoRev == 0

Size == 2 * Half

Statements == 1 .. MaxStatement

\* REV_COUNT_BITS is the width of Size, so the shift and the mask of the
\* code are the quotient and the remainder.
Band(rev) == rev \div Size

Count(rev) == rev % Size

\* Mutated forms of Lifted: a move that loses the place in the band, and a
\* move by a whole band.
LiftedToStart(rev) ==
  IF Band(rev) < MaxStatement /\ Count(rev) >= Half THEN Size * (Band(rev) + 1) ELSE rev

LiftedByBand(rev) ==
  IF Band(rev) < MaxStatement /\ Count(rev) >= Half THEN rev + Size ELSE rev

Lifted(rev) ==
  IF Band(rev) < MaxStatement /\ Count(rev) >= Half THEN rev + Half ELSE rev

MayBeUnder(rev, statement) ==
  /\ statement \in Statements
  /\ rev # NoRev
  /\ \/ Band(rev) = statement
     \/ Band(rev) < statement /\ Count(rev) < Half

\* A mutated form of NextUnder: one above, wherever that is.
NextUnlifted(highest, statement) ==
  IF statement \notin Statements \/ Band(highest + 1) > statement
  THEN NoRev
  ELSE highest + 1

\* The revision of the next edit of a name whose highest counting revision
\* is highest, or NoRev where there is none until the next statement.
NextUnder(highest, statement) ==
  IF statement \notin Statements \/ Band(highest + 1) > statement
  THEN NoRev
  ELSE IF Band(highest + 1) < statement THEN Lifted(highest + 1) ELSE highest + 1

\* The revision a version takes where it is carried from one statement to
\* another (cordelia-api/src/person.rs): lifted going forward; at a move to
\* the same number or a lower one it stays, or is not carried at all.
CarriedRev(rev, from, to) ==
  IF to > from THEN Lifted(rev)
  ELSE IF Band(rev) <= to THEN rev ELSE NoRev
=============================================================================
