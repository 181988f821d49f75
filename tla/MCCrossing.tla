----------------------------- MODULE MCCrossing -----------------------------
(***************************************************************************)
(* Bands of four revisions: half a band is two edits, so editing alone     *)
(* reaches the top half, and a jump reaches the last revision of a band.   *)
(***************************************************************************)
EXTENDS Crossing

CONSTANTS MaxText

MCTexts == 1 .. MaxText

\* The middle of band 1, its last revision, and the last of band 2.
MCJumps == {6, 7, 11}
=============================================================================
