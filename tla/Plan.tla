-------------------------------- MODULE Plan --------------------------------
(***************************************************************************)
(* What a cycle does with one file: a function of the file as it was       *)
(* listed, the channel's version as it was read, and what the folder last  *)
(* agreed with the channel (cordelia-sync/src/plan.rs).                    *)
(*                                                                         *)
(* A file is an ordinary memory file: the index, whose lines are merged,   *)
(* and a file that a carry left out are outside this module.               *)
(***************************************************************************)
EXTENDS Slot

NoRecord == [is |-> "none", val |-> NoText, rev |-> 0, signer |-> 0, chain |-> <<>>]

\* What a folder agreed: a value, and the entry it was agreed of.
Agreed == [is : {"agreed"}, val : Values, rev : Nat, signer : Devices, chain : Chain]

Records == Agreed \cup {NoRecord}

\* The record that d makes where it agrees val with one entry of a version.
AgreedWith(one, val) ==
  [is |-> "agreed", val |-> val, rev |-> one.rev, signer |-> one.author, chain |-> one.chain]

\* What is done: the file's text is first kept beside it, or not; and then
\* the text is published, or a delete; the channel's text is written, or
\* the file removed for its delete; the record alone is made; or nothing.
Steps == {"publish", "publishDelete", "pull", "remove", "record", "nothing"}

Action == [keep : BOOLEAN, step : Steps]

Do(step) == [keep |-> FALSE, step |-> step]
\* A mutated form: the text is not kept.
KeepNot(step) == Do(step)

KeepThen(step) == [keep |-> TRUE, step |-> step]

\* local: what the file held.  one: the entry of the current version that
\* a record is of.  version: every entry held of it.
PlanOver(local, one, version, agreed) ==
  LET none    == agreed = NoRecord
      edited  == IF none THEN local # NoText ELSE local # agreed.val
      moved   == none \/ one.val # agreed.val
      follows == none \/ one.rev > agreed.rev
      known   == none \/ Follows(version, agreed.val)
      take    == IF one.val = NoText THEN "remove" ELSE "pull"
  IN
  CASE ~edited /\ ~moved ->
         Do(IF agreed = AgreedWith(one, agreed.val) THEN "nothing" ELSE "record")
    [] edited /\ ~moved ->
         Do(IF local # NoText THEN "publish"
            ELSE IF one.val # NoText THEN "publishDelete" ELSE "record")
    \* Both are the same now.
    [] moved /\ local = one.val -> Do("record")
    \* Gone here, a text there.
    [] moved /\ local = NoText /\ one.val # NoText -> Do("pull")
    \* A text here, a delete there: a delete that was made without seeing
    \* the text, and one of a text that was edited, lose to it.
    [] moved /\ local \notin {NoText, one.val} /\ one.val = NoText /\ (edited \/ ~follows) ->
         Do("publish")
    \* Two texts, or a delete of an unchanged file.
    [] OTHER -> IF ~edited /\ follows /\ known THEN Do(take) ELSE KeepThen(take)

\* With no version in the slot.
PlanOverNone(local, agreed) ==
  Do(IF local # NoText /\ local # agreed.val THEN "publish" ELSE "nothing")
=============================================================================
