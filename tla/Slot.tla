-------------------------------- MODULE Slot --------------------------------
(***************************************************************************)
(* One slot of a name's channel, as one device holds it, under one         *)
(* statement: the newest entry of each author, the current version among   *)
(* them, and the chain that an entry says it was written after             *)
(* (cordelia-crypto/src/version.rs, chain.rs, entry.rs).                    *)
(*                                                                         *)
(* A value is a text or NoText: what a delete holds, and a file that is    *)
(* not there.  A text is the rank of its hash, which decides a tie; a      *)
(* delete is below every text, so NoText is 0.  Every key counts here, so  *)
(* a link of a chain is its value alone.                                   *)
(***************************************************************************)
EXTENDS Integers, Sequences

CONSTANTS
  Devices,  \* the devices, as the ranks of their keys
  Texts,    \* the texts, as the ranks of their hashes
  MaxLinks  \* MAX_ENTRY_LINKS (100)

ASSUME SlotAssumption ==
  /\ Devices \subseteq Nat
  /\ Texts \subseteq Nat \ {0}
  /\ MaxLinks \in Nat \ {0}

NoText == 0

Values == Texts \cup {NoText}

Chain == {links \in Seq(Values) : Len(links) <= MaxLinks}

Entry == [author : Devices, rev : Nat, val : Values, chain : Chain]

\* A mutated form: the first entry of an author stays.
StoreFirst(slot, e) ==
  IF \E f \in slot : f.author = e.author THEN slot ELSE slot \cup {e}

\* The store keeps the newest entry of an author: one at an equal or a
\* lower revision is not stored.
Store(slot, e) ==
  IF \E f \in slot : f.author = e.author /\ f.rev >= e.rev
  THEN slot
  ELSE {f \in slot : f.author # e.author} \cup {e}

\* A mutated form: a tie that the lower hash wins, so that a
\* delete beats a text.
VersionLowest(slot) ==
  {e \in slot : \A f \in slot : f.rev < e.rev \/ (f.rev = e.rev /\ f.val >= e.val)}

\* The current version, as the entries held of it: the highest revision,
\* and of a tie the text of the higher hash.  Empty where the slot holds
\* none.
Version(slot) ==
  {e \in slot : \A f \in slot : f.rev < e.rev \/ (f.rev = e.rev /\ f.val <= e.val)}

\* The highest revision held, as a set of one member.
Highest(slot) ==
  LET revs == {0} \cup {e.rev : e \in slot} IN {r \in revs : \A s \in revs : s <= r}

\* A mutated form: one link too many.
CutLate(links) == IF Len(links) <= MaxLinks + 1 THEN links ELSE SubSeq(links, 1, MaxLinks + 1)

Cut(links) == IF Len(links) <= MaxLinks THEN links ELSE SubSeq(links, 1, MaxLinks)

\* The chain of an entry written over one that holds val and says links.
WrittenOver(val, links) == Cut(<<val>> \o links)

\* A mutated form: any version is taken to follow.
FollowsAll(version, val) == version # {}

\* A version is known to follow a value where each entry held of it names
\* the value in its chain.
Follows(version, val) ==
  /\ version # {}
  /\ \A e \in version : \E i \in DOMAIN e.chain : e.chain[i] = val

\* The one entry of a version that d writes over, and that a record is of:
\* d's own, or else that of the lowest key.
TheOne(version, d) ==
  {e \in version :
     \/ e.author = d
     \/ \A f \in version : f.author # d /\ e.author <= f.author}

\* The chain of an entry that d writes over a version.
ChainsOver(version, d) ==
  IF version = {} THEN {<<>>} ELSE {WrittenOver(e.val, e.chain) : e \in TheOne(version, d)}
=============================================================================
