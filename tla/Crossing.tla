------------------------------ MODULE Crossing ------------------------------
(***************************************************************************)
(* One name (one slot) as its versions cross from statement to statement.  *)
(*                                                                         *)
(* Each statement has a channel of its own for the name, so a device holds *)
(* entries of the generation it has applied and of no other.  A device     *)
(* that applies a later statement, however many it was behind, seals its   *)
(* own current version again in the new channel at the carried revision    *)
(* (Carry::channel of cordelia-api/src/person.rs) and drops the rest.      *)
(* Devices edit, publish, push and pull in between, in any order, and a    *)
(* device may sign a jump: an entry at any revision an entry may have.     *)
(*                                                                         *)
(* Texts are numbers: the number is the rank of the text's hash, which     *)
(* decides a tie at one revision (version::current).  Every edit writes a  *)
(* new text.  Removed keys, deletes and moves to another lineage are       *)
(* outside this module.                                                    *)
(***************************************************************************)
EXTENDS Revision, FiniteSets

CONSTANTS
  Devices,  \* the devices whose keys count
  Texts,    \* texts, as ranks: a finite set of numbers
  Jumps     \* the revisions a jump is tried at (a bound)

ASSUME CrossingAssumption == Texts \subseteq Nat /\ Jumps \subseteq Nat

VARIABLES
  applied,  \* the number of the statement each device has applied
  made,     \* the number of the newest statement made
  held,     \* the entries each device holds, of its generation's channel
  relays,   \* the entries the relays hold, per generation
  over      \* ghost: the texts each text was written over; a text that has
            \* been written is in over's domain

vars == <<applied, made, held, relays, over>>

Entry == [rev : Nat, text : Texts, author : Devices]

\* The store keeps the newest entry of an author in a slot: one at an equal
\* or a lower revision is not stored (entries::store).
Store(entries, e) ==
  IF \E f \in entries : f.author = e.author /\ f.rev >= e.rev
  THEN entries
  ELSE {f \in entries : f.author # e.author} \cup {e}

\* The current version: the highest revision that may be an entry's under
\* the statement, and of a tie the text of the higher hash.
IsCurrent(entries, n, e) ==
  /\ e \in entries
  /\ MayBeUnder(e.rev, n)
  /\ \A f \in entries : MayBeUnder(f.rev, n) =>
       \/ f.rev < e.rev
       \/ f.rev = e.rev /\ f.text <= e.text

Currents(entries, n) == {e \in entries : IsCurrent(entries, n, e)}

\* The highest revision of an entry in a band the statement has, or NoRev:
\* the one member of this set.
Highest(entries, n) ==
  LET counted == {NoRev} \cup {e.rev : e \in {f \in entries : Band(f.rev) <= n}}
  IN  {r \in counted : \A s \in counted : s <= r}

Written == DOMAIN over

\* The texts that the current version of held[d] stands for.
Under(d) ==
  UNION {{e.text} \cup over[e.text] : e \in Currents(held[d], applied[d])}

WriteAt(d, text, rev) ==
  /\ text \in Texts \ Written
  /\ over' = [t \in Written \cup {text} |-> IF t = text THEN Under(d) ELSE over[t]]
  /\ held' = [held EXCEPT ![d] = Store(@, [rev |-> rev, text |-> text, author |-> d])]
  /\ UNCHANGED <<applied, made, relays>>

-----------------------------------------------------------------------------
Init ==
  /\ applied = [d \in Devices |-> 1]
  /\ made = 1
  /\ held = [d \in Devices |-> {}]
  /\ relays = [n \in Statements |-> {}]
  /\ over = [t \in {} |-> {}]

\* A device publishes an edit of its current version at the next revision.
Write(d, text) ==
  \E h \in Highest(held[d], applied[d]) :
    LET rev == NextUnder(h, applied[d])
    IN  rev # NoRev /\ WriteAt(d, text, rev)

\* A device signs an edit at a higher revision than the next.
Jump(d, text, rev) ==
  /\ MayBeUnder(rev, applied[d])
  /\ \E h \in Highest(held[d], applied[d]) : rev > h + 1
  /\ WriteAt(d, text, rev)

\* A relay takes a device's own entry, in its generation's channel.
Push(d) ==
  \E e \in held[d] :
    /\ e.author = d
    /\ relays' = [relays EXCEPT ![applied[d]] = Store(@, e)]
    /\ relays' # relays
    /\ UNCHANGED <<applied, made, held, over>>

\* A device takes an entry of its generation's channel from the relays.
Pull(d) ==
  \E e \in relays[applied[d]] :
    /\ held' = [held EXCEPT ![d] = Store(@, e)]
    /\ held' # held
    /\ UNCHANGED <<applied, made, relays, over>>

\* A mutated form of Make: the bound on a statement's number forgotten.
MakeUnbounded(d) ==
  /\ applied[d] = made
  /\ made' = made + 1
  /\ UNCHANGED <<applied, held, relays, over>>

\* A device that has applied the newest statement makes the next one.
Make(d) ==
  /\ applied[d] = made
  /\ made < MaxStatement
  /\ made' = made + 1
  /\ UNCHANGED <<applied, held, relays, over>>

\* A device comes to a later statement, carrying its current version.
Apply(d, n) ==
  /\ n \in applied[d] + 1 .. made
  /\ applied' = [applied EXCEPT ![d] = n]
  /\ held' = [held EXCEPT ![d] =
       {[rev |-> CarriedRev(e.rev, applied[d], n), text |-> e.text, author |-> d] :
          e \in Currents(held[d], applied[d])}]
  /\ UNCHANGED <<made, relays, over>>

Next ==
  \E d \in Devices :
    \/ \E text \in Texts : Write(d, text)
    \/ \E text \in Texts, rev \in Jumps : Jump(d, text, rev)
    \/ Push(d)
    \/ Pull(d)
    \/ Make(d)
    \/ \E n \in Statements : Apply(d, n)

Spec == Init /\ [][Next]_vars

-----------------------------------------------------------------------------
TypeOK ==
  /\ applied \in [Devices -> Statements]
  /\ made \in Statements
  /\ held \in [Devices -> SUBSET Entry]
  /\ relays \in [Statements -> SUBSET Entry]
  /\ Written \subseteq Texts
  /\ \A t \in Written : over[t] \subseteq Written

\* Every entry of a generation's channel is at a revision that may be an
\* entry's under that generation's statement: a carry, from however many
\* statements behind, puts nothing there that other devices would not read
\* as a version (revision.rs, version.rs).
EntriesMayBe ==
  /\ \A d \in Devices : \A e \in held[d] : MayBeUnder(e.rev, applied[d])
  /\ \A n \in Statements : \A e \in relays[n] : MayBeUnder(e.rev, n)

\* Every entry there is, with the generation it is in.
Placed ==
  (UNION {{<<applied[d], e>> : e \in held[d]} : d \in Devices})
    \cup (UNION {{<<n, e>> : e \in relays[n]} : n \in Statements})

\* The revision of an entry p of one generation, as it is in generation n
\* where that is a later one.
RevIn(p, n) == IF p[1] < n THEN Lifted(p[2].rev) ELSE p[2].rev

\* An edit is above what it was written over, wherever the two now are: in
\* one generation by its revision as it is, in two by the revision that the
\* earlier generation's has once it has crossed.  So no carry, late or
\* early, by whichever device, lets an old text win over its own edit.
EditStaysAbove ==
  \A p, q \in Placed :
    p[2].text \in over[q[2].text] => RevIn(p, q[1]) < RevIn(q, p[1])

\* Devices under two statements that hold the same highest revision give an
\* edit the same revision: the later one's is the earlier one's, lifted.
OneEditOneRev ==
  \A c, d \in Devices :
    \A hc \in Highest(held[c], applied[c]), hd \in Highest(held[d], applied[d]) :
      (/\ applied[c] < applied[d]
       /\ hd = Lifted(hc)
       /\ NextUnder(hc, applied[c]) # NoRev)
         => NextUnder(hd, applied[d]) = Lifted(NextUnder(hc, applied[c]))

\* Coming to a later statement puts the name within reach: the device can
\* edit it, though before it could be at the top of its band.
ApplyFrees ==
  [][\A d \in Devices : applied'[d] # applied[d] =>
       \A h \in Highest(held'[d], applied'[d]) : NextUnder(h, applied'[d]) # NoRev]_vars
=============================================================================
