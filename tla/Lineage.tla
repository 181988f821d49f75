------------------------------ MODULE Lineage ------------------------------
(* The changes of a person's statement, and what each device makes of those *)
(* it is shown (person.rs, rule 8): which it follows, which it sets aside,  *)
(* when it closes, moves or stops; and the changes that a command makes at  *)
(* a prompt, over what the device kept when it asked (change.rs,            *)
(* person_cmd.rs).  A change is named by its place in the order in which    *)
(* they were made, which also orders the hashes of two at one number.       *)
EXTENDS Naturals, Sequences, FiniteSets

CONSTANTS
  Devices,        \* the devices, each with a key of its own
  MostHeads,      \* MAX_CHANGE_HEADS: the change followed and those set aside
  MostChanges,    \* a bound: how many changes are made in all
  MostRemoved     \* a bound: how many devices a command removes at a prompt

ASSUME MostHeadsAssumption == MostHeads \in Nat \ {0}
ASSUME MostChangesAssumption == MostChanges \in Nat \ {0}
ASSUME MostRemovedAssumption == MostRemoved \in Nat
ASSUME DevicesAssumption == Devices # {} /\ IsFiniteSet(Devices)

VARIABLES
  changes,  \* every change made: its number, its chain and its two lists
  follows,  \* per device: the change whose entry it keeps as the latest
  heads,    \* per device: the changes set aside
  knows,    \* per device: the keys it knows to be removed
  state,    \* per device: applied, closed, removed or not listed
  prompt,   \* per device: the change that a command waits to have confirmed
  seen      \* per device: the changes it took, to tell if one is overlooked

devices == <<follows, heads, knows, state, seen>>
vars == <<changes, devices, prompt>>

Change == [number : Nat, chain : SUBSET Nat, lists : SUBSET Devices, removes : SUBSET Devices]
Made == 1 .. Len(changes)
First == [number |-> 1, chain |-> {}, lists |-> Devices, removes |-> {}]
NoPrompt == [over |-> 0, heads |-> {}, change |-> First]

\* The shape of the state; and no device keeps more heads than the bound,
\* through what it is shown, its moves and the changes it makes.
TypeOK ==
  /\ changes \in Seq(Change) /\ changes # <<>>
  /\ follows \in [Devices -> Made]
  /\ heads \in [Devices -> SUBSET Made]
  /\ \A d \in Devices : Cardinality(heads[d]) < MostHeads
  /\ knows \in [Devices -> SUBSET Devices]
  /\ state \in [Devices -> {"applied", "closed", "removed", "notListed"}]
  /\ prompt \in [Devices -> [over : Nat, heads : SUBSET Made, change : Change]]
  /\ seen \in [Devices -> SUBSET Made]

----------------------------------------------------------------------------
(* What a change is to a device.                                            *)

Going(d) == state[d] \in {"applied", "closed"}

\* What a device keeps: the change it follows and the heads it sets aside.
Keeps(d) == heads[d] \cup {follows[d]}

\* Whether a change is one of these, or behind one of them.
BehindOneOf(c, these) == \E h \in these : c = h \/ c \in changes[h].chain

\* Whether a change was made after another.
After(c, a) == changes[c].number > changes[a].number /\ a \in changes[c].chain

\* Whether the secret of a change is held by none of the keys removed.
Clear(removed, c) == changes[c].lists \cap removed = {}

KnowsFollowed(d, c) ==
  knows[d] \cup IF After(c, follows[d]) THEN changes[c].removes \ {d} ELSE {}

\* What a device knows to be removed once it is shown a change: its own key
\* is left out, which stops it.
KnowsWith(d, c) == knows[d] \cup (changes[c].removes \ {d})

\* The heads that a change was not made after.
Apart(d, c) == heads[d] \ changes[c].chain

\* Which change to move to: the highest number, and of two the lower hash.
Outranks(a, b) ==
  \/ changes[a].number > changes[b].number
  \/ changes[a].number = changes[b].number /\ a < b

\* The heads that a device may move to.
Open(d) == {h \in heads[d] : d \in changes[h].lists /\ Clear(knows[d], h)}

----------------------------------------------------------------------------
(* A change is shown (decide, with moves held back as the node has them).   *)

IsShown(d, c) ==
  /\ Going(d) /\ c \notin Keeps(d)
  /\ UNCHANGED <<changes, prompt>>

Learns(d, c) == knows' = [knows EXCEPT ![d] = KnowsWith(d, c)]
Takes(d, c) == seen' = [seen EXCEPT ![d] = @ \cup {c}]

\* Step 1: behind what is kept, nothing is done but keeping its removals.
Behind(d, c) ==
  /\ IsShown(d, c) /\ BehindOneOf(c, Keeps(d))
  /\ Learns(d, c) /\ Takes(d, c)
  /\ UNCHANGED <<follows, heads, state>>

IsNews(d, c) == IsShown(d, c) /\ ~BehindOneOf(c, Keeps(d)) /\ Learns(d, c)

Stop(d, c, why) ==
  /\ follows' = [follows EXCEPT ![d] = c]
  /\ heads' = [heads EXCEPT ![d] = {}]
  /\ state' = [state EXCEPT ![d] = why]
  /\ Takes(d, c)

\* Step 3: a change that removes the device stops it.
StopRemoved(d, c) ==
  /\ IsNews(d, c) /\ d \in changes[c].removes
  /\ Stop(d, c, "removed")

\* Step 5: so does one made after the change followed that does not list it.
StopNotListed(d, c) ==
  /\ IsNews(d, c) /\ After(c, follows[d])
  /\ d \notin changes[c].removes \cup changes[c].lists
  /\ Stop(d, c, "notListed")

AppliesUnforked(d, c) ==
  heads[d] = {} /\ After(c, follows[d]) /\ d \in changes[c].lists /\ Clear(KnowsWith(d, c), c)

Applies(d, c) ==
  After(c, follows[d]) /\ d \in changes[c].lists /\ Clear(KnowsWith(d, c), c)

\* A change is applied: the heads kept are those it was not made after.
Follow(d, c, aside) ==
  /\ follows' = [follows EXCEPT ![d] = c]
  /\ heads' = [heads EXCEPT ![d] = aside]
  /\ state' = [state EXCEPT ![d] = "applied"]

\* Step 4: a clear change made after the one followed is applied.
ApplyShown(d, c) ==
  /\ IsNews(d, c) /\ Applies(d, c)
  /\ Follow(d, c, Apart(d, c)) /\ Takes(d, c)

IsAside(d, c) ==
  /\ IsNews(d, c) /\ ~Applies(d, c) /\ d \notin changes[c].removes
  /\ After(c, follows[d]) => d \in changes[c].lists
  /\ UNCHANGED follows

SetAsideAnyway(d, c) ==
  /\ IsAside(d, c)
  /\ heads' = [heads EXCEPT ![d] = Apart(d, c) \cup {c}]
  /\ IF Clear(KnowsWith(d, c), follows[d])
     THEN UNCHANGED state
     ELSE state' = [state EXCEPT ![d] = "closed"]
  /\ Takes(d, c)

SetAsideOpen(d, c) ==
  /\ IsAside(d, c) /\ Cardinality(Apart(d, c)) + 1 < MostHeads
  /\ heads' = [heads EXCEPT ![d] = Apart(d, c) \cup {c}]
  /\ UNCHANGED state
  /\ Takes(d, c)

\* Step 6: anything else is set aside, and a device whose change is not
\* clear by it is closed until it moves.
SetAside(d, c) ==
  /\ IsAside(d, c) /\ Cardinality(Apart(d, c)) + 1 < MostHeads
  /\ heads' = [heads EXCEPT ![d] = Apart(d, c) \cup {c}]
  /\ IF Clear(KnowsWith(d, c), follows[d])
     THEN UNCHANGED state
     ELSE state' = [state EXCEPT ![d] = "closed"]
  /\ Takes(d, c)

\* One head past the bound is not kept, and closes the device.
PastBound(d, c) ==
  /\ IsAside(d, c) /\ Cardinality(Apart(d, c)) + 1 >= MostHeads
  /\ heads' = [heads EXCEPT ![d] = Apart(d, c)]
  /\ state' = [state EXCEPT ![d] = "closed"]
  /\ UNCHANGED seen

Hear(d, c) ==
  \/ Behind(d, c) \/ StopRemoved(d, c) \/ StopNotListed(d, c)
  \/ ApplyShown(d, c) \/ SetAside(d, c) \/ PastBound(d, c)

\* Before any of that, what a change says of removals is kept, with the
\* close it brings (know_what_is_shown).
KnowShown(d, c) ==
  /\ state[d] = "applied" /\ d \notin changes[c].removes
  /\ Learns(d, c)
  /\ IF Clear(KnowsWith(d, c), follows[d])
     THEN UNCHANGED state
     ELSE state' = [state EXCEPT ![d] = "closed"]
  /\ UNCHANGED <<changes, follows, heads, prompt, seen>>

MoveAndLeave(d) == \E to \in Open(d) :
  /\ Going(d) /\ ~Clear(knows[d], follows[d])
  /\ \A other \in Open(d) \ {to} : Outranks(to, other)
  /\ Follow(d, to, (heads[d] \ {to}) \ changes[to].chain)
  /\ UNCHANGED <<changes, knows, prompt, seen>>

\* A device whose change is not clear moves to the best that is, and keeps
\* the one it left as a head.
Move(d) == \E to \in Open(d) :
  /\ Going(d) /\ ~Clear(knows[d], follows[d])
  /\ \A other \in Open(d) \ {to} : Outranks(to, other)
  /\ Follow(d, to, (Keeps(d) \ {to}) \ changes[to].chain)
  /\ UNCHANGED <<changes, knows, prompt, seen>>

----------------------------------------------------------------------------
(* A change is made: prepared and shown, and then confirmed.                *)

\* The change that follows what a device keeps: its number is one above the
\* highest, it joins every head, and it undoes no removal.
Prepared(d, top, goes, out) ==
  LET joined == Keeps(d)
      removes == (UNION {changes[h].removes : h \in joined}) \cup knows[d] \cup goes
      listed == UNION {changes[h].lists : h \in joined}
  IN [ number  |-> changes[top].number + 1,
       chain   |-> joined \cup (UNION {changes[h].chain : h \in joined}),
       lists   |-> (listed \ (removes \cup out)) \cup {d},
       removes |-> removes ]

\* A command is handed what the device keeps, and shows its change at the
\* prompt.  Of the others it may remove some; where it joins heads, any may
\* be left in no list.
Ask(d) ==
  /\ Going(d) /\ d \notin knows[d] /\ prompt[d].over = 0
  /\ Len(changes) + Cardinality({e \in Devices : prompt[e].over # 0}) < MostChanges
  /\ \E goes, out \in SUBSET (Devices \ {d}), top \in Keeps(d) :
       /\ Cardinality(goes) <= MostRemoved
       /\ out \subseteq IF heads[d] = {} THEN {} ELSE Devices \ goes
       /\ \A h \in Keeps(d) : changes[h].number <= changes[top].number
       /\ prompt' = [prompt EXCEPT ![d] =
            [over |-> follows[d], heads |-> heads[d], change |-> Prepared(d, top, goes, out)]]
  /\ UNCHANGED <<changes, devices>>

AsFollowed(d) ==
  /\ Going(d) /\ prompt[d].over = follows[d]
  /\ knows[d] \subseteq prompt[d].change.removes

\* What the prompt showed is what is kept still, and the change lists every
\* key known by now to be removed.
AsShown(d) ==
  /\ Going(d) /\ prompt[d].over = follows[d] /\ prompt[d].heads = heads[d]
  /\ knows[d] \subseteq prompt[d].change.removes

Answered(d) ==
  /\ prompt[d].over # 0
  /\ prompt' = [prompt EXCEPT ![d] = NoPrompt]

\* The change confirmed is applied where it was made (apply_made).
Make(d) ==
  /\ Answered(d) /\ AsShown(d)
  /\ changes' = Append(changes, prompt[d].change)
  /\ LET c == Len(changes) + 1 IN
     /\ Follow(d, c, heads[d] \ prompt[d].change.chain)
     /\ Takes(d, c)
     /\ knows' = [knows EXCEPT ![d] = @ \cup prompt[d].change.removes]

\* A change came meanwhile, or the person says no: nothing is made.
NotMade(d) == Answered(d) /\ UNCHANGED <<changes, devices>>

----------------------------------------------------------------------------
Init ==
  /\ changes = <<First>>
  /\ follows = [d \in Devices |-> 1]
  /\ heads = [d \in Devices |-> {}]
  /\ knows = [d \in Devices |-> {}]
  /\ state = [d \in Devices |-> "applied"]
  /\ prompt = [d \in Devices |-> NoPrompt]
  /\ seen = [d \in Devices |-> {1}]

Next == \E d \in Devices :
  \/ Ask(d) \/ Make(d) \/ NotMade(d) \/ Move(d)
  \/ \E c \in Made : Hear(d, c) \/ KnowShown(d, c)

Spec == Init /\ [][Next]_vars

\* At its passes each device is shown what it has yet to be shown, and moves.
FairSpec ==
  /\ Spec
  /\ \A d \in Devices : WF_vars(Move(d) \/ \E c \in Made : Hear(d, c))

----------------------------------------------------------------------------
(* Properties.                                                              *)

\* A device that seals does so under a change whose secret is held by no key
\* that any change it took removes, its own key among them (rules 3 to 9).
SealsForNoRemoved ==
  \A d \in Devices : state[d] = "applied" =>
    \A c \in seen[d] : changes[c].removes \cap changes[follows[d]].lists = {}

\* A device that goes on overlooks no change it took: each is what it keeps,
\* or behind it, through every apply, move and change of its own.
OverlooksNone ==
  \A d \in Devices : Going(d) => \A c \in seen[d] : BehindOneOf(c, Keeps(d))

\* A change made on a device is made after every change the device took, and
\* removes every key it knew to be removed, whatever came while the command
\* waited at its prompt (apply_made, rules 20 and 21).
MadeOverAll ==
  [][\A d \in Devices : Make(d) =>
       LET made == changes'[follows'[d]] IN
       seen[d] \subseteq made.chain /\ knows[d] \subseteq made.removes]_vars

\* A removal reaches every device: at last none seals under a change whose
\* secret the removed key holds (rules 5 and 9).
RemovalReaches ==
  \A k \in Devices :
    (\E c \in Made : k \in changes[c].removes)
      ~> \A d \in Devices : state[d] = "applied" => k \notin changes[follows[d]].lists

\* A change made after every other ends what was apart: each device that it
\* lists comes to follow it or has stopped, where no other is made since.
Joins(c) == \A b \in Made \ {c} : b \in changes[c].chain

JoinEndsIt ==
  (\E c \in Made : Joins(c))
    ~> \/ \A c \in Made : ~Joins(c)
       \/ \A d \in Devices : Going(d) => Joins(follows[d])
=============================================================================
