----------------------------- MODULE MemorySync -----------------------------
(***************************************************************************)
(* The devices of one person sync one memory folder under one name.        *)
(*                                                                         *)
(* On each device an agent writes and removes files as it pleases, and the *)
(* node's cycle brings the folder and the channel together: it lists the   *)
(* folder, reads the channel and the folder's records under the database   *)
(* lock, plans each file, and applies the plan in steps between which the  *)
(* agent writes, entries arrive, settings change, and the node may stop    *)
(* (cordelia-sync/src/claude.rs, cordelia-api/src/publish.rs).             *)
(*                                                                         *)
(* A relay passes an author's newest entry on.  An entry that waits, to be *)
(* sent or at a relay, is one that is made later: so an entry arrives here *)
(* straight from the store of its author.  One statement is applied        *)
(* throughout, every device counts, and local history is off.  The name is *)
(* one that a carry brought versions into (names::brought_in): a device    *)
(* that stops syncing it goes on holding it, and all its channel holds.    *)
(***************************************************************************)
EXTENDS Plan, FiniteSets

CONSTANTS
  Names,        \* the names of files, as numbers in the order of the names
  Files,        \* the names that agents give; the others are of conflict copies
  CopyNames,    \* the copies' names that a device tries for a name, in order
  TopRev,       \* the last revision of the statement's band
  Budgets       \* bounds on how often each step of Rare happens, one for each
                \* mix of them

\* A text written again, a file removed by its agent, a node that stops, a
\* settings command, a folder that goes, and another program that acts
\* between the last look at a file and its rename.
Rare == {"again", "removal", "crash", "command", "away", "gap"}

ASSUME SyncAssumption ==
  /\ Names \subseteq Nat
  /\ Files \subseteq Names
  /\ CopyNames \in [Devices -> [Names -> Seq(Names)]]
  /\ TopRev \in Nat
  /\ Budgets \subseteq [Rare -> Nat]

VARIABLES
  file,     \* what each device's folder holds under each name
  here,     \* whether the folder is there
  mapped,   \* whether the folder syncs
  held,     \* the entries in each device's store, by slot
  agreed,   \* the folder's records
  copied,   \* for a copy not yet published, the chain of the text it keeps
  kept,     \* in memory: the copy made beside each file for its conflict
  cycle,    \* in memory: the cycle that runs
  written,  \* ghost: the texts that agents have written
  letGo,    \* ghost: the texts that an agent replaced or removed, in any file
  inGap,    \* ghost: the texts replaced between the last look and the rename
  removed,  \* ghost: the names an agent removed here that no cycle settled yet
  left      \* how often each step of Rare may still happen

disk == <<file, here>>
store == <<held, agreed, copied>>
memory == <<kept, cycle>>
ghosts == <<written, letGo, inGap, removed>>

vars == <<file, here, mapped, held, agreed, copied, kept, cycle,
          written, letGo, inGap, removed, left>>

-----------------------------------------------------------------------------
NoCopy == [is |-> "none", copy |-> 0, version |-> {}, val |-> NoText, under |-> {}]

\* A copy written down as made: beside which version, of which text, and
\* what the channel held under the copy's name.
Copy == [is : {"copy"}, copy : Names, version : SUBSET Entry, val : Values,
         under : SUBSET Entry]

Nothing == [n \in Names |-> NoText]

\* A cycle: where it is, what it listed, whether the folder was missing
\* then, the versions and the records it read, the names it has still to
\* do, the copy that the file's text is relied on to be in, the record to
\* be made, and whether the settings have changed since it began.
Cycle ==
  [at : {"idle", "listed", "turn", "copy", "kept", "write", "rename", "delete", "record"},
   listed : [Names -> Values], missing : BOOLEAN,
   read : [Names -> SUBSET Entry], was : [Names -> Records],
   todo : SUBSET Names, relied : SUBSET Names, pending : Records, stale : BOOLEAN]

Idle ==
  [at |-> "idle", listed |-> Nothing, missing |-> FALSE,
   read |-> [n \in Names |-> {}], was |-> [n \in Names |-> NoRecord],
   todo |-> {}, relied |-> {}, pending |-> NoRecord, stale |-> FALSE]

\* What a look at a name finds now.
Found(d, n) == IF here[d] THEN file[d][n] ELSE NoText

\* What the plan says of a name.
Planned(listed, d, n, version, record) ==
  IF version = {}
  THEN PlanOverNone(listed[n], record)
  ELSE PlanOver(listed[n], CHOOSE e \in TheOne(version, d) : TRUE, version, record)

PlanOf(d, n) == Planned(cycle[d].listed, d, n, cycle[d].read[n], cycle[d].was[n])

\* It is the turn of n, under the settings the cycle began with.
Turn(d, n) ==
  /\ cycle[d].at = "turn"
  /\ ~cycle[d].stale
  /\ n \in cycle[d].todo
  /\ \A m \in cycle[d].todo : n <= m

\* An action on n under way.
At(d, n, at) ==
  /\ cycle[d].at = at
  /\ n \in cycle[d].todo
  /\ \A m \in cycle[d].todo : n <= m

GoesTo(d, at) == cycle' = [cycle EXCEPT ![d].at = at]

\* The cycle is through with n, done or left for the next cycle.
Through(d, n) ==
  cycle' = [cycle EXCEPT ![d] =
    IF cycle[d].todo = {n} THEN Idle
    ELSE [cycle[d] EXCEPT !.at = "turn", !.todo = cycle[d].todo \ {n}, !.relied = {},
                          !.pending = NoRecord]]

Unkeep(d, n) == kept' = [kept EXCEPT ![d][n] = NoCopy]

-----------------------------------------------------------------------------
Init ==
  /\ file = [d \in Devices |-> Nothing]
  /\ here = [d \in Devices |-> TRUE]
  /\ mapped = [d \in Devices |-> TRUE]
  /\ held = [d \in Devices |-> [n \in Names |-> {}]]
  /\ agreed = [d \in Devices |-> [n \in Names |-> NoRecord]]
  /\ copied = [d \in Devices |-> [n \in Names |-> <<>>]]
  /\ kept = [d \in Devices |-> [n \in Names |-> NoCopy]]
  /\ cycle = [d \in Devices |-> Idle]
  /\ written = {} /\ letGo = {} /\ inGap = {}
  /\ removed = [d \in Devices |-> {}]
  /\ left \in Budgets

Spend(what) ==
  /\ left[what] > 0
  /\ left' = [left EXCEPT ![what] = @ - 1]

(***************************************************************************)
(* The agent, and the folder.                                              *)
(***************************************************************************)
Lets(texts) == letGo' = letGo \cup (texts \ {NoText})

\* An agent writes a file: a text of its own, or one there was before.
Write(d, n, text) ==
  /\ here[d]
  /\ n \in Files \/ file[d][n] # NoText
  /\ text # file[d][n]
  /\ IF text \in written THEN Spend("again") ELSE UNCHANGED left
  /\ file' = [file EXCEPT ![d][n] = text]
  /\ written' = written \cup {text}
  /\ Lets({file[d][n]})
  /\ UNCHANGED <<here, mapped, store, memory, inGap, removed>>

\* An agent removes a file.
Remove(d, n) ==
  /\ here[d] /\ file[d][n] # NoText
  /\ Spend("removal")
  /\ file' = [file EXCEPT ![d][n] = NoText]
  /\ removed' = [removed EXCEPT ![d] = @ \cup {n}]
  /\ Lets({file[d][n]})
  /\ UNCHANGED <<here, mapped, store, memory, written, inGap>>

\* The folder goes, with what is in it, and is to come back: its disk is
\* not attached, or it was moved.
Goes(d) ==
  /\ here[d]
  /\ \E n \in Names : agreed[d][n].val # NoText
  /\ Spend("away")
  /\ here' = [here EXCEPT ![d] = FALSE]

FolderGoes(d) == Goes(d) /\ UNCHANGED <<file, mapped, store, memory, ghosts>>

FolderBack(d) ==
  /\ ~here[d]
  /\ here' = [here EXCEPT ![d] = TRUE]
  /\ UNCHANGED <<file, mapped, store, memory, ghosts, left>>

(***************************************************************************)
(* The node.                                                               *)
(***************************************************************************)
\* An entry of another device's arrives: one entry, of any slot.
Arrive(d, c, n, e) ==
  /\ e \in held[c][n]
  /\ e.author = c
  /\ held' = [held EXCEPT ![d][n] = Store(@, e)]
  /\ held' # held
  /\ UNCHANGED <<disk, mapped, agreed, copied, memory, ghosts, left>>

\* The node stops, at any point, and starts again.
Crash(d) ==
  /\ cycle[d] # Idle
  /\ Spend("crash")
  /\ cycle' = [cycle EXCEPT ![d] = Idle]
  /\ kept' = [kept EXCEPT ![d] = [n \in Names |-> NoCopy]]
  /\ UNCHANGED <<disk, mapped, store, ghosts>>

\* The node takes a settings command: what it kept beside files goes, and
\* a cycle that runs is under other settings than it read.
Command(d) ==
  /\ Spend("command")
  /\ cycle' = [cycle EXCEPT ![d].stale = cycle[d].at # "idle"]
  /\ kept' = [kept EXCEPT ![d] = [n \in Names |-> NoCopy]]

Forget(d) == agreed' = [agreed EXCEPT ![d] = [n \in Names |-> NoRecord]]

\* A command that changes nothing of this folder.
OtherCommand(d) ==
  /\ Command(d)
  /\ UNCHANGED <<disk, mapped, store, ghosts>>

\* The folder stops syncing, and what it agreed is forgotten; the name is
\* held from then as a carry holds one.  A folder that had gone is given up
\* with what was in it.
Unmap(d) ==
  /\ mapped[d]
  /\ Command(d)
  /\ mapped' = [mapped EXCEPT ![d] = FALSE]
  /\ Forget(d)
  /\ IF here[d]
     THEN UNCHANGED <<file, letGo>>
     ELSE /\ file' = [file EXCEPT ![d] = Nothing]
          /\ Lets({file[d][n] : n \in Names})
  /\ UNCHANGED <<here, held, copied, written, inGap, removed>>

\* It syncs again, as a new folder would.
Map(d) ==
  /\ ~mapped[d]
  /\ mapped' = [mapped EXCEPT ![d] = TRUE]
  /\ Forget(d)
  /\ cycle' = [cycle EXCEPT ![d].stale = cycle[d].at # "idle"]
  /\ kept' = [kept EXCEPT ![d] = [n \in Names |-> NoCopy]]
  /\ UNCHANGED <<disk, held, copied, ghosts, left>>

(***************************************************************************)
(* A cycle begins: the folder is listed, and the channel read.             *)
(***************************************************************************)
Listing(d, listed, missing) ==
  /\ mapped[d]
  /\ cycle[d].at = "idle"
  /\ cycle' = [cycle EXCEPT ![d] =
       [Idle EXCEPT !.at = "listed", !.listed = listed, !.missing = missing]]

List(d) ==
  /\ Listing(d, [n \in Names |-> Found(d, n)], ~here[d])
  /\ UNCHANGED <<disk, mapped, store, kept, ghosts, left>>

\* The folder goes while it is listed: the names still to be looked at are
\* passed over.
ListAsItGoes(d) ==
  /\ Goes(d)
  /\ \E names \in SUBSET {n \in Names : file[d][n] # NoText} :
       Listing(d, [n \in Names |-> IF n \in names THEN file[d][n] ELSE NoText], FALSE)
  /\ UNCHANGED <<file, mapped, store, kept, ghosts>>

\* A folder that is missing, or was when it was listed, and has a file
\* agreed, is one that has gone.
Gone(d) ==
  /\ cycle[d].missing \/ ~here[d]
  /\ \E n \in Names : agreed[d][n].val # NoText

ReadGone(d) ==
  /\ cycle[d].at = "listed"
  /\ Gone(d)
  /\ cycle' = [cycle EXCEPT ![d] = Idle]
  /\ UNCHANGED <<disk, mapped, store, kept, ghosts, left>>

\* A folder that was missing is made where a file is to arrive, under the
\* settings the cycle began with.
Makes(d) ==
  /\ cycle[d].missing
  /\ \E n \in Names : \E e \in Version(held[d][n]) : e.val # NoText

\* The names with something to do are taken in order.  (A name with nothing
\* to do has no copy kept beside it: a copy is kept for a version that the
\* record is not of, and a store goes back to no version.)
ReadChannel(d) ==
  LET read == [n \in Names |-> Version(held[d][n])]
      todo == {n \in Names :
                 Planned(cycle[d].listed, d, n, read[n], agreed[d][n]).step # "nothing"}
  IN
  /\ cycle[d].at = "listed"
  /\ ~Gone(d)
  /\ IF Makes(d) /\ ~cycle[d].stale /\ ~here[d]
     THEN file[d] = Nothing /\ here' = [here EXCEPT ![d] = TRUE]
     ELSE UNCHANGED here
  /\ cycle' = [cycle EXCEPT ![d] =
       IF todo = {} \/ (Makes(d) /\ cycle[d].stale) THEN Idle
       ELSE [@ EXCEPT !.at = "turn", !.read = read, !.was = agreed[d], !.todo = todo]]
  /\ UNCHANGED <<file, mapped, store, kept, ghosts, left>>

\* A mutated form: a cycle whose settings have changed does not end.
StopWaits(d) == FALSE

\* A cycle whose settings have changed stops before its next file.
Stop(d) ==
  /\ cycle[d].at = "turn" /\ cycle[d].stale
  /\ cycle' = [cycle EXCEPT ![d] = Idle]
  /\ UNCHANGED <<disk, mapped, store, kept, ghosts, left>>

(***************************************************************************)
(* Publishing.                                                             *)
(***************************************************************************)
\* What the slot holds is still what was planned against.
IsStill(d, n) == Version(held[d][n]) = cycle[d].read[n]

\* d publishes val under n as its own entry, over the version planned
\* against, and under the hold of the lock it is compared under; a copy
\* that it publishes is still the copy.
Publishes(d, n, val) ==
  \E top \in Highest(held[d][n]), over \in ChainsOver(cycle[d].read[n], d) :
    LET e == [author |-> d, rev |-> top + 1, val |-> val,
              chain |-> Cut(copied[d][n] \o over)]
        now == Store(held[d][n], e)
    IN
    /\ ~cycle[d].stale
    /\ IsStill(d, n)
    /\ top < TopRev
    /\ held' = [held EXCEPT ![d][n] = now]
    /\ copied' = [copied EXCEPT ![d][n] = <<>>]
    /\ kept' = [kept EXCEPT ![d] = [m \in Names |->
         IF m = n THEN NoCopy
         ELSE IF val # NoText /\ kept[d][m].copy = n /\ kept[d][m].val = val
         THEN [kept[d][m] EXCEPT !.under = Version(now)]
         ELSE kept[d][m]]]
    /\ cycle' = [cycle EXCEPT ![d].at = "record", ![d].pending = AgreedWith(e, val)]
    /\ removed' = IF val = NoText \/ file[d][n] # NoText
                  THEN [removed EXCEPT ![d] = @ \ {n}] ELSE removed

\* The version is another, there is no revision left, or the settings have
\* changed: nothing is published, and the file is left.
Unpublished(d, n) ==
  /\ \/ cycle[d].stale
     \/ ~IsStill(d, n)
     \/ \E top \in Highest(held[d][n]) : top >= TopRev
  /\ Through(d, n)
  /\ Unkeep(d, n)
  /\ UNCHANGED <<held, copied, removed>>

\* An edit is published: the text that was listed.  A plan that keeps no
\* text forgets the copy there was.
PublishText(d, n) ==
  /\ Turn(d, n)
  /\ PlanOf(d, n).step = "publish"
  /\ Publishes(d, n, cycle[d].listed[n]) \/ Unpublished(d, n)
  /\ UNCHANGED <<disk, mapped, agreed, written, letGo, inGap, left>>

\* A mutated form: the folder is not listed again.
LookNot(d, n) ==
  /\ Turn(d, n)
  /\ PlanOf(d, n).step = "publishDelete"
  /\ GoesTo(d, "delete")
  /\ Unkeep(d, n)
  /\ UNCHANGED <<disk, mapped, store, ghosts, left>>

\* A delete is published only for a name that the folder, listed again,
\* does not have; a folder that has gone ends the cycle.
LookForDelete(d, n) ==
  /\ Turn(d, n)
  /\ PlanOf(d, n).step = "publishDelete"
  /\ IF ~here[d] THEN cycle' = [cycle EXCEPT ![d] = Idle]
     ELSE IF file[d][n] # NoText THEN Through(d, n)
     ELSE GoesTo(d, "delete")
  /\ Unkeep(d, n)
  /\ UNCHANGED <<disk, mapped, store, ghosts, left>>

PublishDelete(d, n) ==
  /\ At(d, n, "delete")
  /\ Publishes(d, n, NoText) \/ Unpublished(d, n)
  /\ UNCHANGED <<disk, mapped, agreed, written, letGo, inGap, left>>

(***************************************************************************)
(* Keeping a text beside its file.                                         *)
(***************************************************************************)
\* The conflict file c holds the text, and is the copy made for the
\* conflict that n is in now.
IsTheCopy(d, n, c) ==
  /\ Found(d, c) = cycle[d].listed[n]
  /\ kept[d][n] = [is |-> "copy", copy |-> c, version |-> cycle[d].read[n],
                   val |-> cycle[d].listed[n], under |-> Version(held[d][c])]

\* The name c is free: no file has it, the folder had not agreed the text
\* under it, and the channel has no text under it.
IsFree(d, n, c) ==
  /\ Found(d, c) = NoText
  /\ cycle[d].was[c].val # cycle[d].listed[n]
  /\ \A e \in Version(held[d][c]) : e.val = NoText

\* A mutated form: no second name is tried.
FirstNameOnly(d, n, c) ==
  /\ CopyNames[d][n] # <<>> /\ c = CopyNames[d][n][1]
  /\ IsTheCopy(d, n, c) \/ IsFree(d, n, c)

\* The first of the copy's names that will do.
FirstName(d, n, c) ==
  \E i \in DOMAIN CopyNames[d][n] :
    /\ c = CopyNames[d][n][i]
    /\ IsTheCopy(d, n, c) \/ IsFree(d, n, c)
    /\ \A j \in 1 .. i - 1 :
         ~IsTheCopy(d, n, CopyNames[d][n][j]) /\ ~IsFree(d, n, CopyNames[d][n][j])

Keeps(d, n) == Turn(d, n) /\ PlanOf(d, n).keep

\* The text is kept already.
FindCopy(d, n) ==
  \E c \in Names :
    /\ Keeps(d, n)
    /\ FirstName(d, n, c) /\ IsTheCopy(d, n, c)
    /\ cycle' = [cycle EXCEPT ![d].at = "kept", ![d].relied = {c}]
    /\ UNCHANGED <<disk, mapped, store, kept, ghosts, left>>

\* What the text of n was written after, as the folder's record says it.
KeptAfter(d, n) ==
  LET was == cycle[d].was[n] IN
  IF was = NoRecord THEN <<>>
  ELSE IF was.val = cycle[d].listed[n] /\ was.signer = d THEN was.chain
  ELSE WrittenOver(was.val, was.chain)

\* A free name is taken for the copy, and written down, before the copy
\* is.
ClaimCopy(d, n) ==
  \E c \in Names :
    /\ Keeps(d, n)
    /\ FirstName(d, n, c) /\ IsFree(d, n, c)
    /\ kept' = [kept EXCEPT ![d][n] =
         [is |-> "copy", copy |-> c, version |-> cycle[d].read[n],
          val |-> cycle[d].listed[n], under |-> Version(held[d][c])]]
    /\ copied' = [copied EXCEPT ![d][c] = KeptAfter(d, n)]
    /\ cycle' = [cycle EXCEPT ![d].at = "copy", ![d].relied = {c}]
    /\ UNCHANGED <<disk, mapped, held, agreed, ghosts, left>>

\* No name is left of those that are tried (a bound), and the file is left.
NoName(d, n) ==
  /\ Keeps(d, n)
  /\ \A c \in Names : ~FirstName(d, n, c)
  /\ Through(d, n)
  /\ UNCHANGED <<disk, mapped, store, kept, ghosts, left>>

\* The copy is written, if its name is still free.
WriteCopy(d, n) ==
  \E c \in cycle[d].relied :
    /\ At(d, n, "copy")
    /\ IF here[d] /\ file[d][c] = NoText
       THEN /\ file' = [file EXCEPT ![d][c] = cycle[d].listed[n]]
            /\ GoesTo(d, "kept")
            /\ removed' = [removed EXCEPT ![d] = @ \ {c}]
            /\ UNCHANGED kept
       ELSE /\ Through(d, n)
            /\ Unkeep(d, n)
            /\ UNCHANGED <<file, removed>>
    /\ UNCHANGED <<here, mapped, store, written, letGo, inGap, left>>

(***************************************************************************)
(* Writing or removing the file, and recording what is agreed.             *)
(***************************************************************************)
Replacing == {"pull", "remove"}

\* The settings were looked at, and a file is to be written or removed.
Writing == {"copy", "write", "rename"}

\* A mutated form: they are not looked at again between a copy and the file.
StartWriteUnasked(d, n) ==
  \/ /\ Turn(d, n)
     /\ PlanOf(d, n).step \in Replacing /\ ~PlanOf(d, n).keep
     /\ GoesTo(d, "write")
     /\ Unkeep(d, n)
     /\ UNCHANGED <<disk, mapped, store, ghosts, left>>
  \/ /\ At(d, n, "kept")
     /\ GoesTo(d, "write")
     /\ UNCHANGED <<disk, mapped, store, kept, ghosts, left>>

\* The settings are looked at, not under the lock, before the file is
\* written or removed.
StartWrite(d, n) ==
  \/ /\ Turn(d, n)
     /\ PlanOf(d, n).step \in Replacing /\ ~PlanOf(d, n).keep
     /\ GoesTo(d, "write")
     /\ Unkeep(d, n)
     /\ UNCHANGED <<disk, mapped, store, ghosts, left>>
  \/ /\ At(d, n, "kept")
     /\ IF cycle[d].stale THEN Through(d, n) ELSE GoesTo(d, "write")
     /\ UNCHANGED <<disk, mapped, store, kept, ghosts, left>>

\* A mutated form: only the copy is looked at again.
CopyUnchanged(d, n) ==
  here[d] /\ \A c \in cycle[d].relied : file[d][c] = cycle[d].listed[n]

\* The file is as it was listed, and the copy that its text is relied on
\* to be in still holds the text.
Unchanged(d, n) ==
  /\ here[d]
  /\ file[d][n] = cycle[d].listed[n]
  /\ \A c \in cycle[d].relied : file[d][c] = cycle[d].listed[n]

\* The channel's version takes the file's place.
Replaces(d, n) ==
  \E one \in TheOne(cycle[d].read[n], d) :
    /\ file' = [file EXCEPT ![d][n] = one.val]
    /\ cycle' = [cycle EXCEPT ![d].at = "record", ![d].pending = AgreedWith(one, one.val)]
    /\ Unkeep(d, n)
    /\ removed' = [removed EXCEPT ![d] = @ \ {n}]
    /\ UNCHANGED <<here, mapped, store, written, letGo>>

\* The last look at the file, and the file replaced.
Replace(d, n) ==
  /\ At(d, n, "write") /\ Unchanged(d, n)
  /\ Replaces(d, n)
  /\ UNCHANGED <<inGap, left>>

\* The two, with others in between: what is then there is replaced.
LastLook(d, n) ==
  /\ At(d, n, "write") /\ Unchanged(d, n)
  /\ Spend("gap")
  /\ GoesTo(d, "rename")
  /\ UNCHANGED <<disk, mapped, store, kept, ghosts>>

Rename(d, n) ==
  /\ At(d, n, "rename") /\ here[d]
  /\ Replaces(d, n)
  /\ inGap' = inGap \cup ({file[d][n]} \ {cycle[d].listed[n], NoText})
  /\ UNCHANGED left

\* The file changed since it was listed, or its copy did: it is left.
Defer(d, n) ==
  /\ \/ At(d, n, "write") /\ ~Unchanged(d, n)
     \/ At(d, n, "rename") /\ ~here[d]
  /\ Through(d, n)
  /\ UNCHANGED <<disk, mapped, store, kept, ghosts, left>>

\* What is agreed is recorded, unless the settings have changed.
Record(d, n) ==
  /\ At(d, n, "record")
  /\ Through(d, n)
  /\ IF cycle[d].stale THEN UNCHANGED <<agreed, kept>>
     ELSE /\ agreed' = [agreed EXCEPT ![d][n] = cycle[d].pending]
          /\ Unkeep(d, n)
  /\ UNCHANGED <<disk, mapped, held, copied, ghosts, left>>

\* Both sides are the same: that is recorded alone.
RecordAlone(d, n) ==
  \E one \in TheOne(cycle[d].read[n], d) :
    /\ Turn(d, n)
    /\ PlanOf(d, n).step = "record"
    /\ agreed' = [agreed EXCEPT ![d][n] = AgreedWith(one, cycle[d].listed[n])]
    /\ Unkeep(d, n)
    /\ Through(d, n)
    /\ UNCHANGED <<disk, mapped, held, copied, ghosts, left>>

Apply(d, n) ==
  \/ PublishText(d, n) \/ LookForDelete(d, n) \/ PublishDelete(d, n)
  \/ FindCopy(d, n) \/ ClaimCopy(d, n) \/ NoName(d, n) \/ WriteCopy(d, n)
  \/ StartWrite(d, n) \/ Replace(d, n) \/ LastLook(d, n) \/ Rename(d, n) \/ Defer(d, n)
  \/ Record(d, n) \/ RecordAlone(d, n)

CycleStep(d) ==
  \/ List(d) \/ ReadGone(d) \/ ReadChannel(d) \/ Stop(d)
  \/ \E n \in Names : Apply(d, n)

Arrives(d) ==
  \E c \in Devices \ {d}, n \in Names : \E e \in held[c][n] : Arrive(d, c, n, e)

Next ==
  \E d \in Devices :
    \/ \E n \in Names, text \in Texts : Write(d, n, text)
    \/ \E n \in Names : Remove(d, n)
    \/ FolderGoes(d) \/ FolderBack(d) \/ ListAsItGoes(d)
    \/ Arrives(d)
    \/ Crash(d)
    \/ OtherCommand(d) \/ Unmap(d) \/ Map(d)
    \/ CycleStep(d)

Spec == Init /\ [][Next]_vars

\* A node runs a cycle every few seconds while a folder is mapped, sends
\* and fetches on every pass, and starts again after it stops.  A folder
\* that went comes back, and one that stopped syncing syncs again.
Fairness ==
  \A d \in Devices :
    /\ WF_vars(CycleStep(d))
    /\ WF_vars(Arrives(d))
    /\ WF_vars(FolderBack(d))
    /\ WF_vars(Map(d))

FairSpec == Spec /\ Fairness

-----------------------------------------------------------------------------
TypeOK ==
  /\ file \in [Devices -> [Names -> Values]]
  /\ here \in [Devices -> BOOLEAN]
  /\ mapped \in [Devices -> BOOLEAN]
  /\ held \in [Devices -> [Names -> SUBSET Entry]]
  /\ agreed \in [Devices -> [Names -> Records]]
  /\ copied \in [Devices -> [Names -> Chain]]
  /\ kept \in [Devices -> [Names -> Copy \cup {NoCopy}]]
  /\ cycle \in [Devices -> Cycle]
  /\ written \subseteq Texts /\ letGo \subseteq Texts /\ inGap \subseteq Texts
  /\ removed \in [Devices -> SUBSET Names]

InAFile(text) == \E d \in Devices, n \in Names : file[d][n] = text

\* No text that an agent wrote is in no file, unless an agent replaced or
\* removed a file that held it: what claude/sequences.rs checks at the end
\* of each sequence, here at every step, with the cycles of the devices in
\* pieces and what they pass to one another in any order.  One gap is left,
\* in write_atomic: a text written between the last look at the file and
\* the rename.
NoTextLost == \A text \in written \ (letGo \cup inGap) : InAFile(text)

\* A device publishes a delete only of a file that its agent removed since
\* the folder last met the channel there: never for a folder that went, a
\* record that was not made in time, or a folder that syncs afresh.
DeletesAreAgents ==
  [][\A d \in Devices, n \in Names : \A e \in held'[d][n] \ held[d][n] :
       (e.author = d /\ e.val = NoText) => n \in removed[d]]_vars

\* An entry is of the version that a record is of, or of a later one.
AtOrPast(e, record) ==
  e.rev > record.rev \/ (e.rev = record.rev /\ e.val >= record.val)

\* A folder's record is never of a version that its store does not have, or
\* of one that is still to come: what the store has is the record's version,
\* or one that took its place.
RecordsAreBacked ==
  \A d \in Devices, n \in Names :
    agreed[d][n] # NoRecord =>
      /\ held[d][n] # {}
      /\ \A e \in Version(held[d][n]) : AtOrPast(e, agreed[d][n])

\* Once the folder has stopped syncing, no cycle of it publishes or records
\* anything more: the command that stops it may have answered, and has
\* forgotten what was agreed (claude.rs, apply).  Nor does one begin to write
\* a file: the one it was writing, for which it had looked at the settings
\* without the lock, it may still write, and that is the last.
NothingAfterStop ==
  [][\A d \in Devices : (~mapped[d] /\ CycleStep(d)) =>
       /\ UNCHANGED <<held, agreed>>
       /\ cycle'[d].at \in Writing => cycle[d].at \in Writing
       /\ file'[d] # file[d] => cycle'[d].at \notin Writing]_vars

\* Once the agents rest, the folders come to hold the same files, for good;
\* or a device has no name left for a copy, and its file waits for the agent.
Settle ==
  <>[]( \/ \A c, d \in Devices : file[c] = file[d]
        \/ \E d \in Devices, n \in Files : \A c \in Names : ~FirstName(d, n, c))
=============================================================================
