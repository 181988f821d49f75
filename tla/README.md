# cordelia-node in TLA+

A cordelia node keeps the memory of a person's agents in step over the person's
devices. Each agent writes ordinary files in a folder; a node on each device
publishes them as sealed entries in a channel of the name the folder syncs,
sends the entries to relays, fetches those of the other devices, and brings
folder and channel together every few seconds. Who counts as a device of the
person is a signed, numbered statement; a later statement has new channels, and
each device carries its current versions over.

This directory models that core as TLA+ modules that TLC checks on small
instances, with theorems that TLAPS checks for every value of the constants.
`PROJECT.json` says which lines each definition is translated from.

1. The system's parts (inventory)
2. The modules, and how they correspond to the code
3. What each run checks, its bounds, and the fairness
4. What is proved, and how
5. Where the code and its comments disagree
6. What is left out, and why
7. The plan

## 1. The system's parts

Sources are under `src/crates/`. M: modelled, P: partly, -: not modelled yet.

### What memory goes through

**Revisions** (M; `cordelia-core/src/revision.rs`). No state: the arithmetic of
a revision as a band and a count. *Operations*: `band`, `count`, `lifted`,
`may_be_under`, `next_under`, and `carried_rev` of `person.rs`. *Hard*: the
edges of a band; devices that are several statements apart. *Correct when* an
edit is always above what it was written over, devices under two statements
give one edit one revision, and a name at the end of its band is within reach
again after the next statement.

**Slots, versions and chains** (P; `cordelia-crypto/src/version.rs`, `chain.rs`,
`entry.rs`, `cordelia-storage/src/entries.rs`). *State*: the newest entry of
each author in each slot. *Operations*: `store`, `current`, `written_over`,
`merged`, `known_to_follow`. *Hard*: entries late, twice and out of order;
ties; chains that are cut at 100 links. *Correct when* devices that hold the
same entries take the same version, and a version is not taken to follow what
it was not written after.

**The sync plan** (P; `cordelia-sync/src/plan.rs`). A function of the file, the
channel's version and the folder's record to the actions for one file.
*Correct when* a file is replaced or removed with no copy only where its text
is as agreed and the version is known to follow that.

**The sync cycle** (P; `cordelia-sync/src/claude.rs`, `cordelia-api/src/publish.rs`,
`cordelia-storage/src/sync_state.rs`, `atomic.rs`). *State*: the folder; the
records of what was agreed; in memory the copy kept beside each file in
conflict, and what the running cycle listed and read. *Operations*: listing,
one read of the channel under the lock, and for each file publish, publish a
delete, pull, remove, keep a copy, merge, put back, record. *Interacts* with
agents (who write files at any moment), with the store (where entries arrive
while it runs), with settings commands (which it must stop for). *Hard*:
everything it looked at may change before it acts; a step may fail, or the node
stop, between any two. *Correct when* no text is lost, no delete is published
that no agent made, nothing is published over a version that was not seen, and
folders left in peace come to agree.

**Settings of sync** (P; `cordelia-api/src/sync.rs`, `state.rs`). *State*: the
mappings, and the count of settings commands. *Operations*: turning sync
on and off, mapping and unmapping a folder, asking how it stands. *Hard*: a command is
answered while a cycle runs under the settings of before.

**Index lines and the merge** (-; `memory_md.rs`, `claude/lines.rs`). *State*:
this device's acts on lines and memories, and its looks, in memory. *Hard*: a
memory that comes back without its line; several devices putting one line back.

**Local history** (-; `cordelia-storage/src/history.rs`). *State*: pending and
final records. *Hard*: a record ahead of a change that is not made, or of
which the node stops in the middle.

**Discovery of folders and names** (-; `discover.rs`, `names.rs` of cordelia-sync).
No state; reads directories and git remotes, and spells names.

### Who the person's devices are

**The person: statements, lineages, applying** (P; `cordelia-api/src/person.rs`).
*State*: the change followed, the heads set aside, the keys known to be removed;
applied / closed / stopped. *Operations*: take a change shown (behind, applied, set
aside, past the bound of heads, stopped), keep at once what it says of removals, move to a
head that is clear, `prepare` and `apply_made` for a change made here, apply one that
arrived (with the carry of each name). *Hard*: changes made apart and shown to each
device in an order of its own; a change applied between a prompt and its yes; devices
that come to a statement days apart. *Correct when* no device overlooks a change it took
or seals for a key that any of them removes, what was apart ends, and no carried text
wins over its own edit.

**Changes made with the phrase** (P; `change.rs`, `person_cmd.rs`). *State*: what a
prompt was shown over. *Operations*: ask, make, not make. *Hard*: what comes while the
command waits at its prompt. *Correct when* a change made is after all that its device
took by then.

**Names held, and letting go** (-; `names.rs`, `let_go.rs`, `own_read.rs` of
cordelia-api). *State*: the names held, why each is (mapped, carried, brought
in), the first fetch of each. *Operations*: `hold_mapped`, `stop`, `let_go`.
*Hard*: a name let go while its only version is on this device; a name mapped
again before its channel was fetched whole (of this, `RelayPages` has the stop and the
reading again).

**The cut of a removed device, and arrivals** (-; `cut.rs`, `arrivals.rs`);
**carry and recovery by command** (-; `carry.rs`, `carrying.rs`, `recover.rs`);
**adding a device** (-; `adding.rs`): two keys typed within an hour, a hand-over
that is dropped after two, and written over at each relay it was sent to.
*Hard*: each is a protocol of several devices and relays in which any may be away for
weeks.

### Relays and the network

**The device's side of its relays** (P; `cordelia-node/src/device_entries.rs`,
`device_entries/leave.rs`, `cordelia-api/src/at_relays.rs`). *State*: for each relay and
channel the place read to and how far it was sent; for each connection the round of shows,
leave to use the relay, and the change that could not be applied. *Operations*: show, take
what is handed in answer, try again, prove, pull pages, push, first fetch. *Hard*: places
forgotten while a page is on its way; a relay with no room; turns of relays in parallel; an
answer lost that handed a removal; an apply that waits while other rounds go on. *Correct
when* every entry at a relay is read, everything counted as sent is there, and a relay is
used only by a device that knows every removal the relay knew.

**The door for an entry from outside** (P; `cordelia-api/src/take.rs`). Whether
an entry is this person's, of the generation applied, and of which channel.

**The relay's store** (P; `cordelia-storage/src/relay.rs`,
`cordelia-node/src/relay_entries.rs`). *State*: entries with their places,
marks of holdings, caps, uses; the person's heads, and what each connection was handed.
*Hard*: a reader must see every entry though entries take new places as they are replaced;
what is refused, dropped or swept; heads shown in any order.

**Messages between a person's agents** (P; `sender.rs`, `reader.rs`, `marks.rs`, and
`messages.rs` of cordelia-storage). *State*: the sender's ring of 64 slots; what it keeps of
each message until every relay took it; each reader's index, with the highest number held.
*Operations*: send, push and its answer, send again under the next number, take what a page
brings, clear after 30 days. *Hard*: a store that goes back to an earlier copy gives its
numbers again, while relays, readers and answers on their way are of the life before.
*Correct when* each message comes to every device, or its sender says that it may not have,
and a reader never takes one message for another.

**Shared channels** (-; `shared*.rs`, `sharing.rs`, `lists.rs`).

**The governor** (-; `cordelia-network/src/governor.rs`): cold, warm, hot and
banned peers over time. **Connections and transport** (-): QUIC, handshakes,
the tie between two connections of one pair. **Channels of the older kind** (-):
no longer part of what a personal device does.

### Around them

First start and migrations, cryptography and encodings, command line and
indicator, network loop, locks, configuration (all -): see `PROJECT.json`.

## 2. The modules, and how they correspond to the code

    Revision <- Crossing <- MCCrossing          RevisionProofs <- CrossingProofs
    Slot <- Plan <- MemorySync <- MCMemorySync  MemorySyncProofs
    ToRead <= RelayPages <- MCRelayPages        RelayPagesProofs
    Lineage <= Showing <- MCShowing             LineageProofs <- ShowingProofs
    Lineage <- MCLineage
    MessageRing <- MCMessageRing                MessageRingProofs

`<-` is extended by, `<=` implemented by. `Revision`, `Slot` and `Plan` hold operators
only; `Crossing`, `MemorySync`, `RelayPages`, `Lineage`, `Showing` and `MessageRing` are state machines;
`ToRead` is an abstract specification; the `MC` modules give values to constants; the
`Proofs` modules extend what they prove about. A few definitions that no action uses
(`KeptAsItWas`, `KnowsLater`, `TryForgets` and the like) stand before the one they differ
from: each is a plausible slip in that code, and `PROJECT.json` ("mutants") names the
property that is seen to fail under it.

The composition of the whole: `Lineage` says which change a device follows, and `Showing`
how changes reach it through relays; `Crossing` is what an apply does to the versions of a
name; `RelayPages` is how the entries of one generation travel; `MemorySync` is what a
folder makes of them, with entries that arrive in any order that relays allow. `MessageRing`
is the other channel that devices write, whose entries travel the same way.

### Crossing: one name over many statements

| here | in the code |
|---|---|
| `applied`, `made` | the statement each device has applied; the newest made |
| `held[d]` | `entries` rows of the slot, in the channel of d's generation |
| `relays[n]` | what the relays together hold of generation n's channel |
| `over` | ghost: which texts each text was written over |
| `Write` | `publish` and `written_over` |
| `Jump` | an entry of a device's at a higher revision than the next, which readers take |
| `Push`, `Pull` | `device_entries.rs`: one entry at a time, in any order |
| `Make`, `Apply` | `apply_made`; applying with `Carry::channel` |

A device holds entries of one generation only, since a carry drops the channel it
leaves. `Apply` may go several statements forward at once, as a device that was
away does. `Texts` are numbers, which stand for the order of their hashes.

### MemorySync: one folder on each device

| here | in the code |
|---|---|
| `file`, `here` | the memory folder: its files; whether it is there |
| `mapped` | whether a mapping makes the folder sync |
| `held` | `entries` rows, by slot |
| `agreed` | `sync_state` rows: `Agreed` |
| `copied` | the chain that `copy_made` keeps for a conflict copy |
| `kept` | `SyncControl`'s `Kept`, by file |
| `cycle` | the locals of `sync_folder_with`, `Ctx`, and where `apply` is |
| `cycle[d].stale` | `generation()` is no longer the one the cycle began with |
| `written`, `letGo`, `shed`, `removed` | ghosts, for the properties |

One cycle is `List` (`read_local`), `ReadChannel` (the one hold of the lock, the
check for a folder that went, the folder made, the plans), then for each file in
order the actions of its plan, each cut where the code lets others in:

| step of the code | here |
|---|---|
| `Action::Publish` | `PublishText`, `Record` |
| `Action::PublishDelete` | `LookForDelete` (the folder is listed again), `PublishDelete`, `Record` |
| `Action::SaveConflict` | `FindCopy`, or `ClaimCopy` and `WriteCopy`; `NoName` is the bound on names |
| `Action::Pull`, `RemoveFile` | `StartWrite` (the settings looked at), `Replace` or `LastLook` and `Rename`, `Record` |
| left for the next cycle | `Unpublished`, `Defer` |
| `Action::Record` | `RecordAlone` |
| the settings changed | `Stop` |

Between any two of them an agent writes or removes files, the folder goes or comes
back, entries arrive, a settings command is taken, or the node stops.

**Relays.** An entry arrives straight from the store of its author, one at a time,
any of them, at any time. The store of a receiver keeps the newest of an author, and
so does a relay, which hands on entries as they are; an entry on its way through
relays is then one that its author makes later, as far as its receiver can tell, and
an older one that arrives late is not stored. So no order of arrivals that relays can
give is missing. (Relays that lose entries for good, and a device that never sends
again, are not this system's: entries wait at their author until relays have them.)

**A name that stays held.** When a folder is unmapped its name may be stopped, and its
entries dropped (`names::stop`), or go on being held, where a carry brought versions
into it (`names::brought_in`, `held_after_its_folder` in `sync.rs`). `MemorySync` is of
the second: `Unmap` forgets the records and keeps the entries, and `Map` begins afresh
with no records. The first, with the first fetch it needs, is the next step of the plan.

**Taken as one step**, though the code takes more: the listing of a folder, which reads
its files one after another (a file read early is one that changes after the listing,
and one that goes while it is listed is `ListAsItGoes`); the record of a claimed name
and of its chain, two holds of the lock with nothing between that reads either; a file
removed and the last look before that. **Left out** because it can not arise here:
a copy that may not be published (`copy_held`), since every record here names its signer
and chain; and a link that no longer counts, since every device counts.

### Names and values

A value is a text or `NoText` (a delete, no file). A text is the rank of its hash: it
decides ties, and a delete is below all (`version::rank`). Names are numbers in the order
of their spelling, which is the order a cycle takes them in; `CopyNames` lists, for a
device and a file, the conflict names it tries.

### ToRead and RelayPages: one channel at its relays

`ToRead` is the promise: at each relay a device has a set of entries still to read, and
nothing leaves the set but by being held, by going from the relay, or because its author
counts for nothing here. `RelayPages` is how the code keeps it, by places:

| here | in the code |
|---|---|
| `relay[r]`, `mark[r]` | the channel's rows with their places (`relay.rs`, `entries.rs`); the mark of this holding, made anew where a channel dropped is taken again |
| `store[d]`, `seqs[d]` | `entries` rows, and their order (`seq`) in the device's store |
| `kept[d][r]` | the row of `at_relays`: the place read to under a mark, how far it was sent, what was refused for room |
| `fetched[d]` | the relays the channel was read to the end at (`OwnChannels`) |
| `turn[d][r]` | the locals of a turn: what was asked from where, the page, the entry sent |
| `Begin`, `NotHeldAt`, `LeavePull`, `End` | the turn: prove, read, send |
| `AskPage`, `HandPage`, `TakePage` | `pull`; the relay's page; `take_page`, one transaction |
| `Send`, `RelayTakes`, `TakeAnswer` | `push`; `taken` at the relay; what the answer moves |
| `Fail`, `Restart` | what is on its way is lost; the node stops |
| `SweepDeletes`, `ComeToCount`, `Stop`, `HoldName` | what forgets places: `swept.rs`, a record of another author, `names::stop`, syncing again |
| `DropChannel`, `RelaySweep` | the relay drops the channel; it sweeps files of which only deletes are left |

A push carries one entry: a batch, written as one, is several with nothing between. A page is
any next rows, one at least and at most `PageMost`: the code's bound is in bytes. Every entry
costs one of `Room`. Left out: what is carried again after a statement (`Which::Carried`),
`HoldsAnother` (shown not to arise by `NoRevisionTwice`), an author over its allowance, and
the waits after a refusal (the turn that offers again is any turn with `again`).

### Lineage: which change a device follows

| here | in the code |
|---|---|
| `changes` | every change made: number, chain, keys listed, keys removed |
| `follows`, `heads`, `state` | the statement kept as latest, `heads` rows, `Applied`/closed/stopped |
| `knows` | the keys known to be removed, kept at once whatever else becomes of a change |
| `prompt` | what a command was handed and shows |
| `seen` | ghost: the changes a device took |
| `Behind`, `StopRemoved`, `StopNotListed`, `ApplyShown`, `SetAside`, `PastBound` | the steps of `decide` in person.rs (rule 8), in their order |
| `KnowShown` | `know_what_is_shown` |
| `Move` | `best_to_move_to`, `move_to`: the highest number, of two the lower hash |
| `Ask`, `Make`, `NotMade` | `change` of person_cmd.rs, `prepare`, `apply_made` |

A change's name is its place in the order of making, and decides ties as its hash would: two
of one number are then ordered by making, which names the devices only. A device that asks
reserves a change of the bound, so that a bound never decides who makes one. In the code a
settlement may remove several devices at once; here a command removes at most `MostRemoved`, which
is a bound of the runs (one in `lineage` and `showing_not_applied`, two in `showing`) and any
number in the theorems. With any number removed,
`lineage` has 126,246 states and all its properties hold.

### Showing: how changes reach devices

`Showing` extends `Lineage`: the changes and what a device makes of one are Lineage's, and
here is when one comes to it.

| here | in the code |
|---|---|
| `held[r]` | the rows of the person's slot at the relay, at most `MAX_CHANGE_HEADS` |
| `told[d][r]` | the relay's memory of a connection: what it saw whole or was handed |
| `round[d][r]` | `Round` of `show_round` and its locals: what is shown, whether the change followed is due, what was handed |
| `given[d][r]` | `Leave`: the change that leave was given for; `Has` is `Leave::has` |
| `waiting[d]` | `not_applied` |
| `said[d][r]` | ghost: what the relay held as it said "held" or took what was shown |
| `HeadsWith`, `AnswerTo`, `RelayAnswers` | `decide`, `to_hand` and `shown` at the relay |
| `Begin`, `TakeHeld`, `TakeKept` | a pass begins a round; an answer that is no news |
| `Wait`, `Judge` | a change handed that waits for the turn of the sync cycle; the one door |
| `CouldNotApply`, `TryAgain` | `could_not_apply`, and the try at the next pass |
| `ShowFails`, `Restart` | the connection is closed and leave goes with it; the node stops |
| `RefusedForNow` | the relay refuses a show by its rates, before it hands anything: connection and leave stay |
| `Moves`, `Commands`, `Visits` | moves of the pass; commands; the rounds of other devices |

The devices of `Running` are followed show by show; of any other, `Visits` is what its rounds
come to at a relay and what they bring it. Left out: short shows (a relay that says a head is
known), relays of an earlier version, a head that a relay would take and refuses for room or
allowance (`NoRoom`, `OverLimit`: it says that the relay holds nothing later, so the device has
leave, but the relay keeps nothing of what it was shown), the expiry of leave, waking, the
waits between shows, and the caps `SHOWS_IN_A_PASS` and twice the heads on what a relay
remembers, which three changes do not reach. A connection that is lost while an answer is
judged is one lost just before or after: nothing else reads it meanwhile. A move is a step of its
own, as in the code, where it takes its turn and may fail while the rounds go on.

### MessageRing: one sender's messages

| here | in the code |
|---|---|
| `own.index`, `reader[x]` | of one sender: its entries in the store; H of `message_signers`; the rows of `message_first_held`, and of `message_numbers` with the `message_index` rows they are of |
| `own.kept` | `message_kept`, its numbers and the relays that took it; `again`; `not_every_relay` (`unsure`); and what is still to push to each relay |
| `relay[r]` | the sender's entries at the relay, by slot |
| `answer[r]` | an answer of the relay's that is on its way |
| `copy` | an earlier copy of the store, which it may go back to |
| `fetched` | the relays read to the end since the node started |
| `expired` | the messages sent 30 days ago or before |
| `had`, `hasty` | ghosts: what each relay ever took; a message was written before every relay was read |
| `Send`, `WriteAgain` | `sender::send`; `write_again`, one message at a time |
| `Push`, `Answered`, `Lose` | `push_batch` and `pushed`, with the answer at once, late or lost |
| `Pull`, `ReaderPull` | a page through the door, `reader::taken` and `taken_over` |
| `ReadToEnd` | `fetched_from` |
| `TakenEverywhere`, `Hourly`, `ReaderHourly` | `drop_taken_by_every`; `drop_gone` and `clear_expired` |
| `ReaderPush` | a reader hands on what it holds to another relay |
| `Copy`, `GoBack`, `Restart`, `Expire` | a copy is made of the store and put back; the node stops; 30 days are up |

A message is the time it was sent: of two the first sent is the oldest, and expires first.
An entry is pushed or pulled by itself, in any order, since pages and places are `RelayPages`'s.
`Hourly` takes as one step what the code writes separately: the drop of the index, `clear_expired`
and the drop of what is kept.
Left out: the lists of what was read and the places that a reader gives, the rates of an hour
(which only make `WriteAgain` wait), a relay without room, the bounds between pairs of names,
and a second generation (the ring begins again in each, and what was kept goes).

## 3. What each run checks, its bounds, and the fairness

| run | constants | states | properties |
|---|---|---|---|
| `crossing` | 2 devices, 3 statements, bands of 4 revisions, 3 texts, 3 jumps | 999,529 | `TypeOK`, `EntriesMayBe`, `EditStaysAbove`, `OneEditOneRev`, `ApplyFrees` |
| `sync_edits` | 3 texts, 5 names, chains of 1 | 55,654 | `TypeOK`, `NoTextLost`, `Settle` |
| `sync_faults` | 2 texts, 4 names, chains of 2; a stop, or a command, or a removal and a folder that goes, or a folder that goes and a write in the gap | 162,896 | `NoTextLost`, `RecordsAreBacked`, `DeletesAreAgents`, `NothingAfterStop`, `Settle` |
| `pages_read` | 2 devices, 1 relay, 2 files, pages of 1: a channel to begin with, dropped once and an author that comes to count; and one in use, swept at the relay and at a device | 686,483 | `TypeOK`, `NothingPassedOver`, `ImplementsToRead` |
| `pages_sent` | 2 devices, 1 relay with room for two, 2 files, one turn lost: a channel to begin with and 2 writes; or one in use at a relay that is full, 3 writes, and the relay sweeps a delete | 184,880 | `SentIsThere`, `EachReads`, `EachSends` |
| `pages_stopped` | 1 device, 2 relays of which one has room for one, 2 files, 4 writes; a stop and a lost turn, or a restart | 181,802 | `MeetsTheChannel`, `SentIsThere`, `NoRevisionTwice` |
| `lineage` | 3 devices, 2 heads, 4 changes | 92,060 | `TypeOK`, `SealsForNoRemoved`, `OverlooksNone`, `MadeOverAll`, `RemovalReaches`, `JoinEndsIt` |
| `showing` | 3 devices of which one shows, 3 changes; 2 relays, or 1 with a show lost or refused and a failed apply | 142,783 | `RoundsOK`, `LeaveKnows`, `NoneUnapplied`, `WaitsClosed`, `ImplementsLineage`, `HeldReaches` |
| `messages` | 2 relays, 1 reader, a ring of 2, 3 numbers, 2 sends of one message: 2 messages and a copy gone back to, a late answer with a store gone back to nothing, or an expiry; 1 with a store gone back and an expiry, or with a reader that hands on and a restart; 3 with a store gone back | 95,974 | `TypeOK`, `OneMessageOneNumber`, `TakenIsThere`, `KeptUntilTaken`, `LeavesInItsTime`, `Reaches` |
| `sync_late_record`, `pages_stop_in_pass`, `showing_not_applied` | the least that shows it | stop at a violation | see section 5 |

**Budgets.** Faults are bounded by `Budgets`: a set of mixes, each a number of times that each
fault may come in one behaviour, and a behaviour begins with one of them. So one run has each
fault alone and the pairs that matter, and not their product; the theorems hold for any.

The sync runs are of two devices and one file, with the files of its conflict copies beside
it. Deadlock is checked in the runs of `MemorySync` and `RelayPages`: a cycle or a turn is
never stuck between two steps. In `crossing`, `lineage`, `showing` and `messages` it is not: when
every text is written, every change shown and every message taken, nothing is left to do.

**The properties, in words.**

- `EditStaysAbove`: no carry, late or early, by whichever device, lets a text win over
  its own edit. `OneEditOneRev`: devices under two statements that make the same edit
  make one version. `EntriesMayBe`: no carry makes an entry that other devices pass over.
  `ApplyFrees`: a name at the end of its band can be edited again.
- `NoTextLost`: a text that an agent wrote is in some file of some device at every moment,
  unless an agent replaced or removed a file that held it. This is what the repository's
  sequence tests (`claude/sequences.rs`) ask at the end of each sequence; here it holds
  at each step, with the cycles of two devices cut into their steps.
- `DeletesAreAgents`: a delete is published only of a name that the agent of that device
  removed since a cycle last settled it.
- `RecordsAreBacked`: a record is never of a version that the store lacks.
- `NothingAfterStop`: once the command that stops a folder has answered, no cycle of it
  publishes or records anything, or begins to write a file: at most the one it was writing already
  is still written. `Settle`: once the agents rest, the folders hold the same
  files from then on, or a device has no name left for a copy.
- `NothingPassedOver`: what lies at or before a device's place in a relay's holding, it holds.
  `SentIsThere`: what counts as sent is at the relay. `MeetsTheChannel`: a name synced again has
  met all that each relay counted as read held. `NoRevisionTwice`: so its next revision is given
  nowhere else to another text. `EachReads`, `EachSends`: each comes to hold what the other has;
  what a relay had no room for, it holds once it has room.
- `SealsForNoRemoved`: no device seals under a change whose secret a key holds that any change
  it took removes. `OverlooksNone`, `MadeOverAll`: no change taken drops out of the lineage,
  through applies, moves and changes made at a prompt. `RemovalReaches`: at last no device seals
  for a removed key. `JoinEndsIt`: a change that joins all that was apart comes to be followed.
- `LeaveKnows`: a device that may use a relay knows the removals of every head the relay held
  as it said that it held nothing later. `NoneUnapplied`: and it has dealt with every change
  that any connection handed it. `WaitsClosed`: while an apply waits its turn, nothing is used
  under the old change that a key to be removed could open. `HeldReaches`: a removal that a
  relay holds reaches each device that shows there.
- `OneMessageOneNumber`: no two places ever hold two messages under one number, though the
  sender's store went back, where it wrote none before it had read every relay. `TakenIsThere`:
  what counts as taken by a relay was taken there, and no other message under its number.
  `KeptUntilTaken`: a message is let go only once every relay took it, or its index says that it
  may not have reached them. `LeavesInItsTime`: nothing that is cleared, overwritten or sent again
  takes a message off a reader before its 30 days. `Reaches`: each message comes to each reader,
  or its sender's index says that it may not.

**Why the bounds are enough.** A conflict takes two texts; the loss of one that a third
replaces takes three, and cuts of the chain matter from one link on, so `sync_edits` has
three texts and chains of one link. A second name is needed where the first is in use: after a
stop, after a command, or for a copy that came from another device. A band of four revisions
has a lower and an upper half of two, and jumps reach the last revision of the first two bands.
In `pages_sent` the relay of the channel in use has room for what it holds and no more, so that a new
entry is refused, waits, and is offered again once the delete is swept (were it not, `EachSends`
would fail: its mutant is that). A page of one row, two files and two authors let an entry be
replaced, swept and taken again on each side of a place. Two heads and four changes are a fork, one past the bound, and the change
that joins them; in `showing` three heads have room for every change there is, so that a relay
drops none for room (one that it drops, it can not hand: past the bound, `NoneUnapplied` is not
claimed). A larger instance (four changes, two relays, three commanding devices) was simulated
without a violation. A ring of two, with two sends of a message, is the least in which a number is overwritten while
another is kept, and a message needs a number more than it has; the last number is used up where
a message is sent again twice. With three sends, a copy and a store gone back (779,742 states)
the safety properties of `messages` were checked too, and hold.
What the bounds leave out: three devices in `MemorySync`, two files in one
folder whose copies meet, two devices in `Showing` followed step by step.

**Fairness** is weak unless said. `MemorySync` (`FairSpec`): for each device a step of its
cycle, an arrival, the folder's coming back, and its syncing again. `run_sync_loop` of `main.rs`
begins a cycle every 5 seconds (`CYCLE_SECS`) and at each settings command, and a cycle
that began runs on its own thread. The last two are of the person, and no code promises them:
`Settle` says what comes after. `RelayPages` (`Fairness`, from the two
beginnings of `MCRelayPages`): a turn that has begun goes on, and, strongly, a
whole pass begins: a relay's turns are one at a time and a pass waits for its turn on a lock
that is handed in order, while passes come on timers for as long as the node runs. `Lineage`:
each device comes to move or to be shown something, which `Showing` accounts for. `Showing`:
every relay has its turn at each pass (`RoundStep`), and each pass moves the device and tries
again what it could not apply. `MessageRing`: pulls, pushes, the end of a reading, answers and
sending again are steps of the passes that timers begin; a late answer comes, or the connection
ends, within the time a relay is given. No fairness is asked of agents, commands, losses or stops.

## 4. What is proved, and how

TLAPS checks the theorems for every set of devices, relays, texts and names, any bounds, and
any mix and number of faults. The assumptions are those named in the modules: that the
constants are sets, finite where their elements are counted, or numbers of their kind. Some
theorems have an assumption of their own, said with them.

**RevisionProofs.** `LiftedOrder` (lifting keeps the order of the revisions that may be
under a statement), `LiftedOnce`, `LiftedMayBe`, `NextAbove`, `OneEditOneRevision`,
`StatementFrees`: the facts that comments and exhaustive tests of `revision.rs` rely on,
for bands of any even size. They rest on a few lemmas about quotients and remainders.

**CrossingProofs.** `TypeCorrect`, `EntriesAlwaysMayBe`, `EditAlwaysAbove`,
`OneEditAlwaysOneRev`, `ApplyAlwaysFrees`. `EditStaysAbove` compares two entries as they are in the later of
their generations, and is not inductive as it stands: a carry changes a revision, and an entry
of an earlier generation may be carried later by another device. `IInv` compares them by where
both end up once lifted (`EndsAbove`), says that one text ends up at one revision whoever
carried it and when (`OneTextOneEnd`), that only written texts are anywhere (`PlacedWritten`),
and `EntriesMayBe`, under which lifting is strictly increasing (`LiftedOrder`) and done once
(`LiftedOnce`): so a carry changes nothing of where an entry ends up, and a write goes above
all of it.

**MemorySyncProofs.** `MemorySyncTyped`, `RecordsAlwaysBacked`, `NothingIsDoneAfterStop`,
`OnlyTheAgentDeletes` and `NothingIsLost`. A record is made of what
a cycle read some steps before, so the invariant `StoreIsAhead` says of all three places
that stand between store and record (what a cycle read, the record it has still to make,
the records) that the store is at the version named or past it; `Store` only goes forward
in the order of `AtOrPast`. Each step of `Next` gets one lemma; those that read nothing new
share one (`CalmSteps`, `CalmIsAhead`). A stopped folder stays out of the channel from the step
that stopped it (`StoppedIsMarked`), wherever its cycle was. `OnlyTheAgentDeletes` is proved where no node stops
and no settings change, which section 5 (`sync_late_record`) shows to be needed. `RemovalsAccounted`
says of each name with no file that its agent removed it, if the folder agreed a text under it, a
cycle listed one that it has still to settle, or one is about to be recorded of it; the one
exception is a delete that is done and not yet recorded (`Missed`). It also ties the records that a
cycle plans by to those there are (`Planning`). And of `plan()`, for every input: a file is replaced
or removed without a copy only where it is as agreed and the version is known to follow
(`ReplacedOnlyIfKnown`); a delete is published only of an agreed text that is still the
channel's (`DeletedOnlyIfAgreed`); a text is published over no other text than the agreed
one (`NoTextPublishedOverAnother`).

`NothingIsLost` (of `NoTextLost`) is proved where agents only write, in any file and any text again,
with any devices, names, chains and cycles, and with writes in the gap of a rename (`OnlyWrites`);
and where a copy's name is of the device that makes it and of no agent, as the tag in it makes it
(`CopiesAreOwn`: tags are the first bytes of keys, taken to differ). A file goes when another text
takes its place, either beside a copy or because the chain of the new version names the old text, so
`TextsSecure` says of every chain that it tells the truth: of all it names, its own text apart, an
agent let go (`Said`, of entries, of what was read and of records). A chain is made of what was
agreed and of what copies keep, while the folder moves on: what was agreed, listed or is about to be
recorded is in the file or was let go since (`Has`, `Edited`), what a copy's chain has is in the copy
or was let go (`Copies`), and a file about to be written over has its text let go or in the
copy beside it (`Relies`). That a name free for a copy was never published, by any device, is `Owned`.
The hypotheses mark where this invariant ends: after a stop the record in use can be older than the
file that was written, and after a removal a free copy's name may have been used before; there the
truth of chains is of the whole history, and the runs check the property.

**RelayPagesProofs.** `PagesTyped`, `NothingIsPassedOver`, `PagesImplementToRead`; the last two
where no name is stopped in the middle of a pass (`~StopsInPass`), which section 5 shows to be
needed. A place passed over is not inductive as it stands: a page on its way moves a place when
it is taken. `IInv` is `TInv` (the types, and that places are no higher than the highest and are
given once), `Held` (a device that does not hold the name holds nothing of it) and `PlaceInv` for
each device and relay: of a page asked for from the place still kept, what lies between that place
and the page's next is in the page, as it was or replaced since at a higher place. Then a place
moves only past what the page brought. The refinement maps `toRead` to the rows beyond the place,
or all of them under another mark; each step is a `Change`, `Read`, `Write`, `Again` or a stutter.

`SentIsAlwaysThere` is proved where no relay drops a channel or sweeps it; stops in the middle of a
pass are allowed. What counts as sent is not inductive as it stands: the place up to which all was
sent moves over what a page brought, and with an answer that comes late. `SentInv` says that
entries have places of their own, at the device and at the relay, and of each device and relay
(`PairInv`) that the relay has what lies up to that place and was not refused for room
(`SentHeld`), that a page brings nothing above what the relay has (`PageThere`), that an entry on its
way is the next unsent, while its place is its own (`NextSent`), and once answered is at the relay
(`AnsweredHas`). `TheChannelIsMet` is proved where entries do not go at all, on top of `IInv`: `MetInv` says
that what a relay had as the device came to hold the name is there, at that revision or above
(`OwedThere`), and that a relay that was read to its end, or whose last page is on its way, has been met (`MetAt`). A page
that is the end was handed from the place still kept, so that nothing was passed gives the step.
`RevisionsGivenOnce` (of `NoRevisionTwice`) has the same hypotheses, each needed: what is dropped
or swept takes with it what an author would have learnt its own revisions from. `OnceInv` says of
each entry's author that what any other device has, or sends, of it is at some relay in that
revision or above (`OthersKnow`, `SentKnown`), and what a page has is at the relay it came from
(`PageKnown`); and that what a relay read to its end has beyond the author's store is also at a
relay still to be read (`EndKnown`). The second half of that is what makes it inductive: another
device may bring an older revision of the author to a relay that was read already. Once every
relay was read, none is left, and the author's store has the highest revision there is.

**LineageProofs.** `Typed`, `Sealing`, `Overlooking`, `Making`. `IInv` adds to the types what is
true of every change (`ChangesInv`: a chain has the chains, removals and lower numbers of all on
it, and lists no key removed), of a device that goes on (`DevicesInv`: all it took is kept or
behind what is kept, it knows all their removals, and seals clear of them) and of a prompt
(`PromptsInv`: its change is after all it was shown over). One lemma per step of `decide`.

**ShowingProofs.** `RoundsKeepShape`: with `IInv` the shape of the rounds and the relays' heads is
inductive; that a relay keeps no more heads than the bound is a counting argument, made of an
injection into `0 .. n - 1` (`FewBefore`), as is that a lowest exists (`FirstExists`), which
stand in for induction over sets. `ShowingImplements`: every step is one of `Lineage` or leaves
it, so whatever the rounds, losses and failures do, what Lineage promises holds:
`ShowingSeals` is `SealsForNoRemoved` carried over. `LeaveAlwaysKnows`: where every change handed can be applied
(no failures in the budgets), leave is only with all removals known. `LeaveInv` says of each round
that what it shows is known, and of each connection that what it saw is known or is the answer
still to be judged (`RoundKnows`); the relay's "held" then means that all it keeps was seen.
`WaitsStayClosed` asks nothing of failures. It rests on what a step of `Lineage` does to what a
device keeps (`StepLeadsOn`): a change that was left is behind what is kept, or was not clear, and
neither ends (`PassedStays`). So the change that a round showed as the one followed is followed
still or passed for good, and a waiting answer's removals are known, or the device seals no more
under that change (`WaitInv`). `NoneIsUnapplied` stands on `LeaveInv` and `DealtInv`: what a
connection saw whole is kept or behind what is kept, but for the answer that is judged next, and
stays so (`UnderStays`). A device with leave that judges a change keeps it (`JudgedUnder`), unless
it would be one head too many; so the theorem is of behaviours where there is room (`HasRoom`: the
changes that a device does not keep, each with the heads apart from it, stay under the bound), and
where every change handed can be applied. Without either it does not hold: a head past the bound
is not kept, and a change that failed is passed over once another is applied
(`showing_not_applied`).

**MessageRingProofs.** `MessagesTyped`, `TakenWasTaken`, `KeptTillTaken`, `OneForOne` and
`StaysItsDays`, for rings and rounds of sending of any size. What counts as taken is not inductive as it stands: an answer is
judged by the number alone, and may come after the store went back. `WellKept` says that a number
that a message is kept under has, in the sender's ring, that message or something above it, so
that whatever a relay answers "held" of was the message (`AnswerWell` says it of answers on their
way; `TakenWell` of what was counted). For `OneMessageOneNumber`, `OrderInv` says where a higher
number can be: what a reader holds was at a relay (`ReadersBelow`), and what a relay that was read
holds is in the sender's ring or at a relay still to be read (`ReadBelow`, and `CopyBelow` for the
store it may go back to). Once every relay was read, the next number is then above all there is.
One lemma per step says what it does to the store (`Written`, `Lessened`, `Forgets`), and the
three invariants are proved from those. `StaysItsDays` (of `LeavesInItsTime`) needs what an index
says of the ring it is beside: where nothing went out in haste, what a relay, or a reader, shows
under a number is the message that is in the slot there, so that a slot is cleared only when what
is in it has had its time (`TimeInv`; `ShownHeld` for the reader, who may be ahead of what it was
shown).

**Model-checked only:** `NoTextLost` where files are removed, nodes stop, settings change or folders go,
`DeletesAreAgents` where nodes stop or settings change, `NoneUnapplied` and `LeaveKnows` where applies fail,
`SentIsThere`, `MeetsTheChannel` and `NoRevisionTwice` where relays drop or sweep, and all liveness (`Settle`, `EachReads`, `EachSends`, `RemovalReaches`,
`JoinEndsIt`, `HeldReaches`, `Reaches`), which with fairness is out of the prover's reach.

## 5. Where the code and its comments disagree

Each of these is a run that ends in a violation of the one property it checks.

- `sync_late_record`: a record that a settings command prevented is not always made by the
  next cycle (`claude.rs:1965` against 1954): with a delete published, not recorded, and the
  same text written again elsewhere, the next cycle publishes a second delete.
- `pages_stop_in_pass`: a name stopped and synced again while a pass goes through its channel:
  the page on its way, or the end it comes to, is taken as the new holding's, and the name
  counts as fetched before it met the channel (`names.rs:1209`).
- `showing_not_applied`: a second change that can not be applied, or an apply of it, takes the place of the
  first in `not_applied`, and the device has leave without the first (`device_entries.rs:2798`
  against `leave.rs:40`).

Seen in the code, and modelled as it is, with no run of their own:

- A text put back by hand to what was agreed before counts as unedited and is replaced with no
  copy (`plan.rs:186` against `plan.rs:37`). `NoTextLost` lets it go as a text edited over.
- Between the last look and the rename of `write_atomic` a write can be replaced (`atomic.rs:52`
  against `claude.rs:2355`): the ghost `inGap` excepts exactly these from `NoTextLost`.
- A file can be written after the command that stops the folder was answered, since the count
  is read without the lock before a write (`claude.rs:2410` against 2364): `NothingAfterStop`
  allows that one write, and shows that it is the only one.
- A relay drops a channel and takes it again while the device's place there is forgotten: the next
  page is under a new mark with nothing to compare it to, so what was sent to the holding before
  still counts as sent (`at_relays.rs:664` against 620). `SentIsThere` is checked without this pair.
- After the store went back, a device that writes before it has read every relay (which the wait
  of `first_fetch_done` allows) can give a number again, and a clearing of the life before, held at
  the relay it did not read, then takes the new message off a reader (`sender.rs:1018` clears by
  number) days before its 30 are up (against `messages.rs:23` of cordelia-storage); sent again, it
  is not shown again there. `OneMessageOneNumber` and `LeavesInItsTime` except this (`hasty`).
- What a waiting change says of removals is kept at once only by a device that is applied
  (`know_what_is_shown` returns early otherwise): one closed by the change of a first relay does not
  keep at once what a second hands it, and is applied again once the first is, with the second
  still waiting its turn (against the comment at `device_entries.rs:2608`). It takes four devices,
  three changes and two relays, which is past the bounds of `showing`.

## 6. What is left out, and why

Of the modelled parts, section 2 says what each module leaves out; besides: the merge of the
index and its lines, put-backs after a removal, history, links and names that cannot be read,
several folders, file systems that fold case; deletes and removed devices in `Crossing`; in
`Lineage` the records of additions, secrets that do not open, and a change that undoes a removal
(refused); in `MessageRing` what its section says. Of the rest, `PROJECT.json` gives a reason for each component. Failures of the
disk or the database are met only as a node that stops, a file that is left, or an apply that fails.
Cryptography is taken as ideal: an entry is of the author it names.

## 7. The plan

Done: `Revision`, `Crossing`, `Slot`, `Plan`, `MemorySync`, `ToRead` and `RelayPages`, `Lineage`,
`Showing`, `MessageRing`, and their proofs. Next, the most important first:

1. **Names**: `names.rs`, `let_go.rs` and `own_read.rs`: the names a carry holds, and the read
   before one is let go, against relays that hold only part. Abstract: a version of a name is
   always at a device or a relay.
2. **Removal**: the cut and arrivals, put-backs, on top of `Lineage` and `Crossing`.
3. **IndexMerge**: `memory_md::merge` on sets of lines, and the looks of `claude/lines.rs`.
4. **HandOver**: adding a device; what is left at relays after a stop.
5. **History**, **Governor** with the tie of connections, then shared channels.

To prove next: `NoTextLost` with removals, and then stops, on top of `NothingIsLost` (what a chain
names was let go or is in a file, of any device), and `NoneUnapplied` with one relay and at most one
change that fails. Runs
to widen: three devices; two files in conflict at once; two devices that show step by step.
