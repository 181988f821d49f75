----------------------------- MODULE RelayPages -----------------------------
(* A channel of a name, as a person's devices send it to their relays and   *)
(* read it there in pages: crates/cordelia-storage/src/relay.rs at the      *)
(* relay, at_relays.rs of cordelia-storage and cordelia-api and             *)
(* cordelia-node/src/device_entries.rs at the device.                       *)
(*                                                                          *)
(* A relay gives each entry a place in its channel, above the highest there *)
(* is.  A device keeps for each relay how far it has read, as a place under *)
(* the mark of one holding, and how far it has sent, in its store's order.  *)
(* Entries are replaced, deletes are swept and channels dropped while pages *)
(* and answers are on their way.  A push carries one entry here: the code's *)
(* batch, written as one, is several with nothing in between.               *)
EXTENDS Naturals, FiniteSets

CONSTANTS
  Devices,      \* devices: each is the author of its own entries
  Relays,
  Slots,        \* the files of the name
  CountFirst,   \* the authors that count at each device at first, as it may be
  Room,         \* Room[r]: how many entries the relay has room for
  PageMost,     \* the most entries of a page
  TopRev,       \* bound on revisions
  Deletes,      \* whether what is written is a delete: a set of these
  Budgets,      \* bounds on the steps of Bounded, one for each mix of them
  StopsInPass   \* whether a name may be stopped while a pass goes through it

Keys == Slots \X Devices
SlotOf(k) == k[1]
AuthorOf(k) == k[2]
Bounded ==
  {"write", "drop", "relay sweep", "sweep", "count", "lost", "restart", "stop"}

ASSUME PagesAssumption ==
  /\ IsFiniteSet(Devices) /\ Devices # {}
  /\ IsFiniteSet(Slots) /\ Slots # {}
  /\ TopRev \in Nat /\ Room \in [Relays -> Nat] /\ PageMost \in Nat \ {0}
  /\ CountFirst \subseteq [Devices -> SUBSET Devices]
  /\ Budgets \subseteq [Bounded -> Nat]
  /\ Deletes \subseteq BOOLEAN /\ StopsInPass \in BOOLEAN

VARIABLES
  relay,    \* relay[r][k]: the relay's entry and its place, of rev 0 for none
  mark,     \* mark[r]: the mark of its holding, 0 where it holds no channel
  marks,    \* how many marks were made: none is made twice
  store,    \* store[d][k]: the device's entry, and its place in its own order
  seqs,     \* seqs[d]: how many entries its store has taken
  counts,   \* counts[d]: the authors that count at the device
  holds,    \* holds[d]: whether the device holds the name
  kept,     \* kept[d][r]: what the device keeps of the relay for the channel
  fetched,  \* fetched[d]: the relays the channel was read to the end at
  turn,     \* turn[d][r]: the device's turn at the relay, and what is asked
  owed,     \* ghost: owed[d][r][k], the relay's revision when d held the name
  left      \* how often each step of Bounded may still happen

dvars == <<store, seqs, counts, holds, fetched, owed>>
vars == <<relay, mark, marks, store, seqs, counts, holds, kept, fetched, turn,
          owed, left>>

NoRow == [rev |-> 0, delete |-> FALSE, place |-> 0]
NoRows == [k \in Keys |-> NoRow]
NoPlace == [mark |-> 0, place |-> 0]
NothingKept == [at |-> NoPlace, sentTo |-> 0, refused |-> {}]
NoPage == [mark |-> 0, next |-> 0, rows |-> NoRows]
NoEntry == [key |-> CHOOSE k \in Keys : TRUE, row |-> NoRow, room |-> TRUE]
TurnAt(at, again) ==
  [at |-> at, again |-> again, from |-> NoPlace, page |-> NoPage, entry |-> NoEntry]
Idle == TurnAt("idle", FALSE)

(* A row of a store has its place in the store's own order as its place.    *)
Rows == [rev : Nat, delete : BOOLEAN, place : Nat]
Places == [mark : Nat, place : Nat]
Ats == {"idle", "no", "pull", "asked", "page", "push", "sent", "answered"}

TypeOK ==
  /\ relay \in [Relays -> [Keys -> Rows]]
  /\ mark \in [Relays -> Nat]
  /\ marks \in Nat
  /\ store \in [Devices -> [Keys -> Rows]]
  /\ seqs \in [Devices -> Nat]
  /\ counts \in [Devices -> SUBSET Devices]
  /\ holds \in [Devices -> BOOLEAN]
  /\ kept \in [Devices -> [Relays ->
       [at : Places, sentTo : Nat, refused : SUBSET Nat]]]
  /\ fetched \in [Devices -> SUBSET Relays]
  /\ turn \in [Devices -> [Relays ->
       [at : Ats, again : BOOLEAN, from : Places,
        page : [mark : Nat, next : Nat, rows : [Keys -> Rows]],
        entry : [key : Keys, row : Rows, room : BOOLEAN]]]]
  /\ owed \in [Devices -> [Relays -> [Keys -> Nat]]]
  /\ left \in [Bounded -> Nat]

Spend(what) ==
  /\ left[what] > 0
  /\ left' = [left EXCEPT ![what] = @ - 1]

Present(rows) == {k \in Keys : rows[k].rev > 0}

HighestCounted(rows) == Cardinality(Present(rows))

(* The highest place there is: highest_place, 0 where nothing is held. *)
Highest(rows) ==
  CHOOSE p \in {rows[k].place : k \in Keys} : \A k \in Keys : rows[k].place <= p

(* The device has no turn at any relay. *)
NoTurns(d) == \A r \in Relays : turn[d][r] = Idle

Init ==
  /\ relay = [r \in Relays |-> NoRows]
  /\ mark = [r \in Relays |-> 0]
  /\ marks = 0
  /\ store = [d \in Devices |-> NoRows]
  /\ seqs = [d \in Devices |-> 0]
  /\ counts \in CountFirst
  /\ holds = [d \in Devices |-> TRUE]
  /\ kept = [d \in Devices |-> [r \in Relays |-> NothingKept]]
  /\ fetched = [d \in Devices |-> {}]
  /\ turn = [d \in Devices |-> [r \in Relays |-> Idle]]
  /\ owed = [d \in Devices |-> [r \in Relays |-> [k \in Keys |-> 0]]]
  /\ left \in Budgets

-----------------------------------------------------------------------------
(* The device's own entries.                                                *)

(* The entries of a file's version: those at the slot's highest revision.   *)
IsVersion(d, k) ==
  \A a \in Devices : store[d][<<SlotOf(k), a>>].rev <= store[d][k].rev

(* A folder's cycle publishes a file, or that it was deleted, one above     *)
(* everything the slot holds.  Its first cycle waits until each relay has   *)
(* handed the whole of the channel.                                         *)
Write(d, s, delete) ==
  /\ holds[d]
  /\ fetched[d] = Relays
  /\ d \in counts[d]
  /\ Spend("write")
  /\ delete => \E a \in Devices : store[d][<<s, a>>].rev > 0 /\ IsVersion(d, <<s, a>>)
                                  /\ ~store[d][<<s, a>>].delete
  /\ \E rev \in 1 .. TopRev :
       /\ \A a \in Devices : store[d][<<s, a>>].rev < rev
       /\ \E a \in Devices : store[d][<<s, a>>].rev = rev - 1
       /\ store' = [store EXCEPT ![d][<<s, d>>] =
            [rev |-> rev, delete |-> delete, place |-> seqs[d] + 1]]
  /\ seqs' = [seqs EXCEPT ![d] = @ + 1]
  /\ UNCHANGED <<relay, mark, marks, counts, holds, kept, fetched, turn, owed>>

(* The device sweeps the old deletes of a file: where its version is a      *)
(* delete that it has held long, and nothing but deletes came before that.  *)
(* The channel is then read again from the start, at every relay.           *)
SweepDeletes(d, s) ==
  /\ Spend("sweep")
  /\ \E gone \in SUBSET {k \in Present(store[d]) : SlotOf(k) = s /\ store[d][k].delete} :
       LET in == {k \in Present(store[d]) : SlotOf(k) = s}
           current == {k \in in : IsVersion(d, k)}
       IN /\ in # {}
          /\ current \subseteq gone
          /\ \A k \in in, c \in current :
               ~store[d][k].delete => store[d][c].place <= store[d][k].place
          /\ store' = [store EXCEPT ![d] =
               [k \in Keys |-> IF k \in gone THEN NoRow ELSE @[k]]]
  /\ kept' = [kept EXCEPT ![d] = [r \in Relays |-> [@[r] EXCEPT !.at = NoPlace]]]
  /\ UNCHANGED <<relay, mark, marks, seqs, counts, holds, fetched, turn, owed>>

(* A record read in another channel lets an author count: every place is    *)
(* forgotten, at every relay, and what was sent is kept as it is.           *)
ComeToCount(d, a) ==
  /\ Spend("count")
  /\ a \notin counts[d]
  /\ counts' = [counts EXCEPT ![d] = @ \cup {a}]
  /\ kept' = [kept EXCEPT ![d] = [r \in Relays |-> [@[r] EXCEPT !.at = NoPlace]]]
  /\ UNCHANGED <<relay, mark, marks, store, seqs, holds, fetched, turn, owed>>

KeptAsItWas(d) == kept[d]
FetchedAsItWas(d) == fetched[d]

(* What a stop leaves of what is kept of the relays, and of which of them   *)
(* handed the whole channel: nothing.                                       *)
KeptAfterStop(d) == [r \in Relays |-> NothingKept]

FetchedAfterStop(d) == {}

(* The name is stopped: its entries go, and all that is kept of them.  A    *)
(* pass that goes through the channel is not told.                          *)
Stop(d) ==
  /\ Spend("stop")
  /\ holds[d]
  /\ StopsInPass \/ NoTurns(d)
  /\ holds' = [holds EXCEPT ![d] = FALSE]
  /\ store' = [store EXCEPT ![d] = NoRows]
  /\ kept' = [kept EXCEPT ![d] = KeptAfterStop(d)]
  /\ fetched' = [fetched EXCEPT ![d] = FetchedAfterStop(d)]
  /\ UNCHANGED <<relay, mark, marks, seqs, counts, turn, owed>>

(* A folder comes to sync the name again: the name is held, and nothing     *)
(* that may have been kept of its channel is looked at.                     *)
HoldName(d) ==
  /\ ~holds[d]
  /\ holds' = [holds EXCEPT ![d] = TRUE]
  /\ owed' = [owed EXCEPT ![d] = [r \in Relays |-> [k \in Keys |->
       IF AuthorOf(k) \in counts[d] THEN relay[r][k].rev ELSE 0]]]
  /\ UNCHANGED <<relay, mark, marks, store, seqs, counts, kept, fetched, turn, left>>

(* The node stops and starts: what it has in memory is gone. *)
Restart(d) ==
  /\ Spend("restart")
  /\ turn' = [turn EXCEPT ![d] = [r \in Relays |-> Idle]]
  /\ fetched' = [fetched EXCEPT ![d] = {}]
  /\ UNCHANGED <<relay, mark, marks, store, seqs, counts, holds, kept, owed>>

-----------------------------------------------------------------------------
(* A turn at a relay: one at a time, while others of the same device go on  *)
(* at other relays.                                                         *)

Turns(d, r, at, again) == turn' = [turn EXCEPT ![d][r] = TurnAt(at, again)]

(* A whole pass proves the channel, unless it did within the day, and reads *)
(* it, or hears that the relay does not hold it; any other pass only sends. *)
(* `again` offers what was refused for room, which has to wait for that.    *)
Begin(d, r, at, again) ==
  /\ turn[d][r] = Idle
  /\ holds[d]
  /\ at = "no" => mark[r] = 0
  /\ again \/ kept[d][r].refused # {}
  /\ Turns(d, r, at, again)
  /\ UNCHANGED <<relay, mark, marks, dvars, kept, left>>

(* It does not hold it: nothing is kept of what it was sent, nor a place.   *)
NotHeldAt(d, r) ==
  /\ turn[d][r].at = "no"
  /\ kept' = [kept EXCEPT ![d][r] = NothingKept]
  /\ Turns(d, r, "pull", turn[d][r].again)
  /\ UNCHANGED <<relay, mark, marks, dvars, left>>

AskPage(d, r) ==
  /\ turn[d][r].at = "pull"
  /\ turn' = [turn EXCEPT ![d][r].at = "asked", ![d][r].from = kept[d][r].at]
  /\ UNCHANGED <<relay, mark, marks, dvars, kept, left>>

(* The pass has read as many pages as it may: it sends, and the rest is     *)
(* left for the next pass.                                                  *)
LeavePull(d, r) ==
  /\ turn[d][r].at = "pull"
  /\ Spend("lost")
  /\ Turns(d, r, "push", turn[d][r].again)
  /\ UNCHANGED <<relay, mark, marks, dvars, kept>>

(* The relay hands the next entries by their places, as many as the page    *)
(* has room for and one at least; from the start where the place is of      *)
(* another holding.                                                         *)
PageAfter(r, after, next) ==
  {k \in Present(relay[r]) : relay[r][k].place > after /\ relay[r][k].place <= next}

HandPage(d, r) ==
  LET t == turn[d][r]
      after == IF mark[r] = t.from.mark THEN t.from.place ELSE 0
      places == {relay[r][k].place : k \in Present(relay[r])}
  IN /\ t.at = "asked"
     /\ \/ /\ mark[r] = 0
           /\ turn' = [turn EXCEPT ![d][r].at = "page", ![d][r].page = NoPage]
        \/ /\ mark[r] # 0
           /\ \E next \in {after} \cup {p \in places : p > after} :
                /\ next = after => \A p \in places : p <= after
                /\ Cardinality(PageAfter(r, after, next)) <= PageMost
                /\ turn' = [turn EXCEPT ![d][r].at = "page", ![d][r].page =
                     [mark |-> mark[r], next |-> next, rows |->
                       [k \in Keys |-> IF k \in PageAfter(r, after, next)
                                       THEN relay[r][k] ELSE NoRow]]]
     /\ UNCHANGED <<relay, mark, marks, dvars, kept, left>>

TakenFirst(d, page) ==
  {k \in Present(page.rows) : holds[d] /\ AuthorOf(k) \in counts[d] /\ store[d][k].rev = 0}

(* What the one door lets in: the name is held, the author counts, and the  *)
(* store has an older one or none.                                          *)
Taken(d, page) ==
  {k \in Present(page.rows) :
     holds[d] /\ AuthorOf(k) \in counts[d] /\ page.rows[k].rev > store[d][k].rev}

SeqBack(d, page, k) == seqs[d] - Cardinality(Taken(d, page))

(* The place of each entry taken, in the store's own order: they are taken  *)
(* in the page's order.                                                     *)
SeqOf(d, page, k) ==
  seqs[d] + Cardinality({j \in Taken(d, page) : page.rows[j].place <= page.rows[k].place})

(* What is kept of the relay as its page is looked at: nothing, where the   *)
(* page is of another holding, or the relay says that it has none.          *)
AnotherHolding(at, page) ==
  /\ at.mark # 0
  /\ at.mark # page.mark
  /\ page.mark # 0 \/ Present(page.rows) = {}
KeptFor(d, r, page) ==
  IF AnotherHolding(kept[d][r].at, page) THEN NothingKept ELSE kept[d][r]

SentAll(d, r, page) == seqs[d] + Cardinality(Taken(d, page))

(* What the page brought need not be sent where nothing else waits there.   *)
SentAfterPage(d, r, page) ==
  LET sentTo == KeptFor(d, r, page).sentTo
      waiting == \E k \in Keys : store[d][k].place > sentTo
  IN IF waiting \/ Taken(d, page) = {} THEN sentTo
     ELSE seqs[d] + Cardinality(Taken(d, page))

KeptAfterPage(d, r, page) ==
  [at |-> IF page.mark = 0 THEN KeptFor(d, r, page).at
          ELSE [mark |-> page.mark, place |-> page.next],
   sentTo |-> SentAfterPage(d, r, page),
   refused |-> KeptFor(d, r, page).refused]

(* The places were forgotten since the page was asked for. *)
Stale(d, r) == turn[d][r].from # kept[d][r].at

(* The page is taken, in one transaction.  It moves no place where it is    *)
(* stale.  One with nothing in it that is not is the end of the channel.    *)
TakePage(d, r) ==
  LET t == turn[d][r]
      end == ~Stale(d, r) /\ Present(t.page.rows) = {}
  IN /\ t.at = "page"
     /\ store' = [store EXCEPT ![d] = [k \in Keys |->
          IF k \in Taken(d, t.page)
          THEN [t.page.rows[k] EXCEPT !.place = SeqOf(d, t.page, k)] ELSE @[k]]]
     /\ seqs' = [seqs EXCEPT ![d] = @ + Cardinality(Taken(d, t.page))]
     /\ kept' = [kept EXCEPT ![d][r] = IF Stale(d, r) THEN @ ELSE KeptAfterPage(d, r, t.page)]
     /\ fetched' = IF end THEN [fetched EXCEPT ![d] = @ \cup {r}] ELSE fetched
     /\ Turns(d, r, IF end THEN "push" ELSE "pull", t.again)
     /\ UNCHANGED <<relay, mark, marks, counts, holds, owed, left>>

(* What is sent next: the entry after what was sent, in the store's order,  *)
(* and behind those one that was refused for room and is held still.        *)
New(d, r) == {k \in Present(store[d]) : store[d][k].place > kept[d][r].sentTo}

Refused(d, r) == {k \in Present(store[d]) : store[d][k].place \in kept[d][r].refused}

ToSendOnce(d, r) ==
  {k \in New(d, r) : \A j \in New(d, r) : store[d][k].place <= store[d][j].place}

ToSend(d, r) ==
  IF New(d, r) # {}
  THEN {k \in New(d, r) : \A j \in New(d, r) : store[d][k].place <= store[d][j].place}
  ELSE IF turn[d][r].again THEN Refused(d, r) ELSE {}

Send(d, r) ==
  /\ turn[d][r].at = "push"
  /\ \E k \in ToSend(d, r) :
       turn' = [turn EXCEPT ![d][r].at = "sent",
                            ![d][r].entry = [key |-> k, row |-> store[d][k], room |-> TRUE]]
  /\ UNCHANGED <<relay, mark, marks, dvars, kept, left>>

(* Nothing is left to be sent now: the turn ends. *)
End(d, r) ==
  /\ turn[d][r].at = "push"
  /\ ToSend(d, r) = {}
  /\ turn' = [turn EXCEPT ![d][r] = Idle]
  /\ UNCHANGED <<relay, mark, marks, dvars, kept, left>>

(* One that replaces another is always taken; one that is new, where there  *)
(* is room.                                                                 *)
RoomFor(r, k) == relay[r][k].rev > 0 \/ Cardinality(Present(relay[r])) < Room[r]

(* The relay takes the entry where it is newer than its own, at the place   *)
(* above the highest.  The first begins a holding, under a mark of its own. *)
RelayTakes(d, r) ==
  LET e == turn[d][r].entry
      newer == e.row.rev > relay[r][e.key].rev
      room == RoomFor(r, e.key)
      new == mark[r] = 0 /\ newer /\ room
  IN /\ turn[d][r].at = "sent"
     /\ relay' = IF newer /\ room
                 THEN [relay EXCEPT ![r][e.key] =
                        [e.row EXCEPT !.place = Highest(relay[r]) + 1]]
                 ELSE relay
     /\ mark' = IF new THEN [mark EXCEPT ![r] = marks + 1] ELSE mark
     /\ marks' = IF new THEN marks + 1 ELSE marks
     /\ turn' = [turn EXCEPT ![d][r].at = "answered", ![d][r].entry.room = ~newer \/ room]
     /\ UNCHANGED <<dvars, kept, left>>

RefusedForgotten(d, r) == {}

(* What is refused for room, once the answer is taken: of what waits there, *)
(* only what is held still.                                                 *)
RefusedAfter(d, r) ==
  LET e == turn[d][r].entry
      there == {store[d][k].place : k \in Present(store[d])}
  IN IF e.room THEN kept[d][r].refused \ {e.row.place}
     ELSE (kept[d][r].refused \cap there) \cup {e.row.place}

(* The answer: how far the relay was sent the channel moves past the entry, *)
(* and one it had no room for is kept apart.                                *)
TakeAnswer(d, r) ==
  LET e == turn[d][r].entry
  IN /\ turn[d][r].at = "answered"
     /\ kept' = [kept EXCEPT
          ![d][r].sentTo = IF e.row.place > @ THEN e.row.place ELSE @,
          ![d][r].refused = RefusedAfter(d, r)]
     /\ Turns(d, r, "push", turn[d][r].again /\ e.room)
     /\ UNCHANGED <<relay, mark, marks, dvars, left>>

(* What is on its way is lost: the turn ends. *)
Fail(d, r) ==
  /\ turn[d][r].at \in {"asked", "page", "sent", "answered"}
  /\ Spend("lost")
  /\ turn' = [turn EXCEPT ![d][r] = Idle]
  /\ UNCHANGED <<relay, mark, marks, dvars, kept>>

-----------------------------------------------------------------------------
(* The relay's own.                                                         *)

(* It drops the channel: for room, or because nobody used it. *)
DropChannel(r) ==
  /\ Spend("drop")
  /\ mark[r] # 0
  /\ relay' = [relay EXCEPT ![r] = NoRows]
  /\ mark' = [mark EXCEPT ![r] = 0]
  /\ UNCHANGED <<marks, dvars, kept, turn>>

NotMoved(r, rest, last) == rest

(* The last entry that is left takes the highest place there was: no place  *)
(* is given twice in a holding.                                             *)
Moved(r, rest, last) == [rest EXCEPT ![last].place = Highest(relay[r])]

(* It sweeps each file of which it holds nothing but old deletes.  *)
RelaySweep(r) ==
  /\ Spend("relay sweep")
  /\ \E gone \in SUBSET Slots :
       LET rest == [k \in Keys |-> IF SlotOf(k) \in gone THEN NoRow ELSE relay[r][k]]
       IN /\ rest # relay[r]
          /\ \A k \in Present(relay[r]) : SlotOf(k) \in gone => relay[r][k].delete
          /\ \/ /\ Present(rest) = {}
                /\ relay' = [relay EXCEPT ![r] = rest]
                /\ mark' = [mark EXCEPT ![r] = 0]
             \/ \E last \in Present(rest) :
                  /\ \A k \in Keys : rest[k].place <= rest[last].place
                  /\ relay' = [relay EXCEPT ![r] = Moved(r, rest, last)]
                  /\ UNCHANGED mark
  /\ UNCHANGED <<marks, dvars, kept, turn>>

-----------------------------------------------------------------------------
OfTheDevice(d) ==
  \/ \E s \in Slots, delete \in Deletes : Write(d, s, delete)
  \/ \E s \in Slots : SweepDeletes(d, s)
  \/ \E a \in Devices : ComeToCount(d, a)
  \/ Stop(d) \/ HoldName(d) \/ Restart(d)

(* The steps of a turn that has begun. *)
TurnStep(d, r) ==
  \/ NotHeldAt(d, r)
  \/ AskPage(d, r) \/ HandPage(d, r) \/ TakePage(d, r)
  \/ Send(d, r) \/ RelayTakes(d, r) \/ TakeAnswer(d, r) \/ End(d, r)

Next ==
  \/ \E d \in Devices : OfTheDevice(d)
  \/ \E d \in Devices, r \in Relays :
       \/ \E at \in {"no", "pull", "push"}, again \in BOOLEAN : Begin(d, r, at, again)
       \/ TurnStep(d, r) \/ LeavePull(d, r) \/ Fail(d, r)
  \/ \E r \in Relays : DropChannel(r) \/ RelaySweep(r)

Spec == Init /\ [][Next]_vars

(* A turn that has begun goes on.  A whole pass, which waits for its turn   *)
(* while others send, gets it, and the channel is proved again after a day. *)
Fairness ==
  \A d \in Devices, r \in Relays :
    /\ WF_vars(TurnStep(d, r))
    /\ SF_vars(Begin(d, r, IF mark[r] = 0 THEN "no" ELSE "pull", TRUE))

-----------------------------------------------------------------------------
(* Properties.                                                              *)

(* The device holds what the row has for k, or something later. *)
Holds(d, k, rev) == store[d][k].rev >= rev

(* No entry is passed over: what lies at or before the place that a device  *)
(* keeps in a relay's holding, it holds at that revision or a later one,    *)
(* however entries were replaced and swept, places forgotten and pages      *)
(* handed and taken in between (take_page: "the place moves only past what  *)
(* the one door has dealt with").                                           *)
PassedOver(d, r, k) ==
  /\ relay[r][k].rev > 0
  /\ mark[r] = kept[d][r].at.mark
  /\ relay[r][k].place <= kept[d][r].at.place
NothingPassedOver ==
  \A d \in Devices, r \in Relays, k \in Keys :
    holds[d] /\ AuthorOf(k) \in counts[d] /\ PassedOver(d, r, k)
      => Holds(d, k, relay[r][k].rev)

(* Once the channel counts as read to its end at a relay, a folder that     *)
(* came to sync the name has met everything that the relay had then and has *)
(* still, but for deletes (names.rs, stop: "it waits for the channel to be  *)
(* fetched, and meets it as on any first sync").                            *)
MeetsTheChannel ==
  \A d \in Devices, r \in Relays, k \in Keys :
    /\ holds[d] /\ r \in fetched[d] /\ ~relay[r][k].delete
    /\ owed[d][r][k] > 0 /\ relay[r][k].rev = owed[d][r][k]
    => Holds(d, k, owed[d][r][k])

(* What a device counts as sent to the holding that a relay has now, the    *)
(* relay holds, in that entry or a later one, unless it had no room for it  *)
(* or it is a delete (take_page: a relay that dropped the channel "holds    *)
(* nothing of what it was sent before, so nothing is kept of that either"). *)
SentIsThere ==
  \A d \in Devices, r \in Relays, k \in Keys :
    /\ mark[r] # 0 /\ kept[d][r].at.mark = mark[r]
    /\ store[d][k].rev > 0 /\ ~store[d][k].delete
    /\ store[d][k].place <= kept[d][r].sentTo
    /\ store[d][k].place \notin kept[d][r].refused
    => relay[r][k].rev >= store[d][k].rev

(* A device gives no revision to a new text that an earlier entry of its    *)
(* own has elsewhere, though it stopped the name and came back to it: a     *)
(* relay would hold to the one and another device to the other (relay.rs:   *)
(* HeldAnother).                                                            *)
Elsewhere(d, k, rev) ==
  \/ \E r \in Relays : relay[r][k].rev >= rev
  \/ \E e \in Devices \ {d} : store[e][k].rev >= rev
  \/ \E e \in Devices, r \in Relays :
       \/ turn[e][r].page.rows[k].rev >= rev
       \/ turn[e][r].at = "sent" /\ turn[e][r].entry.key = k /\ turn[e][r].entry.row.rev >= rev
NoRevisionTwice ==
  [][\A d \in Devices, s \in Slots :
       (\E delete \in Deletes : Write(d, s, delete))
         => ~Elsewhere(d, <<s, d>>, store'[d][<<s, d>>].rev)]_vars

(* Once the writing, the drops and the failures are over, each device comes *)
(* to hold all that each relay has of the authors that count, and each      *)
(* relay all that each device holds but deletes, and but what it has no     *)
(* room for: what was refused is sent again once there is room.             *)
Read(d, r) ==
  \A k \in Keys : AuthorOf(k) \in counts[d] => Holds(d, k, relay[r][k].rev)
EachReads ==
  \A d \in Devices, r \in Relays : <>[](holds[d] => Read(d, r))
Sent(d, r) ==
  \A k \in Keys :
    ~store[d][k].delete /\ RoomFor(r, k) => relay[r][k].rev >= store[d][k].rev
EachSends ==
  \A d \in Devices, r \in Relays : <>[]Sent(d, r)

(* What is still to be read, as the device's place says it. *)
StillToRead(d, r) ==
  {k \in Present(relay[r]) :
     mark[r] = kept[d][r].at.mark => relay[r][k].place > kept[d][r].at.place}

(* The device's reading implements that nothing leaves what is to be read   *)
(* unread.                                                                  *)
Reading == INSTANCE ToRead WITH
  rows <- [r \in Relays |-> [k \in Keys |-> relay[r][k].rev]],
  held <- [d \in Devices |-> [k \in Keys |-> store[d][k].rev]],
  toRead <- [d \in Devices |-> [r \in Relays |-> StillToRead(d, r)]]
ImplementsToRead == Reading!Spec
=============================================================================
