---------------------------- MODULE MessageRing -----------------------------
(* Messages of one device to the person's other devices:                    *)
(* crates/cordelia-api/src/sender.rs and reader.rs, and messages.rs of      *)
(* cordelia-storage and cordelia-crypto.                                    *)
(*                                                                          *)
(* A message is an entry of its sender's, under a number that says its slot *)
(* in a ring and its revision.  The sender keeps it apart until each relay  *)
(* has taken it, and writes it again under the next number where a relay    *)
(* turns out to hold another of its entries there: one that it wrote before *)
(* its store went back to an earlier copy.  A message is its time of        *)
(* sending: 1 is the first sent, and the 30 days of the first are up first. *)
(* Entries are pushed and pulled one at a time, in any order: RelayPages is *)
(* about pages and places.  One generation of the channel is followed, and  *)
(* only messages: no list of what was read, no rate of an hour, no relay    *)
(* without room.                                                            *)
EXTENDS Naturals, FiniteSets

CONSTANTS
  Relays,    \* the relays that the sender is set up with
  Readers,   \* the person's other devices
  Ring,      \* AGENT_MESSAGE_RING (64)
  SendsMost, \* AGENT_MESSAGE_SENDS_MAX (4)
  TopNumber, \* AGENT_MESSAGE_NUMBER_MAX (2^42 - 1)
  SentMost,  \* bound on the messages sent
  Budgets    \* bounds on the steps of Bounded, one for each mix of them

Bounded == {"send", "copy", "back", "restart", "late", "expire", "hand on"}

ASSUME RingAssumption ==
  /\ IsFiniteSet(Relays) /\ Relays # {}
  /\ Ring \in Nat \ {0} /\ SendsMost \in Nat \ {0} /\ TopNumber \in Nat
  /\ SentMost \in Nat
  /\ Budgets \subseteq [Bounded -> Nat]

VARIABLES
  relay,    \* relay[r][s]: the sender's entry in slot s of its ring
  own,      \* the sender's store
  copy,     \* an earlier copy of it, which it may go back to
  fetched,  \* the relays it read to the end since it started
  answer,   \* answer[r]: what a relay answered of a push, on its way
  reader,   \* reader[x]: the store of another device
  sent,     \* how many messages were sent
  expired,  \* how many of those have had their 30 days
  had,      \* ghost: had[r], the messages that the relay ever took
  hasty,    \* ghost: a message was written before each relay was read
  left      \* how often each step of Bounded may still happen

vars == <<relay, own, copy, fetched, answer, reader, sent, expired, had, hasty, left>>

Slots == 0 .. Ring - 1
SlotOf(n) == n % Ring
Numbers == 1 .. TopNumber
Messages == 1 .. SentMost

(* An entry of number 0 is none; a clearing holds no message.               *)
Nothing == [number |-> 0, clears |-> FALSE, message |-> 0]
MessageAt(n, m) == [number |-> n, clears |-> FALSE, message |-> m]
ClearingOf(n) == [number |-> n, clears |-> TRUE, message |-> 0]
Entries == [number : {0} \cup Numbers, clears : BOOLEAN, message : {0} \cup Messages]

(* By revision: twice the number, and one more for its clearing.            *)
Above(e, f) ==
  \/ e.number > f.number
  \/ e.number = f.number /\ e.clears /\ ~f.clears

(* What a device keeps of the sender's messages: the entries, the highest   *)
(* number held, of each live number the message first held at it (0 for a   *)
(* clearing), and of each message of its index the live numbers it is at.   *)
Index ==
  [ring : [Slots -> Entries], highest : Nat,
   first : SUBSET (Nat \X Nat), numbers : SUBSET (Numbers \X Messages)]
NoIndex ==
  [ring |-> [s \in Slots |-> Nothing], highest |-> 0, first |-> {}, numbers |-> {}]

Rows(x) == {p[2] : p \in x.numbers}
IsLive(n, highest) == n + Ring > highest

(* The sender keeps besides, of each message it sent that not every relay   *)
(* took, the numbers it went under; which of these wait to be sent again;   *)
(* the relays that took each; the messages that may not have reached every  *)
(* relay; and the slots to push to each relay.                              *)
Kept == [under : [Messages -> SUBSET Numbers], again : SUBSET Messages,
         taken : [Messages -> SUBSET Relays], unsure : SUBSET Messages,
         unsent : [Relays -> SUBSET Slots]]
Store == [index : Index, kept : Kept]
NoStore ==
  [index |-> NoIndex,
   kept |-> [under |-> [m \in Messages |-> {}], again |-> {},
             taken |-> [m \in Messages |-> {}], unsure |-> {},
             unsent |-> [r \in Relays |-> {}]]]
NoAnswer == [to |-> Nothing, says |-> "none"]
Answers == [to : Entries, says : {"none", "holds", "later", "another"}]

TypeOK ==
  /\ relay \in [Relays -> [Slots -> Entries]]
  /\ own \in Store /\ copy \in Store
  /\ fetched \subseteq Relays
  /\ answer \in [Relays -> Answers]
  /\ reader \in [Readers -> Index]
  /\ sent \in Nat /\ expired \in Nat
  /\ had \in [Relays -> SUBSET Messages]
  /\ hasty \in BOOLEAN
  /\ left \in [Bounded -> Nat]

Init ==
  /\ relay = [r \in Relays |-> [s \in Slots |-> Nothing]]
  /\ own = NoStore /\ copy = NoStore
  /\ fetched = {}
  /\ answer = [r \in Relays |-> NoAnswer]
  /\ reader = [x \in Readers |-> NoIndex]
  /\ sent = 0 /\ expired = 0
  /\ had = [r \in Relays |-> {}]
  /\ hasty = FALSE
  /\ left \in Budgets

Spend(what) ==
  /\ left[what] > 0
  /\ left' = [left EXCEPT ![what] = @ - 1]

-----------------------------------------------------------------------------
(* The index of a device.                                                   *)

(* A row that goes takes its rows of numbers with it. *)
Without(x, gone) == [x EXCEPT !.numbers = {p \in @ : p[2] \notin gone}]

(* Mutated form of Hold: the oldest live number counts as gone.             *)
HoldShort(x, n) ==
  IF n <= x.highest THEN x
  ELSE [x EXCEPT !.highest = n,
                 !.first = {p \in @ : IsLive(p[1], n + 1)},
                 !.numbers = {p \in @ : IsLive(p[1], n + 1)}]

(* A number is held: above the highest, it takes from the rows what is live *)
(* no longer, and the row of a message left at no number.                   *)
Hold(x, n) ==
  IF n <= x.highest THEN x
  ELSE [x EXCEPT !.highest = n,
                 !.first = {p \in @ : IsLive(p[1], n)},
                 !.numbers = {p \in @ : IsLive(p[1], n)}]

(* A message is written into the index at a live number, once for each      *)
(* number; one whose row has gone is not shown again.                       *)
IndexAt(x, n, m) ==
  LET known == \E p \in x.first : p[2] = m
  IN IF \E p \in x.first : p[1] = n THEN x
     ELSE [x EXCEPT !.first = @ \cup {<<n, m>>},
                    !.numbers = IF m \in Rows(x) \/ ~known
                                THEN @ \cup {<<n, m>>} ELSE @]

(* A clearing takes the row of the message held at its number, whichever    *)
(* other numbers that is at, and leaves the number held.                    *)
Clear(x, n) ==
  Without([x EXCEPT !.first = IF \E p \in @ : p[1] = n THEN @ ELSE @ \cup {<<n, 0>>}],
          {m \in Rows(x) : <<n, m>> \in x.numbers})

(* Mutated form of Take: a clearing is read as a message. *)
TakeUncleared(x, s, e) ==
  LET in == [x EXCEPT !.ring[s] = e]
      held == Hold(in, e.number)
  IN IF ~IsLive(e.number, held.highest) THEN in ELSE IndexAt(held, e.number, e.message)

(* The door keeps an entry above its own in the slot, and the reader reads  *)
(* it where its number is live.                                             *)
Take(x, s, e) ==
  LET in == [x EXCEPT !.ring[s] = e]
      held == Hold(in, e.number)
  IN IF ~IsLive(e.number, held.highest) THEN in
     ELSE IF e.clears THEN Clear(held, e.number)
     ELSE IndexAt(held, e.number, e.message)

Expired == 1 .. expired

-----------------------------------------------------------------------------
(* What the sender keeps.                                                   *)

IsKept(k, m) == k.under[m] # {}

(* Messages that are kept no longer: the index says of each, where it has a *)
(* row, that it may not have reached every relay, unless all took it.       *)
Drop(o, gone, everywhere) ==
  [o EXCEPT
     !.kept.under = [m \in Messages |-> IF m \in gone THEN {} ELSE @[m]],
     !.kept.taken = [m \in Messages |-> IF m \in gone THEN {} ELSE @[m]],
     !.kept.again = @ \ gone,
     !.kept.unsure = IF everywhere THEN @ ELSE @ \cup (gone \cap Rows(o.index))]

DropExpired(o) == Drop(o, {m \in Expired \cap Messages : IsKept(o.kept, m)}, FALSE)

(* Where more are kept than the ring has numbers, the oldest goes. *)
DropOldest(o) ==
  LET kept == {m \in Messages : IsKept(o.kept, m)}
  IN IF Cardinality(kept) <= Ring THEN o
     ELSE Drop(o, {m \in kept : \A j \in kept : m <= j}, FALSE)

(* The next number: one above every number in its own ring, none where that *)
(* would be above the highest there is.                                     *)
IsNext(x, n) ==
  /\ n \in Numbers
  /\ \A s \in Slots : x.ring[s].number < n
  /\ n = 1 \/ \E s \in Slots : x.ring[s].number + 1 = n

MaybeNext == 1 .. TopNumber + 1
NoneNext(x) == ~\E n \in MaybeNext : IsNext(x, n)

(* A message is written under a number, and goes to every relay. *)
Write(o, n, m) ==
  [o EXCEPT
     !.index = IndexAt(Hold([@ EXCEPT !.ring[SlotOf(n)] = MessageAt(n, m)], n), n, m),
     !.kept.unsent = [r \in Relays |-> @[r] \cup {SlotOf(n)}]]

KeepUnder(o, n, m) ==
  [o EXCEPT !.kept.under[m] = @ \cup {n}, !.kept.again = @ \ {m}]

(* The newest number a kept message was sent under. *)
IsNewest(k, m, n) == n \in k.under[m] /\ \A j \in k.under[m] : j <= n

-----------------------------------------------------------------------------
(* The sender.  It writes nothing before its first fetch: the channel was   *)
(* read to its end at every relay, or at one and the wait for the others is *)
(* over.                                                                    *)
FirstFetchDone == fetched # {}

Wrote == hasty' = (hasty \/ fetched # Relays)

Send ==
  LET m == sent + 1
  IN /\ FirstFetchDone
     /\ m \in Messages
     /\ Spend("send")
     /\ sent' = m
     /\ \E n \in MaybeNext :
          /\ IsNext(own.index, n)
          /\ own' = DropOldest(KeepUnder(DropExpired(Write(own, n, m)), n, m))
     /\ Wrote
     /\ UNCHANGED <<relay, copy, fetched, answer, reader, expired, had>>

(* Messages that wait are written again, the oldest first, each under the   *)
(* next number; one that has had its numbers is kept no longer.  The code   *)
(* writes as many in one transaction as the hour has room for; one here.    *)
(* What has expired goes first, and alone where nothing is written.         *)
WriteAgain ==
  LET o == DropExpired(own)
  IN /\ FirstFetchDone
     /\ \/ o # own /\ own' = o /\ UNCHANGED hasty
        \/ \E m \in o.kept.again :
             /\ \A j \in o.kept.again : m <= j
             /\ \/ /\ Cardinality(o.kept.under[m]) < SendsMost
                   /\ \E n \in MaybeNext :
                        /\ IsNext(o.index, n)
                        /\ own' = KeepUnder(Write(o, n, m), n, m)
                   /\ Wrote
                \/ /\ Cardinality(o.kept.under[m]) >= SendsMost \/ NoneNext(o.index)
                   /\ own' = Drop(o, {m}, FALSE)
                   /\ UNCHANGED hasty
     /\ UNCHANGED <<relay, copy, fetched, answer, reader, sent, expired, had, left>>

(* Mutated form of TakenEverywhere: one relay is enough. *)
TakenSomewhere ==
  LET gone == {m \in Messages : IsKept(own.kept, m) /\ own.kept.taken[m] # {}}
  IN /\ gone # {}
     /\ own' = Drop(own, gone, TRUE)
     /\ UNCHANGED <<relay, copy, fetched, answer, reader, sent, expired, had, hasty, left>>

(* What every relay took is kept no longer. *)
TakenEverywhere ==
  LET gone == {m \in Messages : IsKept(own.kept, m) /\ own.kept.taken[m] = Relays}
  IN /\ gone # {}
     /\ own' = Drop(own, gone, TRUE)
     /\ UNCHANGED <<relay, copy, fetched, answer, reader, sent, expired, had, hasty, left>>

(* The hourly task: what has expired goes from the index, and where the     *)
(* channel was fetched the slots that still hold it are cleared, and what   *)
(* is kept of it goes.                                                      *)
Clears(o, cleared) ==
  [o EXCEPT
     !.index.ring = [s \in Slots |-> IF s \in cleared THEN ClearingOf(@[s].number) ELSE @[s]],
     !.index.first = @ \cup
       {<<o.index.ring[s].number, 0>> : s \in {c \in cleared :
          ~\E p \in o.index.first : p[1] = o.index.ring[c].number}},
     !.kept.unsent = [r \in Relays |-> @[r] \cup cleared]]

Hourly ==
  LET dropped == [own EXCEPT !.index = Without(@, Expired)]
      cleared == {s \in Slots : own.index.ring[s].message \in Expired}
      tidied == IF FirstFetchDone THEN DropExpired(Clears(dropped, cleared)) ELSE dropped
  IN /\ tidied # own
     /\ own' = tidied
     /\ UNCHANGED <<relay, copy, fetched, answer, reader, sent, expired, had, hasty, left>>

(* A page brings an entry above the sender's own.  One that comes over the  *)
(* newest number of a message that is kept has it wait to be sent again.    *)
(* What it brought goes to the other relays, and to this one where          *)
(* something else waits for it.                                             *)
TakenOver(k, s) ==
  {m \in Messages : \E n \in k.under[m] : IsNewest(k, m, n) /\ SlotOf(n) = s}

Pull(r) ==
  /\ \E s \in Slots :
       /\ Above(relay[r][s], own.index.ring[s])
       /\ own' = [own EXCEPT
            !.index = Take(@, s, relay[r][s]),
            !.kept.again = @ \cup TakenOver(own.kept, s),
            !.kept.unsent = [q \in Relays |->
               IF q = r /\ @[q] = {} THEN {} ELSE @[q] \cup {s}]]
  /\ UNCHANGED <<relay, copy, fetched, answer, reader, sent, expired, had, hasty, left>>

(* Mutated form of ReadToEnd: the first page is enough. *)
ReadOnce(r) ==
  /\ r \notin fetched
  /\ fetched' = fetched \cup {r}
  /\ UNCHANGED <<relay, own, copy, answer, reader, sent, expired, had, hasty, left>>

(* The relay has nothing that the sender has not: it was read to the end. *)
ReadToEnd(r) ==
  /\ r \notin fetched
  /\ \A s \in Slots : ~Above(relay[r][s], own.index.ring[s])
  /\ fetched' = fetched \cup {r}
  /\ UNCHANGED <<relay, own, copy, answer, reader, sent, expired, had, hasty, left>>

Took(r, e) == had' = [had EXCEPT ![r] = IF e.clears THEN @ ELSE @ \cup {e.message}]

(* Mutated form of Says: an entry of the same revision counts as held. *)
SaysByRevision(e, f) == IF Above(f, e) THEN "later" ELSE "holds"

(* What a relay answers of an entry, where it has f in the slot.  The two   *)
(* clearings of a number are told apart by no one here.                     *)
Says(e, f) ==
  IF Above(e, f) \/ e = f THEN "holds" ELSE IF Above(f, e) THEN "later" ELSE "another"

(* Mutated form of TakeAnswer: another entry under the number is let be. *)
TakeAnswerOnce(o, r, e, says) ==
  LET at == {m \in Messages : ~e.clears /\ e.number \in o.kept.under[m]}
      s == SlotOf(e.number)
  IN [o EXCEPT
       !.kept.taken = [m \in Messages |->
          IF m \in at /\ says = "holds" THEN @[m] \cup {r} ELSE @[m]],
       !.kept.unsent[r] = IF o.index.ring[s] = e THEN @ \ {s} ELSE @]

(* The answer is taken: the message kept under the entry's number was taken *)
(* there, or waits to be sent again where the relay holds another at its    *)
(* newest number.  Where the slot holds a newer entry since, that waits.    *)
TakeAnswer(o, r, e, says) ==
  LET at == {m \in Messages : ~e.clears /\ e.number \in o.kept.under[m]}
      s == SlotOf(e.number)
  IN [o EXCEPT
       !.kept.taken = [m \in Messages |->
          IF m \in at /\ says = "holds" THEN @[m] \cup {r} ELSE @[m]],
       !.kept.again = @ \cup
          {m \in at : says = "another" /\ IsNewest(o.kept, m, e.number)},
       !.kept.unsent[r] = IF o.index.ring[s] = e THEN @ \ {s} ELSE @]

(* An entry is pushed, and the relay takes it above its own: the answer is  *)
(* taken at once, or is on its way while the sender goes on.                *)
Push(r) ==
  /\ answer[r] = NoAnswer
  /\ \E s \in own.kept.unsent[r] :
       LET e == own.index.ring[s]
           says == Says(e, relay[r][s])
       IN /\ IF Above(e, relay[r][s])
             THEN relay' = [relay EXCEPT ![r][s] = e] /\ Took(r, e)
             ELSE UNCHANGED <<relay, had>>
          /\ \/ /\ own' = TakeAnswer(own, r, e, says)
                /\ UNCHANGED <<answer, left>>
             \/ /\ Spend("late")
                /\ answer' = [answer EXCEPT ![r] = [to |-> e, says |-> says]]
                /\ UNCHANGED own
  /\ UNCHANGED <<copy, fetched, reader, sent, expired, hasty>>

Answered(r) ==
  /\ answer[r] # NoAnswer
  /\ answer' = [answer EXCEPT ![r] = NoAnswer]
  /\ own' = TakeAnswer(own, r, answer[r].to, answer[r].says)
  /\ UNCHANGED <<relay, copy, fetched, reader, sent, expired, had, hasty, left>>

(* The answer is lost: the push is made again. *)
Lose(r) ==
  /\ answer[r] # NoAnswer
  /\ answer' = [answer EXCEPT ![r] = NoAnswer]
  /\ UNCHANGED <<relay, own, copy, fetched, reader, sent, expired, had, hasty, left>>

(* The node stops and starts. *)
Restart ==
  /\ Spend("restart")
  /\ fetched' = {}
  /\ answer' = [r \in Relays |-> NoAnswer]
  /\ UNCHANGED <<relay, own, copy, reader, sent, expired, had, hasty>>

(* A copy is made of the store, and the store goes back to it. *)
Copy ==
  /\ Spend("copy")
  /\ copy' = own
  /\ UNCHANGED <<relay, own, fetched, answer, reader, sent, expired, had, hasty>>

GoBack ==
  /\ Spend("back")
  /\ own' = copy
  /\ fetched' = {}
  /\ answer' = [r \in Relays |-> NoAnswer]
  /\ UNCHANGED <<relay, copy, reader, sent, expired, had, hasty>>

-----------------------------------------------------------------------------
(* The other devices, which hand on to each relay what they hold.           *)

ReaderPull(x, r) ==
  /\ \E s \in Slots :
       /\ Above(relay[r][s], reader[x].ring[s])
       /\ reader' = [reader EXCEPT ![x] = Take(@, s, relay[r][s])]
  /\ UNCHANGED <<relay, own, copy, fetched, answer, sent, expired, had, hasty, left>>

ReaderPush(x, r) ==
  /\ \E s \in Slots :
       /\ Above(reader[x].ring[s], relay[r][s])
       /\ relay' = [relay EXCEPT ![r][s] = reader[x].ring[s]]
       /\ Took(r, reader[x].ring[s])
  /\ Spend("hand on")
  /\ UNCHANGED <<own, copy, fetched, answer, reader, sent, expired, hasty>>

ReaderHourly(x) ==
  /\ Without(reader[x], Expired) # reader[x]
  /\ reader' = [reader EXCEPT ![x] = Without(@, Expired)]
  /\ UNCHANGED <<relay, own, copy, fetched, answer, sent, expired, had, hasty, left>>

(* The 30 days of the oldest message are up. *)
Expire ==
  /\ Spend("expire")
  /\ expired < sent
  /\ expired' = expired + 1
  /\ UNCHANGED <<relay, own, copy, fetched, answer, reader, sent, had, hasty>>

Next ==
  \/ Send \/ WriteAgain \/ TakenEverywhere \/ Hourly
  \/ \E r \in Relays : Pull(r) \/ ReadToEnd(r) \/ Push(r) \/ Answered(r) \/ Lose(r)
  \/ Restart \/ Copy \/ GoBack \/ Expire
  \/ \E x \in Readers : ReaderHourly(x) \/ \E r \in Relays : ReaderPull(x, r) \/ ReaderPush(x, r)

Spec == Init /\ [][Next]_vars

FairSpec ==
  /\ Spec
  /\ WF_vars(WriteAgain)
  /\ \A r \in Relays :
       WF_vars(Pull(r)) /\ WF_vars(ReadToEnd(r)) /\ WF_vars(Push(r)) /\ WF_vars(Answered(r))
  /\ \A x \in Readers, r \in Relays : WF_vars(ReaderPull(x, r))

-----------------------------------------------------------------------------
(* Properties.                                                              *)

Rings ==
  {own.index.ring} \cup {reader[x].ring : x \in Readers} \cup {relay[r] : r \in Relays}

(* No two devices or relays ever hold two messages under one number, though *)
(* the sender's store went back, where each message was written after every *)
(* relay was read to its end.                                               *)
OneMessageOneNumber ==
  hasty \/
  \A a, b \in Rings, s \in Slots :
    a[s].number = b[s].number /\ ~a[s].clears /\ ~b[s].clears => a[s] = b[s]

(* What counts as taken by a relay was taken there: the message itself, and *)
(* no other that went under one of its numbers.                             *)
TakenIsThere ==
  \A m \in Messages, r \in Relays : r \in own.kept.taken[m] => m \in had[r]

(* A message is kept until it is at every relay, until its index says that  *)
(* it may not be, or until it is shown no more: its 30 days are up, or its  *)
(* numbers are overwritten; or until the store goes back.                   *)
KeptUntilTaken ==
  [][\A m \in Messages :
       IsKept(own.kept, m) /\ ~IsKept(own.kept', m) =>
         \/ \A r \in Relays : m \in had[r]
         \/ m \in own.kept.unsure'
         \/ m \notin Rows(own.index)'
         \/ m \in Expired
         \/ own' = copy]_vars

(* A message at a live number leaves no reader before its 30 days are up,   *)
(* whatever is cleared: where no number was written twice.                  *)
LeavesInItsTime ==
  [][hasty \/
     \A x \in Readers : \A m \in Rows(reader[x]) \ Rows(reader[x])' :
       \/ m \in Expired
       \/ \A p \in reader[x].numbers :
            p[2] = m => ~IsLive(p[1], reader[x].highest')]_vars

(* A message of the sender's comes to be in the index of every other device *)
(* while its own shows it, or its own says that it may not have reached     *)
(* every relay: through lost answers, numbers taken and stores gone back.   *)
Reaches ==
  \A m \in Messages, x \in Readers :
    m \in Rows(own.index) ~>
      \/ m \in Rows(reader[x])
      \/ m \notin Rows(own.index)
      \/ m \in own.kept.unsure
      \/ m \in Expired
=============================================================================
