---------------------------- MODULE MCRelayPages ----------------------------
(* Small instances of RelayPages.                                           *)
EXTENDS RelayPages

One == {1}
Two == {1, 2}
OneWrites == [d \in Devices |-> {1}]
LaterCounts == {[d \in Devices |-> IF d = 1 THEN {1} ELSE {}]}
AllCount == {[d \in Devices |-> Devices]}
OnlyOne == {OneWrites}

RoomForAll == [r \in Relays |-> 4]
RoomForTwo == [r \in Relays |-> 2]
OneIsFull == [r \in Relays |-> r]

Times(writes, these) ==
  [what \in Bounded |->
     IF what = "write" THEN writes ELSE IF what \in these THEN 1 ELSE 0]
ForRead == {Times(2, {"drop", "count"}), Times(2, {"relay sweep", "sweep"})}
ForSent == {Times(2, {"lost"}), Times(3, {"relay sweep", "lost"})}
ForStopped == {Times(4, {"stop", "lost"}), Times(2, {"restart"})}
ForStopInPass == {Times(2, {"stop"})}

(* The channel in use: device 1 wrote two files and deleted one of them,    *)
(* sent them and read to the end; device 2 has read nothing yet.  The       *)
(* authors that count are one of `first`.                                   *)
Row(rev, delete, place) == [rev |-> rev, delete |-> delete, place |-> place]
InUse(first) ==
  LET filled == [NoRows EXCEPT ![<<1, 1>>] = Row(1, FALSE, 1), ![<<2, 1>>] = Row(2, TRUE, 3)]
      read == [at |-> [mark |-> 1, place |-> 3], sentTo |-> 3, refused |-> {}]
  IN /\ relay = [r \in Relays |-> filled]
     /\ mark = [r \in Relays |-> 1]
     /\ marks = 1
     /\ store = [d \in Devices |-> IF d = 1 THEN filled ELSE NoRows]
     /\ seqs = [d \in Devices |-> IF d = 1 THEN 3 ELSE 0]
     /\ counts \in first
     /\ holds = [d \in Devices |-> TRUE]
     /\ kept = [d \in Devices |-> [r \in Relays |-> IF d = 1 THEN read ELSE NothingKept]]
     /\ fetched = [d \in Devices |-> IF d = 1 THEN Relays ELSE {}]
     /\ turn = [d \in Devices |-> [r \in Relays |-> Idle]]
     /\ owed = [d \in Devices |-> [r \in Relays |-> [k \in Keys |-> 0]]]
     /\ left \in Budgets

(* A channel to begin with, which the relay drops, and one in use, of which *)
(* deletes are swept.                                                       *)
Begun ==
  \/ Init /\ left["drop"] = 1
  \/ InUse({OneWrites}) /\ left["sweep"] = 1
SpecBegun == Begun /\ [][Next]_vars

(* A channel to begin with, and one in use at a relay that has no room left *)
(* until it sweeps the delete.                                              *)
BegunOrFull ==
  \/ Init /\ left["relay sweep"] = 0
  \/ InUse(CountFirst) /\ left["relay sweep"] = 1
FairBegun == BegunOrFull /\ [][Next]_vars /\ Fairness
=============================================================================
