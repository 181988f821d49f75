------------------------------ MODULE Showing ------------------------------
(* How changes reach devices: each device shows each of its relays what it  *)
(* keeps, a round of shows at a time and the relays apart, and a relay that *)
(* keeps every head hands back what the connection has not seen whole.  An  *)
(* answer to the change followed that says "nothing later" gives leave, and *)
(* with leave a device sends and reads there (device_entries.rs, leave.rs,  *)
(* relay.rs, relay_entries.rs).  What a device makes of a change handed is  *)
(* Lineage's.                                                               *)
EXTENDS Lineage

CONSTANTS
  Running,  \* the devices whose rounds of shows are followed step by step
  Relays,
  Budgets   \* bounds: the relays that are up, the devices where commands
            \* are given, and how often each fault comes

Faults == {"drop", "fail"}

ASSUME RunningAssumption == Running \subseteq Devices
ASSUME BudgetsAssumption == 
  Budgets \subseteq [up : SUBSET Relays, at : SUBSET Devices, left : [Faults -> Nat]]

VARIABLES
  held,     \* per relay: the heads it keeps in the person's slot
  told,     \* per device and relay: what the connection saw whole
  round,    \* per device and relay: the round of shows under way
  given,    \* per device and relay: the change that leave was given for, or 0
  waiting,  \* per device: the change it could not apply, or 0 (not_applied)
  budget,
  said      \* ghost, per device and relay: what it held when it said "held"

shows == <<held, told, round, given, waiting, budget, said>>
showVars == <<vars, shows>>

\* A round: what is shown, whether as the change followed, what the device
\* kept as it chose that, and what it was answered with (0: held or taken).
Idle == [ at |-> "idle", of |-> 0, due |-> FALSE, mine |-> {}, shown |-> {},
          handed |-> {}, got |-> 0 ]

----------------------------------------------------------------------------
(* The relay.                                                               *)

\* The heads that stay, the highest numbers first and at most MostHeads.
Stay(heads0) == {h \in heads0 : Cardinality({o \in heads0 : Outranks(o, h)}) < MostHeads}

KeepsBehind(kept, c) == IF BehindOneOf(c, kept) THEN kept ELSE Stay(kept \cup {c})

\* What a relay keeps once it is shown a change: nothing new where that is
\* behind a head, and else none that it was made after.
HeadsWith(kept, c) ==
  IF BehindOneOf(c, kept) THEN kept ELSE Stay((kept \ changes[c].chain) \cup {c})

Lowest(these) == CHOOSE h \in these : \A o \in these \ {h} :
  \/ changes[h].number < changes[o].number
  \/ changes[h].number = changes[o].number /\ h < o

\* It hands what the connection does not know, the lowest first, and only
\* then says whether it holds what it was shown.
AnswerTo(kept, known, c) ==
  LET others == {h \in kept \ known : h # c /\ h \notin changes[c].chain}
  IN IF others # {} THEN Lowest(others)
     ELSE IF c \in kept THEN 0
     ELSE Lowest({h \in kept : changes[h].number >= changes[c].number})

RelayAnswers(d, r) ==
  LET c == round[d][r].of
      kept == HeadsWith(held[r], c)
      got == AnswerTo(kept, told[d][r] \cup {c}, c)
  IN /\ round[d][r].at = "asked"
     /\ held' = [held EXCEPT ![r] = kept]
     /\ told' = [told EXCEPT ![d][r] = (@ \cup {c, got}) \ {0}]
     /\ round' = [round EXCEPT ![d][r].at = "answered", ![d][r].got = got]
     /\ said' = [said EXCEPT ![d][r] = IF round[d][r].due /\ got = 0 THEN kept ELSE @]
     /\ UNCHANGED <<vars, given, waiting, budget>>

----------------------------------------------------------------------------
(* The device's rounds.                                                     *)

\* The next show of a round, of a device that keeps these: the change it
\* follows where that is due, else each head once, and none ends the round.
NextShow(f, aside, due, shown, handed) ==
  IF due \/ aside \ shown # {}
  THEN [ at |-> "asked", of |-> IF due THEN f ELSE Lowest(aside \ shown), due |-> due,
         mine |-> aside \cup {f}, shown |-> shown, handed |-> handed, got |-> 0 ]
  ELSE Idle

ShowsNext(d, r, due, shown, handed) ==
  round' = [round EXCEPT ![d][r] = NextShow(follows[d], heads[d], due, shown, handed)]

Spend(f) == budget.left[f] > 0 /\ budget' = [budget EXCEPT !.left[f] = @ - 1]

\* A pass begins a round at each relay.  First it tries again what could not
\* be applied: where that waits still, it has failed again.
Begin(d, r) ==
  /\ Going(d) /\ round[d][r].at = "idle" /\ r \in budget.up
  /\ \/ waiting[d] = 0 /\ UNCHANGED budget
     \/ waiting[d] # 0 /\ Spend("fail")
  /\ ShowsNext(d, r, TRUE, {}, {})
  /\ UNCHANGED <<vars, held, told, given, waiting, said>>

\* What has been shown in a round once a show of it is answered.
ShownThen(now) == IF now.due THEN now.shown ELSE now.shown \cup {now.of}

\* Held, or taken: of the change followed, this gives leave.
TakeHeld(d, r) == LET now == round[d][r] IN
  /\ now.at = "answered" /\ now.got = 0
  /\ given' = IF now.due THEN [given EXCEPT ![d][r] = now.of] ELSE given
  /\ ShowsNext(d, r, FALSE, ShownThen(now), now.handed)
  /\ UNCHANGED <<vars, held, told, waiting, budget, said>>

\* A change handed ends the leave where it answers the one followed.
LeaveThen(d, r) ==
  given' = IF round[d][r].due THEN [given EXCEPT ![d][r] = 0] ELSE given

\* One that the device keeps: the change followed is shown again, but the
\* same one handed twice ends the round.
TakeKept(d, r) == LET now == round[d][r] IN
  /\ now.at = "answered" /\ now.got \in now.mine
  /\ LeaveThen(d, r)
  /\ IF now.got \in now.handed
     THEN round' = [round EXCEPT ![d][r] = Idle]
     ELSE ShowsNext(d, r, TRUE, ShownThen(now), now.handed \cup {now.got})
  /\ UNCHANGED <<vars, held, told, waiting, budget, said>>

IsJudged(d, c) == Going(d) /\ c \notin Keeps(d) /\ ~BehindOneOf(c, Keeps(d))

\* One that it would follow, or that would stop it: that is a change of
\* settings, which waits for the turn of the sync cycle.
WaitsItsTurn(d, c) ==
  /\ IsJudged(d, c)
  /\ \/ d \in changes[c].removes
     \/ Applies(d, c)
     \/ After(c, follows[d]) /\ d \notin changes[c].lists

KnowsLater(d, c) == UNCHANGED vars

\* What a change says of removals is kept at once, whatever waits.
KnowsAtOnce(d, c) ==
  IF state[d] = "applied" /\ d \notin changes[c].removes
  THEN KnowShown(d, c)
  ELSE UNCHANGED vars

IsHanded(now) == now.at = "answered" /\ now.got \notin now.mine \cup {0}

\* The answer waits for the turn, and the rounds at the other relays go on.
Wait(d, r) == LET now == round[d][r] IN
  /\ IsHanded(now) /\ WaitsItsTurn(d, now.got)
  /\ KnowsAtOnce(d, now.got)
  /\ LeaveThen(d, r)
  /\ round' = [round EXCEPT ![d][r].at = "judge"]
  /\ UNCHANGED <<held, told, waiting, budget, said>>

JudgedUnasked(d, c) == Follow(d, c, Apart(d, c)) /\ UNCHANGED <<changes, knows, prompt, seen>>

\* The one door: one kept by now, or shown to a device that stopped, is none.
Judged(d, c) == IF Going(d) /\ c \notin Keeps(d) THEN Hear(d, c) ELSE UNCHANGED vars

\* Whether a change is kept, applied or has closed the device as judged.
IsTaken(d, c) == IsJudged(d, c) /\ state'[d] \in {"applied", "closed"}

\* It is judged, at once or in its turn, and the round goes on under what is
\* kept by then; a change that is applied leaves none waiting.
Judge(d, r) ==
  LET now == round[d][r]
      due == IsTaken(d, now.got)
  IN /\ \/ now.at = "judge"
        \/ IsHanded(now) /\ ~WaitsItsTurn(d, now.got)
     /\ Judged(d, now.got)
     /\ LeaveThen(d, r)
     /\ round' = [round EXCEPT ![d][r] =
          IF now.due /\ ~due THEN Idle
          ELSE NextShow(follows'[d], heads'[d], due, ShownThen(now), now.handed \cup {now.got})]
     /\ waiting' = IF follows'[d] = now.got /\ due THEN [waiting EXCEPT ![d] = 0] ELSE waiting
     /\ UNCHANGED <<held, told, budget, said>>

CouldNotApplyHere(d, r) == LET now == round[d][r] IN
  /\ now.at = "judge" /\ Spend("fail")
  /\ round' = [round EXCEPT ![d][r] = Idle]
  /\ UNCHANGED <<vars, held, told, given, waiting, said>>

\* The device could not apply what it was handed: it waits, with no leave
\* anywhere, and the round goes on where a head was shown.
CouldNotApply(d, r) == LET now == round[d][r] IN
  /\ now.at = "judge" \/ IsHanded(now)
  /\ Spend("fail")
  /\ waiting' = [waiting EXCEPT ![d] = now.got]
  /\ LeaveThen(d, r)
  /\ IF now.due THEN round' = [round EXCEPT ![d][r] = Idle]
     ELSE ShowsNext(d, r, FALSE, ShownThen(now), now.handed \cup {now.got})
  /\ \/ UNCHANGED vars
     \/ KnowsAtOnce(d, now.got)
  /\ UNCHANGED <<held, told, said>>

TryForgets(d) ==
  /\ waiting[d] # 0
  /\ waiting' = [waiting EXCEPT ![d] = 0]
  /\ UNCHANGED <<vars, held, told, round, given, budget, said>>

\* At each pass it is tried again.
TryAgain(d) ==
  /\ waiting[d] # 0
  /\ Judged(d, waiting[d])
  /\ waiting' = [waiting EXCEPT ![d] = 0]
  /\ UNCHANGED <<held, told, round, given, budget, said>>

FailsAndKeeps(d, r) ==
  /\ round[d][r].at \in {"asked", "answered"} /\ Spend("drop")
  /\ round' = [round EXCEPT ![d][r] = Idle]
  /\ UNCHANGED <<vars, held, told, given, waiting, said>>

\* A show is not answered, or its answer is lost: the connection is closed,
\* and with it go the leave and what the relay remembers of it.
ShowFails(d, r) ==
  /\ round[d][r].at \in {"asked", "answered"} /\ Spend("drop")
  /\ round' = [round EXCEPT ![d][r] = Idle]
  /\ told' = [told EXCEPT ![d][r] = {}]
  /\ given' = [given EXCEPT ![d][r] = 0]
  /\ UNCHANGED <<vars, held, waiting, said>>

\* A relay refuses a show for now, before it takes or hands anything: the
\* round ends, and the connection and what leave it has stay.
RefusedForNow(d, r) ==
  /\ round[d][r].at = "asked" /\ Spend("drop")
  /\ round' = [round EXCEPT ![d][r] = Idle]
  /\ UNCHANGED <<vars, held, told, given, waiting, said>>

\* The node stops and starts: of all this it keeps nothing but its store.
Restart(d) ==
  /\ Spend("drop")
  /\ round' = [round EXCEPT ![d] = [r \in Relays |-> Idle]]
  /\ told' = [told EXCEPT ![d] = [r \in Relays |-> {}]]
  /\ given' = [given EXCEPT ![d] = [r \in Relays |-> 0]]
  /\ waiting' = [waiting EXCEPT ![d] = 0]
  /\ UNCHANGED <<vars, held, said>>

\* Of any other device, what its rounds do at a relay and what they bring it.
Visits(d, r) ==
  \/ /\ \E c \in Keeps(d) : held' = [held EXCEPT ![r] = HeadsWith(@, c)]
     /\ UNCHANGED <<vars, told, round, given, waiting, budget, said>>
  \/ /\ \E c \in held[r] : Hear(d, c)
     /\ UNCHANGED shows

\* A move waits for a turn of its own and may fail: the rounds go on
\* meanwhile under what is kept.  Once made, it is an apply.
Moves(d) ==
  /\ Move(d)
  /\ waiting' = [e \in Running |-> IF e = d THEN 0 ELSE waiting[e]]
  /\ UNCHANGED <<held, told, round, given, budget, said>>

\* What a command does of its own.
Commands(d) == (Ask(d) \/ Make(d) \/ NotMade(d)) /\ UNCHANGED shows

----------------------------------------------------------------------------
\* A channel in use: every relay that is up holds the first change.
ShowInit ==
  /\ Init /\ budget \in Budgets
  /\ held = [r \in Relays |-> {1}]
  /\ told = [d \in Running |-> [r \in Relays |-> {}]]
  /\ round = [d \in Running |-> [r \in Relays |-> Idle]]
  /\ given = [d \in Running |-> [r \in Relays |-> 0]]
  /\ waiting = [d \in Running |-> 0]
  /\ said = [d \in Running |-> [r \in Relays |-> {}]]

RoundStep(d, r) ==
  \/ Begin(d, r) \/ RelayAnswers(d, r)
  \/ TakeHeld(d, r) \/ TakeKept(d, r) \/ Wait(d, r) \/ Judge(d, r)

ShowNext ==
  \/ \E d \in budget.at : Commands(d)
  \/ \E d \in budget.at \cup Running : Moves(d)
  \/ \E d \in budget.at \ Running, r \in budget.up : Visits(d, r)
  \/ \E d \in Running : TryAgain(d) \/ Restart(d)
  \/ \E d \in Running, r \in Relays :
       RoundStep(d, r) \/ CouldNotApply(d, r) \/ ShowFails(d, r) \/ RefusedForNow(d, r)

ShowSpec == ShowInit /\ [][ShowNext]_showVars

\* Every relay that is up has its turn at each pass, and each pass moves the
\* device and tries again what it could not apply.
FairShowSpec ==
  /\ ShowSpec
  /\ \A d \in Running :
       /\ WF_showVars(Moves(d)) /\ WF_showVars(TryAgain(d))
       /\ \A r \in Relays : WF_showVars(RoundStep(d, r))

----------------------------------------------------------------------------
(* Properties.                                                              *)

\* A device may send to and read from a relay (Leave::has).
Has(d, r) ==
  state[d] = "applied" /\ waiting[d] = 0 /\ given[d][r] # 0 /\ given[d][r] = follows[d]

\* The shape of the state; and a relay's heads are apart, whatever it is
\* shown, by whom and in whatever order (decide of relay.rs).
RoundsOK ==
  /\ held \in [Relays -> SUBSET Made]
  /\ \A r \in Relays : held[r] # {} /\ Cardinality(held[r]) <= MostHeads
  /\ \A r \in Relays : \A a, b \in held[r] : a \notin changes[b].chain
  /\ told \in [Running -> [Relays -> SUBSET Made]]
  /\ round \in [Running -> [Relays -> [at : {"idle", "asked", "answered", "judge"},
       of : Made \cup {0}, due : BOOLEAN, mine : SUBSET Made, shown : SUBSET Made,
       handed : SUBSET Made, got : Made \cup {0}]]]
  /\ given \in [Running -> [Relays -> Made \cup {0}]]
  /\ waiting \in [Running -> Made \cup {0}]
  /\ said \in [Running -> [Relays -> SUBSET Made]]

\* A device that may use a relay knows the removals of every head that the
\* relay held when it said that it held nothing later (leave.rs, rule 18).
LeaveKnows ==
  \A d \in Running, r \in Relays : Has(d, r) =>
    \A c \in said[d][r] : changes[c].removes \subseteq knows[d]

\* A device that may use a relay has dealt with every change that any of its
\* connections handed it, but for one whose answer it has yet to judge: with
\* one that it could not apply it has no leave anywhere (leave.rs).
NoneUnapplied ==
  \A d \in Running, r, other \in Relays : Has(d, r) =>
    \A c \in told[d][other] :
      \/ BehindOneOf(c, Keeps(d))
      \/ round[d][other].at \in {"answered", "judge"} /\ round[d][other].got = c

\* While a change handed for the one that a device follows waits its turn,
\* the device uses no relay under the one it follows where a key that the
\* change removes holds the secret (rule 5).
WaitsClosed ==
  \A d \in Running, r, other \in Relays :
    LET now == round[d][r]
        c == changes[now.got]
    IN /\ now.at = "judge" /\ now.due /\ follows[d] = now.of
       /\ Has(d, other) /\ d \notin c.removes
       => c.removes \cap changes[now.of].lists = {}

\* A removal that a relay holds reaches every device that shows there: at
\* last none seals under a change whose secret the removed key holds.
HeldReaches ==
  \A k \in Devices, r \in Relays :
    (\E c \in held[r] : k \in changes[c].removes)
      ~> \A d \in Running : state[d] = "applied" => k \notin changes[follows[d]].lists

\* What reaches devices so is what Lineage lets them be shown.
ImplementsLineage == Spec
=============================================================================
