-------------------------- MODULE MemorySyncProofs --------------------------
(***************************************************************************)
(* What holds of MemorySync for every number of devices, names, texts and  *)
(* revisions, whatever is removed, crashes, stops or goes, but for what a  *)
(* theorem leaves out by an assumption of its own.                         *)
(***************************************************************************)
EXTENDS MemorySync, SequenceTheorems, TLAPS

-----------------------------------------------------------------------------
(***************************************************************************)
(* Slots.                                                                  *)
(***************************************************************************)
\* A chain that is cut is a chain.
LEMMA CutTyped ==
  ASSUME NEW links \in Seq(Values)
  PROVE  Cut(links) \in Chain
<1>1. CASE Len(links) <= MaxLinks
  BY <1>1 DEF Cut, Chain
<1>2. CASE ~(Len(links) <= MaxLinks)
  <2>1. Len(links) \in Nat /\ MaxLinks \in Nat \ {0} /\ MaxLinks <= Len(links)
    BY <1>2, SlotAssumption, LenProperties
  <2>2. /\ SubSeq(links, 1, MaxLinks) \in Seq(Values)
        /\ Len(SubSeq(links, 1, MaxLinks)) = MaxLinks
    <3>1. 1 \in 1 .. Len(links) + 1 /\ MaxLinks \in 1 - 1 .. Len(links)
      BY <2>1
    <3> QED
      BY <2>1, <3>1, SubSeqProperties
  <2> QED
    BY <1>2, <2>1, <2>2 DEF Cut, Chain
<1> QED
  BY <1>1, <1>2

\* So is one cut from two put together.
LEMMA CutOfTwo ==
  ASSUME NEW s \in Chain, NEW t \in Chain
  PROVE  Cut(s \o t) \in Chain
<1>1. s \o t \in Seq(Values)
  BY ConcatProperties DEF Chain
<1> QED
  BY <1>1, CutTyped

LEMMA WrittenOverTyped ==
  ASSUME NEW val \in Values, NEW links \in Chain
  PROVE  WrittenOver(val, links) \in Chain
<1>1. <<val>> \in Seq(Values) /\ links \in Seq(Values)
  BY DEF Chain
<1>2. <<val>> \o links \in Seq(Values)
  BY <1>1, ConcatProperties
<1> QED
  BY <1>2, CutTyped DEF WrittenOver

LEMMA NoneTyped ==
  /\ <<>> \in Chain
  /\ NoText \in Values
  /\ NoRecord \in Records
  /\ NoCopy.copy = 0
BY SlotAssumption DEF Chain, Values, Records, NoCopy

LEMMA StoreTyped ==
  ASSUME NEW slot \in SUBSET Entry, NEW e \in Entry
  PROVE  Store(slot, e) \in SUBSET Entry
BY DEF Store

LEMMA VersionTyped ==
  ASSUME NEW slot \in SUBSET Entry
  PROVE  Version(slot) \in SUBSET Entry
BY DEF Version

LEMMA HighestTyped ==
  ASSUME NEW slot \in SUBSET Entry, NEW top \in Highest(slot)
  PROVE  top \in Nat /\ \A e \in slot : e.rev <= top
BY DEF Highest, Entry

LEMMA TheOneTyped ==
  ASSUME NEW version, NEW d, NEW one \in TheOne(version, d)
  PROVE  one \in version
BY DEF TheOne

LEMMA ChainsOverTyped ==
  ASSUME NEW version \in SUBSET Entry, NEW d, NEW over \in ChainsOver(version, d)
  PROVE  over \in Chain
<1>1. CASE version = {}
  BY <1>1, NoneTyped DEF ChainsOver
<1>2. CASE version # {}
  <2>1. PICK e \in TheOne(version, d) : over = WrittenOver(e.val, e.chain)
    BY <1>2 DEF ChainsOver
  <2>2. e.val \in Values /\ e.chain \in Chain
    BY TheOneTyped DEF Entry
  <2> QED
    BY <2>1, <2>2, WrittenOverTyped
<1> QED
  BY <1>1, <1>2

LEMMA AgreedWithTyped ==
  ASSUME NEW e \in Entry, NEW val \in Values
  PROVE  AgreedWith(e, val) \in Records
BY DEF AgreedWith, Records, Agreed, Entry

-----------------------------------------------------------------------------
(***************************************************************************)
(* The parts that actions share keep the types.                            *)
(***************************************************************************)
LEMMA IdleTyped ==
  /\ Idle \in Cycle
  /\ Nothing \in [Names -> Values]
BY NoneTyped DEF Idle, Cycle, Nothing

LEMMA GoesToTyped ==
  ASSUME TypeOK, NEW d \in Devices,
         NEW at \in {"idle", "listed", "turn", "copy", "kept", "write", "rename", "delete", "record"},
         GoesTo(d, at)
  PROVE  cycle' \in [Devices -> Cycle]
<1>1. [cycle[d] EXCEPT !.at = at] \in Cycle
  <2>1. cycle[d] \in Cycle
    BY DEF TypeOK
  <2> QED
    BY <2>1 DEF Cycle
<1> QED
  BY <1>1 DEF TypeOK, GoesTo

\* A cycle that takes up the next name, and one with a record to make.
LEMMA NextNameTyped ==
  ASSUME NEW c \in Cycle, NEW todo \in SUBSET Names
  PROVE  [c EXCEPT !.at = "turn", !.todo = todo, !.relied = {}, !.pending = NoRecord] \in Cycle
BY NoneTyped DEF Cycle

LEMMA PendingTyped ==
  ASSUME NEW c \in Cycle, NEW record \in Records
  PROVE  [c EXCEPT !.at = "record", !.pending = record] \in Cycle
BY DEF Cycle

LEMMA ThroughTyped ==
  ASSUME TypeOK, NEW d \in Devices, NEW n \in Names, Through(d, n)
  PROVE  cycle' \in [Devices -> Cycle]
<1>1. cycle[d] \in Cycle
  BY DEF TypeOK
<1>2. cycle[d].todo \ {n} \in SUBSET Names
  BY <1>1 DEF Cycle
<1>3. [cycle[d] EXCEPT !.at = "turn", !.todo = cycle[d].todo \ {n}, !.relied = {},
                       !.pending = NoRecord] \in Cycle
  BY <1>1, <1>2, NextNameTyped
<1>4. CASE cycle[d].todo = {n}
  <2>1. cycle' = [cycle EXCEPT ![d] = Idle]
    BY <1>4 DEF Through
  <2> QED
    BY <2>1, IdleTyped DEF TypeOK
<1>5. CASE cycle[d].todo # {n}
  <2>1. cycle' = [cycle EXCEPT ![d] =
          [cycle[d] EXCEPT !.at = "turn", !.todo = cycle[d].todo \ {n}, !.relied = {},
                           !.pending = NoRecord]]
    BY <1>5 DEF Through
  <2> QED
    BY <2>1, <1>3 DEF TypeOK
<1> QED
  BY <1>4, <1>5

LEMMA IdleAgainTyped ==
  ASSUME TypeOK, NEW d \in Devices, cycle' = [cycle EXCEPT ![d] = Idle]
  PROVE  cycle' \in [Devices -> Cycle]
BY IdleTyped DEF TypeOK

LEMMA ListingTyped ==
  ASSUME TypeOK, NEW d \in Devices, NEW listed \in [Names -> Values],
         NEW missing \in BOOLEAN, Listing(d, listed, missing)
  PROVE  cycle' \in [Devices -> Cycle]
<1>1. [Idle EXCEPT !.at = "listed", !.listed = listed, !.missing = missing] \in Cycle
  BY IdleTyped DEF Cycle
<1> QED
  BY <1>1 DEF TypeOK, Listing

LEMMA UnkeepTyped ==
  ASSUME TypeOK, NEW d \in Devices, NEW n \in Names, Unkeep(d, n)
  PROVE  kept' \in [Devices -> [Names -> Copy \cup {NoCopy}]]
BY DEF TypeOK, Unkeep

LEMMA LetsTyped ==
  ASSUME TypeOK, NEW texts \in SUBSET Values, Lets(texts)
  PROVE  letGo' \subseteq Texts
BY DEF TypeOK, Lets, Values

LEMMA FoundTyped ==
  ASSUME TypeOK, NEW d \in Devices, NEW n \in Names
  PROVE  Found(d, n) \in Values
BY NoneTyped DEF TypeOK, Found

LEMMA ListedTyped ==
  ASSUME TypeOK, NEW d \in Devices, NEW n \in Names
  PROVE  /\ cycle[d].listed[n] \in Values
         /\ cycle[d].read[n] \in SUBSET Entry
         /\ cycle[d].was[n] \in Records
         /\ cycle[d].pending \in Records
         /\ cycle[d].relied \in SUBSET Names
BY DEF TypeOK, Cycle

LEMMA HeldTyped ==
  ASSUME TypeOK, NEW d \in Devices, NEW n \in Names
  PROVE  /\ held[d][n] \in SUBSET Entry
         /\ copied[d][n] \in Chain
         /\ agreed[d][n] \in Records
         /\ kept[d][n] \in Copy \cup {NoCopy}
         /\ file[d][n] \in Values
BY DEF TypeOK

LEMMA KeptAfterTyped ==
  ASSUME TypeOK, NEW d \in Devices, NEW n \in Names
  PROVE  KeptAfter(d, n) \in Chain
<1> DEFINE was == cycle[d].was[n]
<1>1. CASE was = NoRecord
  BY <1>1, NoneTyped DEF KeptAfter
<1>2. CASE was # NoRecord
  <2>1. was.val \in Values /\ was.chain \in Chain
    BY <1>2, ListedTyped DEF Records, Agreed
  <2> QED
    BY <1>2, <2>1, WrittenOverTyped DEF KeptAfter
<1> QED
  BY <1>1, <1>2

\* What a publish leaves.
LEMMA PublishesTyped ==
  ASSUME TypeOK, NEW d \in Devices, NEW n \in Names, NEW val \in Values,
         Publishes(d, n, val)
  PROVE  /\ held' \in [Devices -> [Names -> SUBSET Entry]]
         /\ copied' \in [Devices -> [Names -> Chain]]
         /\ kept' \in [Devices -> [Names -> Copy \cup {NoCopy}]]
         /\ cycle' \in [Devices -> Cycle]
         /\ removed' \in [Devices -> SUBSET Names]
<1>1. PICK top \in Highest(held[d][n]), over \in ChainsOver(cycle[d].read[n], d) :
        LET e == [author |-> d, rev |-> top + 1, val |-> val,
                  chain |-> Cut(copied[d][n] \o over)]
            now == Store(held[d][n], e)
        IN
        /\ held' = [held EXCEPT ![d][n] = now]
        /\ copied' = [copied EXCEPT ![d][n] = <<>>]
        /\ kept' = [kept EXCEPT ![d] = [m \in Names |->
             IF m = n THEN NoCopy
             ELSE IF val # NoText /\ kept[d][m].copy = n /\ kept[d][m].val = val
             THEN [kept[d][m] EXCEPT !.under = Version(now)]
             ELSE kept[d][m]]]
        /\ cycle' = [cycle EXCEPT ![d].at = "record", ![d].pending = AgreedWith(e, val)]
        /\ removed' = IF val = NoText \/ file[d][n] # NoText
                      THEN [removed EXCEPT ![d] = @ \ {n}] ELSE removed
  BY DEF Publishes
<1> DEFINE e == [author |-> d, rev |-> top + 1, val |-> val,
                 chain |-> Cut(copied[d][n] \o over)]
           now == Store(held[d][n], e)
<1>2. e \in Entry
  <2>1. Cut(copied[d][n] \o over) \in Chain
    BY HeldTyped, ListedTyped, ChainsOverTyped, CutOfTwo
  <2>2. top + 1 \in Nat
    BY HeldTyped, HighestTyped
  <2> QED
    BY <2>1, <2>2 DEF Entry
<1>3. now \in SUBSET Entry /\ Version(now) \in SUBSET Entry
  BY <1>2, HeldTyped, StoreTyped, VersionTyped
<1>4. AgreedWith(e, val) \in Records
  BY <1>2, AgreedWithTyped
<1> HIDE DEF e, now
<1>5. held' \in [Devices -> [Names -> SUBSET Entry]]
  BY <1>1, <1>3 DEF TypeOK, e, now
<1>6. copied' \in [Devices -> [Names -> Chain]]
  BY <1>1, NoneTyped DEF TypeOK
<1>7. kept' \in [Devices -> [Names -> Copy \cup {NoCopy}]]
  <2> DEFINE next(m) == IF m = n THEN NoCopy
             ELSE IF val # NoText /\ kept[d][m].copy = n /\ kept[d][m].val = val
             THEN [kept[d][m] EXCEPT !.under = Version(now)]
             ELSE kept[d][m]
  <2>1. ASSUME NEW m \in Names PROVE next(m) \in Copy \cup {NoCopy}
    <3>1. CASE m = n \/ ~(val # NoText /\ kept[d][m].copy = n /\ kept[d][m].val = val)
      BY <3>1, HeldTyped
    <3>2. CASE m # n /\ val # NoText /\ kept[d][m].copy = n /\ kept[d][m].val = val
      <4>1. kept[d][m] \in Copy
        BY <3>2, HeldTyped DEF NoCopy
      <4>2. [kept[d][m] EXCEPT !.under = Version(now)] \in Copy
        BY <4>1, <1>3 DEF Copy
      <4> QED
        BY <3>2, <4>2
    <3> QED
      BY <3>1, <3>2
  <2>2. kept' = [kept EXCEPT ![d] = [m \in Names |-> next(m)]]
    BY <1>1 DEF e, now
  <2> HIDE DEF next
  <2> QED
    BY <2>1, <2>2 DEF TypeOK
<1>8. cycle' \in [Devices -> Cycle]
  <2>1. cycle' = [cycle EXCEPT ![d].at = "record", ![d].pending = AgreedWith(e, val)]
    BY <1>1 DEF e
  <2>2. [cycle[d] EXCEPT !.at = "record", !.pending = AgreedWith(e, val)] \in Cycle
    BY <1>4, PendingTyped DEF TypeOK
  <2> QED
    BY <2>1, <2>2 DEF TypeOK
<1>9. removed' \in [Devices -> SUBSET Names]
  BY <1>1 DEF TypeOK
<1> QED
  BY <1>5, <1>6, <1>7, <1>8, <1>9

-----------------------------------------------------------------------------
(***************************************************************************)
(* Type correctness.                                                       *)
(***************************************************************************)
LEMMA InitTyped == Init => TypeOK
BY IdleTyped, NoneTyped DEF Init, TypeOK, Nothing

\* What the agent does, and what comes of the folder.
LEMMA AgentTyped ==
  ASSUME TypeOK, NEW d \in Devices,
         \/ \E n \in Names, text \in Texts : Write(d, n, text)
         \/ \E n \in Names : Remove(d, n)
         \/ FolderGoes(d) \/ FolderBack(d) \/ ListAsItGoes(d)
  PROVE  TypeOK'
<1> USE DEF disk, store, memory, ghosts
<1>1. ASSUME NEW n \in Names, NEW text \in Texts, Write(d, n, text) PROVE TypeOK'
  <2>1. file' \in [Devices -> [Names -> Values]]
    BY <1>1 DEF TypeOK, Write, Values
  <2>2. letGo' \subseteq Texts
    <3>1. {file[d][n]} \in SUBSET Values /\ Lets({file[d][n]})
      BY <1>1, HeldTyped DEF Write
    <3> QED
      BY <3>1, LetsTyped
  <2> QED
    BY <1>1, <2>1, <2>2 DEF TypeOK, Write
<1>2. ASSUME NEW n \in Names, Remove(d, n) PROVE TypeOK'
  <2>1. file' \in [Devices -> [Names -> Values]]
    BY <1>2, NoneTyped DEF TypeOK, Remove
  <2>2. letGo' \subseteq Texts
    <3>1. {file[d][n]} \in SUBSET Values /\ Lets({file[d][n]})
      BY <1>2, HeldTyped DEF Remove
    <3> QED
      BY <3>1, LetsTyped
  <2>3. removed' \in [Devices -> SUBSET Names]
    BY <1>2 DEF TypeOK, Remove
  <2> QED
    BY <1>2, <2>1, <2>2, <2>3 DEF TypeOK, Remove
<1>3. ASSUME FolderGoes(d) PROVE TypeOK'
  BY <1>3 DEF TypeOK, FolderGoes, Goes
<1>4. ASSUME FolderBack(d) PROVE TypeOK'
  BY <1>4 DEF TypeOK, FolderBack
<1>5. ASSUME ListAsItGoes(d) PROVE TypeOK'
  <2>1. PICK names \in SUBSET {n \in Names : file[d][n] # NoText} :
          Listing(d, [n \in Names |-> IF n \in names THEN file[d][n] ELSE NoText], FALSE)
    BY <1>5 DEF ListAsItGoes
  <2>2. [n \in Names |-> IF n \in names THEN file[d][n] ELSE NoText] \in [Names -> Values]
    BY HeldTyped, NoneTyped
  <2>3. cycle' \in [Devices -> Cycle]
    BY <2>1, <2>2, ListingTyped
  <2> QED
    BY <1>5, <2>3 DEF TypeOK, ListAsItGoes, Goes
<1> QED
  BY <1>1, <1>2, <1>3, <1>4, <1>5

\* What arrives, a stop of the node, and its settings.
LEMMA NodeTyped ==
  ASSUME TypeOK, NEW d \in Devices,
         Arrives(d) \/ Crash(d) \/ OtherCommand(d) \/ Unmap(d) \/ Map(d)
  PROVE  TypeOK'
<1> USE DEF disk, store, memory, ghosts
<1>1. [n \in Names |-> NoCopy] \in [Names -> Copy \cup {NoCopy}]
  OBVIOUS
<1>2. [n \in Names |-> NoRecord] \in [Names -> Records]
  BY NoneTyped
<1>3. ASSUME NEW c \in Devices, NEW n \in Names, NEW e \in held[c][n], Arrive(d, c, n, e)
      PROVE  TypeOK'
  <2>1. Store(held[d][n], e) \in SUBSET Entry
    BY HeldTyped, StoreTyped
  <2>2. held' \in [Devices -> [Names -> SUBSET Entry]]
    BY <1>3, <2>1 DEF TypeOK, Arrive
  <2> QED
    BY <1>3, <2>2 DEF TypeOK, Arrive
<1>4. ASSUME Crash(d) PROVE TypeOK'
  <2>1. cycle' \in [Devices -> Cycle]
    BY <1>4, IdleAgainTyped DEF Crash
  <2> QED
    BY <1>4, <1>1, <2>1 DEF TypeOK, Crash
<1>5. ASSUME cycle' = [cycle EXCEPT ![d].stale = cycle[d].at # "idle"]
      PROVE  cycle' \in [Devices -> Cycle]
  <2>1. [cycle[d] EXCEPT !.stale = cycle[d].at # "idle"] \in Cycle
    <3>1. cycle[d] \in Cycle /\ (cycle[d].at # "idle") \in BOOLEAN
      BY DEF TypeOK
    <3> QED
      BY <3>1 DEF Cycle
  <2> QED
    BY <1>5, <2>1 DEF TypeOK
<1>6. ASSUME OtherCommand(d) PROVE TypeOK'
  <2>1. cycle' \in [Devices -> Cycle]
    BY <1>5, <1>6 DEF OtherCommand, Command
  <2> QED
    BY <1>6, <1>1, <2>1 DEF TypeOK, OtherCommand, Command
<1>7. ASSUME Unmap(d) PROVE TypeOK'
  <2>1. cycle' \in [Devices -> Cycle]
    BY <1>5, <1>7 DEF Unmap, Command
  <2>2. file' \in [Devices -> [Names -> Values]] /\ letGo' \subseteq Texts
    <3>1. CASE here[d]
      BY <1>7, <3>1 DEF TypeOK, Unmap
    <3>2. CASE ~here[d]
      <4>1. {file[d][n] : n \in Names} \in SUBSET Values
        BY HeldTyped
      <4>2. Lets({file[d][n] : n \in Names}) /\ file' = [file EXCEPT ![d] = Nothing]
        BY <1>7, <3>2 DEF Unmap
      <4> QED
        BY <4>1, <4>2, LetsTyped, IdleTyped DEF TypeOK
    <3> QED
      BY <3>1, <3>2
  <2>3. /\ mapped' \in [Devices -> BOOLEAN]
        /\ agreed' \in [Devices -> [Names -> Records]]
        /\ kept' \in [Devices -> [Names -> Copy \cup {NoCopy}]]
    BY <1>7, <1>1, <1>2 DEF TypeOK, Unmap, Command, Forget
  <2> QED
    BY <1>7, <2>1, <2>2, <2>3 DEF TypeOK, Unmap
<1>8. ASSUME Map(d) PROVE TypeOK'
  <2>1. cycle' \in [Devices -> Cycle]
    BY <1>5, <1>8 DEF Map
  <2> QED
    BY <1>8, <1>1, <1>2, <2>1 DEF TypeOK, Map, Forget
<1> QED
  BY <1>3, <1>4, <1>6, <1>7, <1>8 DEF Arrives

\* A cycle begins, or ends before its files.
LEMMA BeginTyped ==
  ASSUME TypeOK, NEW d \in Devices,
         List(d) \/ ReadGone(d) \/ ReadChannel(d) \/ Stop(d)
  PROVE  TypeOK'
<1> USE DEF disk, store, memory, ghosts
<1>1. ASSUME List(d) PROVE TypeOK'
  <2>1. [n \in Names |-> Found(d, n)] \in [Names -> Values] /\ (~here[d]) \in BOOLEAN
    BY FoundTyped
  <2>2. cycle' \in [Devices -> Cycle]
    BY <1>1, <2>1, ListingTyped DEF List
  <2> QED
    BY <1>1, <2>2 DEF TypeOK, List
<1>2. ASSUME ReadGone(d) PROVE TypeOK'
  <2>1. cycle' \in [Devices -> Cycle]
    BY <1>2, IdleAgainTyped DEF ReadGone
  <2> QED
    BY <1>2, <2>1 DEF TypeOK, ReadGone
<1>3. ASSUME Stop(d) PROVE TypeOK'
  <2>1. cycle' \in [Devices -> Cycle]
    BY <1>3, IdleAgainTyped DEF Stop
  <2> QED
    BY <1>3, <2>1 DEF TypeOK, Stop
<1>4. ASSUME ReadChannel(d) PROVE TypeOK'
  <2> DEFINE read == [n \in Names |-> Version(held[d][n])]
             todo == {n \in Names :
                 Planned(cycle[d].listed, d, n, read[n], agreed[d][n]).step # "nothing"}
             begun == [cycle[d] EXCEPT !.at = "turn", !.read = read, !.was = agreed[d],
                                       !.todo = todo]
  <2>1. read \in [Names -> SUBSET Entry]
    BY HeldTyped, VersionTyped
  <2>2. todo \in SUBSET Names
    OBVIOUS
  <2>3. cycle' = [cycle EXCEPT ![d] =
          IF todo = {} \/ (Makes(d) /\ cycle[d].stale) THEN Idle ELSE begun]
    BY <1>4 DEF ReadChannel
  <2> HIDE DEF read, todo
  <2>4. begun \in Cycle
    <3>1. cycle[d] \in Cycle /\ agreed[d] \in [Names -> Records]
      BY DEF TypeOK
    <3> QED
      BY <3>1, <2>1, <2>2 DEF Cycle
  <2> HIDE DEF begun
  <2>5. cycle' \in [Devices -> Cycle]
    BY <2>3, <2>4, IdleTyped DEF TypeOK
  <2>6. here' \in [Devices -> BOOLEAN]
    BY <1>4 DEF TypeOK, ReadChannel
  <2> QED
    BY <1>4, <2>5, <2>6 DEF TypeOK, ReadChannel
<1> QED
  BY <1>1, <1>2, <1>3, <1>4

\* A file that is published, or left.
LEMMA PublishTyped ==
  ASSUME TypeOK, NEW d \in Devices, NEW n \in Names,
         PublishText(d, n) \/ LookForDelete(d, n) \/ PublishDelete(d, n)
  PROVE  TypeOK'
<1> USE DEF disk, store, memory, ghosts
<1>1. ASSUME NEW val \in Values, Publishes(d, n, val) \/ Unpublished(d, n)
      PROVE  /\ held' \in [Devices -> [Names -> SUBSET Entry]]
             /\ copied' \in [Devices -> [Names -> Chain]]
             /\ kept' \in [Devices -> [Names -> Copy \cup {NoCopy}]]
             /\ cycle' \in [Devices -> Cycle]
             /\ removed' \in [Devices -> SUBSET Names]
  <2>1. CASE Publishes(d, n, val)
    BY <2>1, PublishesTyped
  <2>2. CASE Unpublished(d, n)
    <3>1. /\ kept' \in [Devices -> [Names -> Copy \cup {NoCopy}]]
          /\ cycle' \in [Devices -> Cycle]
      BY <2>2, ThroughTyped, UnkeepTyped DEF Unpublished
    <3> QED
      BY <2>2, <3>1 DEF TypeOK, Unpublished
  <2> QED
    BY <1>1, <2>1, <2>2
<1>2. ASSUME PublishText(d, n) PROVE TypeOK'
  <2>1. /\ held' \in [Devices -> [Names -> SUBSET Entry]]
        /\ copied' \in [Devices -> [Names -> Chain]]
        /\ kept' \in [Devices -> [Names -> Copy \cup {NoCopy}]]
        /\ cycle' \in [Devices -> Cycle]
        /\ removed' \in [Devices -> SUBSET Names]
    BY <1>1, <1>2, ListedTyped DEF PublishText
  <2> QED
    BY <1>2, <2>1 DEF TypeOK, PublishText
<1>3. ASSUME PublishDelete(d, n) PROVE TypeOK'
  <2>1. /\ held' \in [Devices -> [Names -> SUBSET Entry]]
        /\ copied' \in [Devices -> [Names -> Chain]]
        /\ kept' \in [Devices -> [Names -> Copy \cup {NoCopy}]]
        /\ cycle' \in [Devices -> Cycle]
        /\ removed' \in [Devices -> SUBSET Names]
    BY <1>1, <1>3, NoneTyped DEF PublishDelete
  <2> QED
    BY <1>3, <2>1 DEF TypeOK, PublishDelete
<1>4. ASSUME LookForDelete(d, n) PROVE TypeOK'
  <2>1. cycle' \in [Devices -> Cycle]
    BY <1>4, IdleAgainTyped, ThroughTyped, GoesToTyped DEF LookForDelete
  <2>2. kept' \in [Devices -> [Names -> Copy \cup {NoCopy}]]
    BY <1>4, UnkeepTyped DEF LookForDelete
  <2> QED
    BY <1>4, <2>1, <2>2 DEF TypeOK, LookForDelete
<1> QED
  BY <1>2, <1>3, <1>4

\* A text that is kept beside its file.
LEMMA KeepTyped ==
  ASSUME TypeOK, NEW d \in Devices, NEW n \in Names,
         FindCopy(d, n) \/ ClaimCopy(d, n) \/ NoName(d, n) \/ WriteCopy(d, n)
  PROVE  TypeOK'
<1> USE DEF disk, store, memory, ghosts
<1>1. ASSUME NEW c \in Names, NEW at \in {"kept", "copy"},
             cycle' = [cycle EXCEPT ![d].at = at, ![d].relied = {c}]
      PROVE  cycle' \in [Devices -> Cycle]
  <2>1. [cycle[d] EXCEPT !.at = at, !.relied = {c}] \in Cycle
    <3>1. cycle[d] \in Cycle /\ {c} \in SUBSET Names
      BY DEF TypeOK
    <3> QED
      BY <3>1 DEF Cycle
  <2> QED
    BY <1>1, <2>1 DEF TypeOK
<1>2. ASSUME FindCopy(d, n) PROVE TypeOK'
  <2>1. cycle' \in [Devices -> Cycle]
    BY <1>1, <1>2 DEF FindCopy
  <2> QED
    BY <1>2, <2>1 DEF TypeOK, FindCopy
<1>3. ASSUME ClaimCopy(d, n) PROVE TypeOK'
  <2>1. PICK c \in Names :
          /\ kept' = [kept EXCEPT ![d][n] =
               [is |-> "copy", copy |-> c, version |-> cycle[d].read[n],
                val |-> cycle[d].listed[n], under |-> Version(held[d][c])]]
          /\ copied' = [copied EXCEPT ![d][c] = KeptAfter(d, n)]
          /\ cycle' = [cycle EXCEPT ![d].at = "copy", ![d].relied = {c}]
    BY <1>3 DEF ClaimCopy
  <2>2. [is |-> "copy", copy |-> c, version |-> cycle[d].read[n],
         val |-> cycle[d].listed[n], under |-> Version(held[d][c])] \in Copy
    <3>1. Version(held[d][c]) \in SUBSET Entry
      BY HeldTyped, VersionTyped
    <3> QED
      BY <3>1, ListedTyped DEF Copy
  <2>3. kept' \in [Devices -> [Names -> Copy \cup {NoCopy}]]
    BY <2>1, <2>2 DEF TypeOK
  <2>4. copied' \in [Devices -> [Names -> Chain]]
    BY <2>1, KeptAfterTyped DEF TypeOK
  <2>5. cycle' \in [Devices -> Cycle]
    BY <1>1, <2>1
  <2> QED
    BY <1>3, <2>3, <2>4, <2>5 DEF TypeOK, ClaimCopy
<1>4. ASSUME NoName(d, n) PROVE TypeOK'
  <2>1. cycle' \in [Devices -> Cycle]
    BY <1>4, ThroughTyped DEF NoName
  <2> QED
    BY <1>4, <2>1 DEF TypeOK, NoName
<1>5. ASSUME WriteCopy(d, n) PROVE TypeOK'
  <2>1. PICK c \in cycle[d].relied :
          /\ IF here[d] /\ file[d][c] = NoText
             THEN /\ file' = [file EXCEPT ![d][c] = cycle[d].listed[n]]
                  /\ GoesTo(d, "kept")
                  /\ removed' = [removed EXCEPT ![d] = @ \ {c}]
                  /\ UNCHANGED kept
             ELSE /\ Through(d, n)
                  /\ Unkeep(d, n)
                  /\ UNCHANGED <<file, removed>>
          /\ UNCHANGED <<here, mapped, store, written, letGo, inGap, left>>
    BY <1>5 DEF WriteCopy
  <2> c \in Names /\ cycle[d].listed[n] \in Values
    BY ListedTyped
  <2>2. CASE here[d] /\ file[d][c] = NoText
    <3>1. file' \in [Devices -> [Names -> Values]]
      <4>1. file' = [file EXCEPT ![d][c] = cycle[d].listed[n]]
        BY <2>1, <2>2
      <4> QED
        BY <4>1 DEF TypeOK
    <3>2. cycle' \in [Devices -> Cycle]
      BY <2>1, <2>2, GoesToTyped
    <3>3. removed' \in [Devices -> SUBSET Names]
      <4>1. removed' = [removed EXCEPT ![d] = @ \ {c}]
        BY <2>1, <2>2
      <4> QED
        BY <4>1 DEF TypeOK
    <3> QED
      BY <2>1, <2>2, <3>1, <3>2, <3>3 DEF TypeOK
  <2>3. CASE ~(here[d] /\ file[d][c] = NoText)
    <3>1. cycle' \in [Devices -> Cycle]
      BY <2>1, <2>3, ThroughTyped
    <3>2. kept' \in [Devices -> [Names -> Copy \cup {NoCopy}]]
      BY <2>1, <2>3, UnkeepTyped
    <3> QED
      BY <2>1, <2>3, <3>1, <3>2 DEF TypeOK
  <2> QED
    BY <2>2, <2>3
<1> QED
  BY <1>2, <1>3, <1>4, <1>5

\* A file that is written, removed, left or recorded.
LEMMA WriteTyped ==
  ASSUME TypeOK, NEW d \in Devices, NEW n \in Names,
         \/ StartWrite(d, n) \/ Replace(d, n) \/ LastLook(d, n) \/ Rename(d, n)
         \/ Defer(d, n) \/ Record(d, n) \/ RecordAlone(d, n)
  PROVE  TypeOK'
<1> USE DEF disk, store, memory, ghosts
<1>1. ASSUME StartWrite(d, n) PROVE TypeOK'
  <2>1. cycle' \in [Devices -> Cycle]
    BY <1>1, ThroughTyped, GoesToTyped DEF StartWrite
  <2>2. kept' \in [Devices -> [Names -> Copy \cup {NoCopy}]]
    BY <1>1, UnkeepTyped DEF StartWrite, TypeOK
  <2> QED
    BY <1>1, <2>1, <2>2 DEF TypeOK, StartWrite
<1>2. ASSUME Replaces(d, n), inGap' \subseteq Texts PROVE TypeOK'
  <2>1. PICK one \in TheOne(cycle[d].read[n], d) :
          /\ file' = [file EXCEPT ![d][n] = one.val]
          /\ cycle' = [cycle EXCEPT ![d].at = "record", ![d].pending = AgreedWith(one, one.val)]
          /\ Unkeep(d, n)
          /\ removed' = [removed EXCEPT ![d] = @ \ {n}]
          /\ UNCHANGED <<here, mapped, store, written, letGo>>
    BY <1>2 DEF Replaces
  <2>2. one \in Entry
    BY ListedTyped, TheOneTyped
  <2>3. one.val \in Values /\ AgreedWith(one, one.val) \in Records
    BY <2>2, AgreedWithTyped DEF Entry
  <2>4. file' \in [Devices -> [Names -> Values]]
    BY <2>1, <2>3 DEF TypeOK
  <2>5. cycle' \in [Devices -> Cycle]
    <3>1. cycle[d] \in Cycle
      BY DEF TypeOK
    <3>2. [cycle[d] EXCEPT !.at = "record", !.pending = AgreedWith(one, one.val)] \in Cycle
      BY <2>3, <3>1, PendingTyped
    <3> QED
      BY <2>1, <3>2 DEF TypeOK
  <2>6. kept' \in [Devices -> [Names -> Copy \cup {NoCopy}]]
    BY <2>1, UnkeepTyped
  <2>7. removed' \in [Devices -> SUBSET Names]
    BY <2>1 DEF TypeOK
  <2> QED
    BY <1>2, <2>1, <2>4, <2>5, <2>6, <2>7 DEF TypeOK
<1>3. ASSUME LastLook(d, n) PROVE TypeOK'
  <2>1. cycle' \in [Devices -> Cycle]
    BY <1>3, GoesToTyped DEF LastLook
  <2> QED
    BY <1>3, <2>1 DEF TypeOK, LastLook
<1>4. ASSUME Defer(d, n) PROVE TypeOK'
  <2>1. cycle' \in [Devices -> Cycle]
    BY <1>4, ThroughTyped DEF Defer
  <2> QED
    BY <1>4, <2>1 DEF TypeOK, Defer
<1>5. ASSUME Record(d, n) PROVE TypeOK'
  <2>1. cycle' \in [Devices -> Cycle]
    BY <1>5, ThroughTyped DEF Record
  <2>2. kept' \in [Devices -> [Names -> Copy \cup {NoCopy}]]
    BY <1>5, UnkeepTyped DEF Record, TypeOK
  <2>3. agreed' \in [Devices -> [Names -> Records]]
    <3>1. cycle[d].pending \in Records
      BY ListedTyped
    <3>2. \/ agreed' = agreed
          \/ agreed' = [agreed EXCEPT ![d][n] = cycle[d].pending]
      BY <1>5 DEF Record
    <3>3. agreed \in [Devices -> [Names -> Records]]
      BY DEF TypeOK
    <3> QED
      BY <3>1, <3>2, <3>3
  <2> QED
    BY <1>5, <2>1, <2>2, <2>3 DEF TypeOK, Record
<1>6. ASSUME RecordAlone(d, n) PROVE TypeOK'
  <2>1. PICK one \in TheOne(cycle[d].read[n], d) :
          agreed' = [agreed EXCEPT ![d][n] = AgreedWith(one, cycle[d].listed[n])]
    BY <1>6 DEF RecordAlone
  <2>2. AgreedWith(one, cycle[d].listed[n]) \in Records
    <3>1. one \in Entry
      BY ListedTyped, TheOneTyped
    <3> QED
      BY <3>1, ListedTyped, AgreedWithTyped
  <2>3. agreed' \in [Devices -> [Names -> Records]]
    BY <2>1, <2>2 DEF TypeOK
  <2>4. /\ cycle' \in [Devices -> Cycle]
        /\ kept' \in [Devices -> [Names -> Copy \cup {NoCopy}]]
    BY <1>6, ThroughTyped, UnkeepTyped DEF RecordAlone
  <2> QED
    BY <1>6, <2>3, <2>4 DEF TypeOK, RecordAlone
<1>7. ASSUME Replace(d, n) \/ Rename(d, n) PROVE inGap' \subseteq Texts
  BY <1>7, HeldTyped DEF Replace, Rename, TypeOK, Values
<1> QED
  BY <1>1, <1>2, <1>3, <1>4, <1>5, <1>6, <1>7 DEF Replace, Rename

LEMMA NextTyped == TypeOK /\ [Next]_vars => TypeOK'
<1> SUFFICES ASSUME TypeOK, [Next]_vars PROVE TypeOK'
  OBVIOUS
<1>1. CASE UNCHANGED vars
  BY <1>1 DEF TypeOK, vars
<1>2. CASE Next
  <2>1. PICK d \in Devices :
          \/ \E n \in Names, text \in Texts : Write(d, n, text)
          \/ \E n \in Names : Remove(d, n)
          \/ FolderGoes(d) \/ FolderBack(d) \/ ListAsItGoes(d)
          \/ Arrives(d)
          \/ Crash(d)
          \/ OtherCommand(d) \/ Unmap(d) \/ Map(d)
          \/ CycleStep(d)
    BY <1>2 DEF Next
  <2>2. CASE CycleStep(d)
    BY <2>2, BeginTyped, PublishTyped, KeepTyped, WriteTyped DEF CycleStep, Apply
  <2> QED
    BY <2>1, <2>2, AgentTyped, NodeTyped
<1> QED
  BY <1>1, <1>2

\* Every variable stays within its type: no chain is longer than its bound,
\* and every record, copy and cycle is one that the code can hold.
THEOREM MemorySyncTyped == Spec => []TypeOK
<1>1. Init => TypeOK
  BY InitTyped
<1>2. TypeOK /\ [Next]_vars => TypeOK'
  BY NextTyped
<1> QED
  BY <1>1, <1>2, PTL DEF Spec

-----------------------------------------------------------------------------
(***************************************************************************)
(* A folder's record is never ahead of its store.                          *)
(*                                                                         *)
(* A record is made of what a cycle read, under another hold of the lock   *)
(* than the one that it is made under.  So the invariant speaks also of    *)
(* what a cycle under way has read and has still to record: a store only   *)
(* goes on, by entries of its author's higher revisions, and what was read *)
(* of one version stays at or behind what the store has.                   *)
(***************************************************************************)
Backed(slot, record) == \E e \in slot : AtOrPast(e, record)

ReadIsBacked ==
  \A d \in Devices, n \in Names : \A e \in cycle[d].read[n] :
    /\ Backed(held[d][n], e)
    /\ \A f \in cycle[d].read[n] : f.rev = e.rev /\ f.val = e.val

PendingIsBacked ==
  \A d \in Devices, n \in Names :
    At(d, n, "record") => Backed(held[d][n], cycle[d].pending)

AgreedIsBacked ==
  \A d \in Devices, n \in Names :
    agreed[d][n] # NoRecord => Backed(held[d][n], agreed[d][n])

StoreIsAhead == ReadIsBacked /\ PendingIsBacked /\ AgreedIsBacked

LEMMA Numbers ==
  /\ Values \subseteq Nat
  /\ \A e \in Entry : e.rev \in Nat /\ e.val \in Nat
  /\ \A r \in Records : r.rev \in Nat /\ r.val \in Nat
<1>1. Values \subseteq Nat
  BY SlotAssumption DEF Values, NoText
<1>2. \A e \in Entry : e.rev \in Nat /\ e.val \in Nat
  BY <1>1 DEF Entry
<1>3. NoRecord.rev \in Nat /\ NoRecord.val \in Nat
  BY DEF NoRecord, NoText
<1>4. \A r \in Agreed : r.rev \in Nat /\ r.val \in Nat
  BY <1>1 DEF Agreed
<1> QED
  BY <1>1, <1>2, <1>3, <1>4 DEF Records

LEMMA BackedGoesOn ==
  ASSUME NEW slot \in SUBSET Entry, NEW e \in Entry, NEW record,
         record.rev \in Nat, record.val \in Nat, Backed(slot, record)
  PROVE  Backed(Store(slot, e), record)
<1>1. PICK f \in slot : AtOrPast(f, record)
  BY DEF Backed
<1>2. CASE f \in Store(slot, e)
  BY <1>1, <1>2 DEF Backed
<1>3. CASE f \notin Store(slot, e)
  <2>1. e \in Store(slot, e) /\ f.author = e.author /\ ~(f.rev >= e.rev)
    BY <1>3 DEF Store
  <2>2. e.rev > f.rev
    BY <2>1 DEF Entry
  <2>3. AtOrPast(e, record)
    BY <1>1, <2>2 DEF AtOrPast, Entry
  <2> QED
    BY <2>1, <2>3 DEF Backed
<1> QED
  BY <1>2, <1>3

\* The entries held of a version are of one revision and one value, and
\* the slot they are of backs them.
LEMMA VersionIsOne ==
  ASSUME NEW slot \in SUBSET Entry, NEW e \in Version(slot)
  PROVE  /\ Backed(slot, e)
         /\ \A f \in Version(slot) : f.rev = e.rev /\ f.val = e.val
<1>1. e \in slot /\ e.rev \in Nat /\ e.val \in Nat
  BY Numbers DEF Version
<1>2. AtOrPast(e, e)
  BY <1>1 DEF AtOrPast
<1>3. ASSUME NEW f \in Version(slot) PROVE f.rev = e.rev /\ f.val = e.val
  <2>1. f \in slot /\ f.rev \in Nat /\ f.val \in Nat
    BY Numbers DEF Version
  <2>2. f.rev < e.rev \/ (f.rev = e.rev /\ f.val <= e.val)
    BY <2>1 DEF Version
  <2>3. e.rev < f.rev \/ (e.rev = f.rev /\ e.val <= f.val)
    BY <1>1 DEF Version
  <2> QED
    BY <1>1, <2>1, <2>2, <2>3
<1> QED
  BY <1>1, <1>2, <1>3 DEF Backed

\* A record is made alone only where the file and the version are the same.
LEMMA RecordIsOfTheSame ==
  ASSUME NEW local \in Values, NEW one \in Entry, NEW version, NEW record \in Records,
         PlanOver(local, one, version, record).step = "record"
  PROVE  local = one.val
<1>1. record = NoRecord \/ record # NoRecord
  OBVIOUS
<1> QED
  BY DEF PlanOver, Do, KeepThen, NoRecord

\* A step of d's cycle that reads no version and has no new record to make.
Calm(d) ==
  /\ \A x \in Devices \ {d} : cycle'[x] = cycle[x]
  /\ cycle'[d].read = cycle[d].read \/ \A n \in Names : cycle'[d].read[n] = {}
  /\ cycle'[d].at = "record" =>
       /\ cycle[d].at = "record"
       /\ cycle'[d].todo = cycle[d].todo
       /\ cycle'[d].pending = cycle[d].pending

LEMMA CalmSteps ==
  ASSUME TypeOK, NEW d \in Devices, NEW n \in Names,
         \/ cycle' = cycle
         \/ cycle' = [cycle EXCEPT ![d] = Idle]
         \/ Through(d, n)
         \/ \E at \in {"copy", "kept", "write", "rename", "delete"} : GoesTo(d, at)
         \/ \E stale : cycle' = [cycle EXCEPT ![d].stale = stale]
         \/ \E relied : \E at \in {"copy", "kept"} :
              cycle' = [cycle EXCEPT ![d].at = at, ![d].relied = relied]
         \/ \E listed, missing : Listing(d, listed, missing)
  PROVE  Calm(d)
<1> cycle \in [Devices -> Cycle] /\ cycle[d] \in Cycle
  BY DEF TypeOK
<1>1. CASE cycle' = cycle
  BY <1>1 DEF Calm
<1>2. CASE cycle' = [cycle EXCEPT ![d] = Idle]
  BY <1>2 DEF Calm, Idle
<1>3. CASE Through(d, n)
  <2>1. CASE cycle[d].todo = {n}
    BY <1>3, <2>1 DEF Calm, Idle, Through
  <2>2. CASE cycle[d].todo # {n}
    <3>1. cycle' = [cycle EXCEPT ![d] =
            [cycle[d] EXCEPT !.at = "turn", !.todo = cycle[d].todo \ {n}, !.relied = {},
                             !.pending = NoRecord]]
      BY <1>3, <2>2 DEF Through
    <3> QED
      BY <3>1 DEF Calm, Cycle
  <2> QED
    BY <2>1, <2>2
<1>4. ASSUME NEW at \in {"copy", "kept", "write", "rename", "delete"}, GoesTo(d, at)
      PROVE  Calm(d)
  BY <1>4 DEF Calm, GoesTo, Cycle
<1>5. ASSUME NEW stale, cycle' = [cycle EXCEPT ![d].stale = stale] PROVE Calm(d)
  BY <1>5 DEF Calm, Cycle
<1>6. ASSUME NEW at \in {"copy", "kept"}, NEW relied,
             cycle' = [cycle EXCEPT ![d].at = at, ![d].relied = relied]
      PROVE  Calm(d)
  BY <1>6 DEF Calm, Cycle
<1>7. ASSUME NEW listed, NEW missing, Listing(d, listed, missing) PROVE Calm(d)
  BY <1>7 DEF Calm, Listing, Idle
<1> QED
  BY <1>1, <1>2, <1>3, <1>4, <1>5, <1>6, <1>7

LEMMA CalmIsAhead ==
  ASSUME TypeOK, StoreIsAhead, NEW d \in Devices, Calm(d),
         held' = held, agreed' = agreed \/ Forget(d)
  PROVE  StoreIsAhead'
<1>1. ReadIsBacked'
  <2> SUFFICES ASSUME NEW x \in Devices, NEW n \in Names, NEW e \in cycle'[x].read[n]
               PROVE  /\ Backed(held'[x][n], e)
                      /\ \A f \in cycle'[x].read[n] : f.rev = e.rev /\ f.val = e.val
    BY DEF ReadIsBacked
  <2>1. cycle'[x].read[n] = cycle[x].read[n]
    BY DEF Calm
  <2> QED
    BY <2>1 DEF StoreIsAhead, ReadIsBacked
<1>2. PendingIsBacked'
  <2> SUFFICES ASSUME NEW x \in Devices, NEW n \in Names, At(x, n, "record")'
               PROVE  Backed(held'[x][n], cycle'[x].pending)
    BY DEF PendingIsBacked
  <2>1. At(x, n, "record") /\ cycle'[x].pending = cycle[x].pending
    BY DEF Calm, At
  <2> QED
    BY <2>1 DEF StoreIsAhead, PendingIsBacked
<1>3. AgreedIsBacked'
  <2> SUFFICES ASSUME NEW x \in Devices, NEW n \in Names, agreed'[x][n] # NoRecord
               PROVE  Backed(held'[x][n], agreed'[x][n])
    BY DEF AgreedIsBacked
  <2>1. agreed'[x][n] = agreed[x][n]
    <3>1. CASE Forget(d)
      <4>1. agreed' = [agreed EXCEPT ![d] = [m \in Names |-> NoRecord]]
            /\ agreed \in [Devices -> [Names -> Records]]
        BY <3>1 DEF Forget, TypeOK
      <4>2. CASE x = d
        BY <4>1, <4>2
      <4>3. CASE x # d
        BY <4>1, <4>3
      <4> QED
        BY <4>2, <4>3
    <3> QED
      BY <3>1
  <2> QED
    BY <2>1 DEF StoreIsAhead, AgreedIsBacked
<1> QED
  BY <1>1, <1>2, <1>3 DEF StoreIsAhead

\* A store that has taken an entry.
LEMMA StoreGoesOn ==
  ASSUME TypeOK, StoreIsAhead, NEW d \in Devices, NEW n \in Names, NEW e \in Entry,
         held' = [held EXCEPT ![d][n] = Store(held[d][n], e)]
  PROVE  /\ \A x \in Devices, m \in Names : \A f \in cycle[x].read[m] : Backed(held'[x][m], f)
         /\ \A x \in Devices, m \in Names :
              At(x, m, "record") => Backed(held'[x][m], cycle[x].pending)
         /\ \A x \in Devices, m \in Names :
              agreed[x][m] # NoRecord => Backed(held'[x][m], agreed[x][m])
<1>1. ASSUME NEW x \in Devices, NEW m \in Names, NEW record,
             record.rev \in Nat, record.val \in Nat, Backed(held[x][m], record)
      PROVE  Backed(held'[x][m], record)
  <2>1. CASE x = d /\ m = n
    <3>1. held'[x][m] = Store(held[d][n], e)
      BY <2>1 DEF TypeOK
    <3> QED
      BY <1>1, <2>1, <3>1, HeldTyped, BackedGoesOn
  <2>2. CASE ~(x = d /\ m = n)
    <3>1. held'[x][m] = held[x][m]
      BY <2>2 DEF TypeOK
    <3> QED
      BY <1>1, <3>1
  <2> QED
    BY <2>1, <2>2
<1>2. ASSUME NEW x \in Devices, NEW m \in Names, NEW f \in cycle[x].read[m]
      PROVE  Backed(held'[x][m], f)
  <2>1. f.rev \in Nat /\ f.val \in Nat
    BY ListedTyped, Numbers
  <2> QED
    BY <1>1, <2>1 DEF StoreIsAhead, ReadIsBacked
<1>3. ASSUME NEW x \in Devices, NEW m \in Names, At(x, m, "record")
      PROVE  Backed(held'[x][m], cycle[x].pending)
  <2>1. cycle[x].pending.rev \in Nat /\ cycle[x].pending.val \in Nat
    BY ListedTyped, Numbers
  <2> QED
    BY <1>1, <1>3, <2>1 DEF StoreIsAhead, PendingIsBacked
<1>4. ASSUME NEW x \in Devices, NEW m \in Names, agreed[x][m] # NoRecord
      PROVE  Backed(held'[x][m], agreed[x][m])
  <2>1. agreed[x][m].rev \in Nat /\ agreed[x][m].val \in Nat
    BY HeldTyped, Numbers
  <2> QED
    BY <1>1, <1>4, <2>1 DEF StoreIsAhead, AgreedIsBacked
<1> QED
  BY <1>2, <1>3, <1>4

LEMMA PublishesAhead ==
  ASSUME TypeOK, StoreIsAhead, NEW d \in Devices, NEW n \in Names, NEW val \in Values,
         At(d, n, "turn") \/ At(d, n, "delete"), Publishes(d, n, val), agreed' = agreed
  PROVE  StoreIsAhead'
<1>1. PICK top \in Highest(held[d][n]), over \in ChainsOver(cycle[d].read[n], d) :
        LET e == [author |-> d, rev |-> top + 1, val |-> val,
                  chain |-> Cut(copied[d][n] \o over)]
        IN
        /\ held' = [held EXCEPT ![d][n] = Store(held[d][n], e)]
        /\ cycle' = [cycle EXCEPT ![d].at = "record", ![d].pending = AgreedWith(e, val)]
  BY DEF Publishes
<1> DEFINE e == [author |-> d, rev |-> top + 1, val |-> val,
                 chain |-> Cut(copied[d][n] \o over)]
<1>2. e \in Entry
  <2>1. Cut(copied[d][n] \o over) \in Chain
    BY HeldTyped, ListedTyped, ChainsOverTyped, CutOfTwo
  <2>2. top + 1 \in Nat
    BY HeldTyped, HighestTyped
  <2> QED
    BY <2>1, <2>2 DEF Entry
<1>3. e \in Store(held[d][n], e)
  <2>1. \A f \in held[d][n] : f.rev <= top /\ f.rev \in Nat /\ top \in Nat
    BY HeldTyped, HighestTyped, Numbers
  <2>2. ~\E f \in held[d][n] : f.author = e.author /\ f.rev >= e.rev
    BY <2>1
  <2> QED
    BY <2>2 DEF Store
<1>4. e.rev \in Nat /\ e.val = val /\ e.val \in Nat /\ AgreedWith(e, val).rev = e.rev
      /\ AgreedWith(e, val).val = val
  BY <1>2, Numbers DEF AgreedWith
<1>5. held' = [held EXCEPT ![d][n] = Store(held[d][n], e)]
      /\ cycle' = [cycle EXCEPT ![d].at = "record", ![d].pending = AgreedWith(e, val)]
  BY <1>1
<1> HIDE DEF e
<1>6. Backed(held'[d][n], AgreedWith(e, val))
  <2>1. held'[d][n] = Store(held[d][n], e)
    BY <1>5 DEF TypeOK
  <2>2. AtOrPast(e, AgreedWith(e, val))
    BY <1>4 DEF AtOrPast
  <2> QED
    BY <1>3, <2>1, <2>2 DEF Backed
<1>7. /\ \A x \in Devices \ {d} : cycle'[x] = cycle[x]
      /\ cycle'[d].read = cycle[d].read /\ cycle'[d].todo = cycle[d].todo
      /\ cycle'[d].pending = AgreedWith(e, val)
  BY <1>5 DEF TypeOK, Cycle
<1>8. ReadIsBacked'
  <2>1. \A x \in Devices, m \in Names : cycle'[x].read[m] = cycle[x].read[m]
    BY <1>7
  <2>2. \A x \in Devices, m \in Names : \A f \in cycle[x].read[m] : Backed(held'[x][m], f)
    BY <1>2, <1>5, StoreGoesOn
  <2>3. \A x \in Devices, m \in Names : \A f, g \in cycle[x].read[m] :
          g.rev = f.rev /\ g.val = f.val
    BY DEF StoreIsAhead, ReadIsBacked
  <2> QED
    BY <2>1, <2>2, <2>3 DEF ReadIsBacked
<1>9. PendingIsBacked'
  <2> SUFFICES ASSUME NEW x \in Devices, NEW m \in Names, At(x, m, "record")'
               PROVE  Backed(held'[x][m], cycle'[x].pending)
    BY DEF PendingIsBacked
  <2>1. CASE x # d
    <3>1. At(x, m, "record") /\ cycle'[x].pending = cycle[x].pending
      BY <1>7, <2>1 DEF At
    <3> QED
      BY <1>2, <1>5, <3>1, StoreGoesOn
  <2>2. CASE x = d
    <3>1. m = n
      <4>1. n \in cycle[d].todo /\ m \in cycle[d].todo /\ n <= m /\ m <= n
        BY <1>7, <2>2 DEF At
      <4> QED
        BY <4>1, SyncAssumption
    <3> QED
      BY <1>6, <1>7, <2>2, <3>1
  <2> QED
    BY <2>1, <2>2
<1>10. AgreedIsBacked'
  BY <1>2, <1>5, StoreGoesOn DEF AgreedIsBacked
<1> QED
  BY <1>8, <1>9, <1>10 DEF StoreIsAhead

LEMMA ReplacesAhead ==
  ASSUME TypeOK, StoreIsAhead, NEW d \in Devices, NEW n \in Names,
         At(d, n, "write") \/ At(d, n, "rename"), Replaces(d, n)
  PROVE  StoreIsAhead'
<1>1. PICK one \in TheOne(cycle[d].read[n], d) :
        /\ cycle' = [cycle EXCEPT ![d].at = "record", ![d].pending = AgreedWith(one, one.val)]
        /\ held' = held /\ agreed' = agreed
  BY DEF Replaces, store
<1>2. /\ \A x \in Devices \ {d} : cycle'[x] = cycle[x]
      /\ cycle'[d].read = cycle[d].read /\ cycle'[d].todo = cycle[d].todo
      /\ cycle'[d].pending = AgreedWith(one, one.val)
  BY <1>1 DEF TypeOK, Cycle
<1>3. Backed(held[d][n], AgreedWith(one, one.val))
  <2>1. one \in cycle[d].read[n]
    BY TheOneTyped
  <2>2. Backed(held[d][n], one)
    BY <2>1 DEF StoreIsAhead, ReadIsBacked
  <2> QED
    BY <2>2 DEF Backed, AtOrPast, AgreedWith
<1>4. ReadIsBacked'
  <2>1. \A x \in Devices : cycle'[x].read = cycle[x].read
    BY <1>2
  <2> SUFFICES ASSUME NEW x \in Devices, NEW m \in Names, NEW e \in cycle'[x].read[m]
               PROVE  /\ Backed(held'[x][m], e)
                      /\ \A f \in cycle'[x].read[m] : f.rev = e.rev /\ f.val = e.val
    BY DEF ReadIsBacked
  <2>2. e \in cycle[x].read[m] /\ cycle'[x].read[m] = cycle[x].read[m] /\ held' = held
    BY <1>1, <2>1
  <2> QED
    BY <2>2 DEF StoreIsAhead, ReadIsBacked
<1>5. PendingIsBacked'
  <2> SUFFICES ASSUME NEW x \in Devices, NEW m \in Names, At(x, m, "record")'
               PROVE  Backed(held'[x][m], cycle'[x].pending)
    BY DEF PendingIsBacked
  <2>1. CASE x # d
    <3>1. At(x, m, "record") /\ cycle'[x].pending = cycle[x].pending
      BY <1>2, <2>1 DEF At
    <3> QED
      BY <1>1, <3>1 DEF StoreIsAhead, PendingIsBacked
  <2>2. CASE x = d
    <3>1. m = n
      <4>1. n \in cycle[d].todo /\ m \in cycle[d].todo /\ n <= m /\ m <= n
        BY <1>2, <2>2 DEF At
      <4> QED
        BY <4>1, SyncAssumption
    <3> QED
      BY <1>1, <1>2, <1>3, <2>2, <3>1
  <2> QED
    BY <2>1, <2>2
<1>6. AgreedIsBacked'
  BY <1>1 DEF AgreedIsBacked, StoreIsAhead
<1> QED
  BY <1>4, <1>5, <1>6 DEF StoreIsAhead

\* A record that is made.
LEMMA RecordsAhead ==
  ASSUME TypeOK, StoreIsAhead, NEW d \in Devices, NEW n \in Names,
         Record(d, n) \/ RecordAlone(d, n)
  PROVE  StoreIsAhead'
<1>1. ASSUME NEW record, Calm(d), held' = held,
             agreed' = [agreed EXCEPT ![d][n] = record], Backed(held[d][n], record)
      PROVE  StoreIsAhead'
  <2>1. ReadIsBacked' /\ PendingIsBacked'
    <3>1. /\ \A x \in Devices, m \in Names :
               cycle'[x].read[m] = cycle[x].read[m] \/ cycle'[x].read[m] = {}
          /\ \A x \in Devices, m \in Names :
               At(x, m, "record")' => At(x, m, "record") /\ cycle'[x].pending = cycle[x].pending
      BY <1>1 DEF Calm, At
    <3>2. ReadIsBacked'
      <4> SUFFICES ASSUME NEW x \in Devices, NEW m \in Names, NEW e \in cycle'[x].read[m]
                   PROVE  /\ Backed(held'[x][m], e)
                          /\ \A f \in cycle'[x].read[m] : f.rev = e.rev /\ f.val = e.val
        BY DEF ReadIsBacked
      <4>1. cycle'[x].read[m] = cycle[x].read[m]
        BY <3>1
      <4> QED
        BY <1>1, <4>1 DEF StoreIsAhead, ReadIsBacked
    <3>3. PendingIsBacked'
      BY <1>1, <3>1 DEF StoreIsAhead, PendingIsBacked
    <3> QED
      BY <3>2, <3>3
  <2>2. AgreedIsBacked'
    <3> SUFFICES ASSUME NEW x \in Devices, NEW m \in Names, agreed'[x][m] # NoRecord
                 PROVE  Backed(held'[x][m], agreed'[x][m])
      BY DEF AgreedIsBacked
    <3>1. agreed \in [Devices -> [Names -> Records]]
      BY DEF TypeOK
    <3>2. CASE x = d /\ m = n
      BY <1>1, <3>1, <3>2
    <3>3. CASE ~(x = d /\ m = n)
      <4>1. agreed'[x][m] = agreed[x][m]
        BY <1>1, <3>1, <3>3
      <4> QED
        BY <1>1, <4>1 DEF StoreIsAhead, AgreedIsBacked
    <3> QED
      BY <3>2, <3>3
  <2> QED
    BY <2>1, <2>2 DEF StoreIsAhead
<1>2. CASE Record(d, n)
  <2>1. Calm(d) /\ held' = held
    BY <1>2, CalmSteps DEF Record
  <2>2. CASE cycle[d].stale
    <3>1. agreed' = agreed
      BY <1>2, <2>2 DEF Record
    <3> QED
      BY <2>1, <3>1, CalmIsAhead
  <2>3. CASE ~cycle[d].stale
    <3>1. agreed' = [agreed EXCEPT ![d][n] = cycle[d].pending]
      BY <1>2, <2>3 DEF Record
    <3>2. Backed(held[d][n], cycle[d].pending)
      BY <1>2 DEF Record, StoreIsAhead, PendingIsBacked
    <3> QED
      BY <1>1, <2>1, <3>1, <3>2
  <2> QED
    BY <2>2, <2>3
<1>3. CASE RecordAlone(d, n)
  <2>1. Calm(d) /\ held' = held
    BY <1>3, CalmSteps DEF RecordAlone
  <2>2. PICK one \in TheOne(cycle[d].read[n], d) :
          /\ PlanOf(d, n).step = "record"
          /\ agreed' = [agreed EXCEPT ![d][n] = AgreedWith(one, cycle[d].listed[n])]
    BY <1>3 DEF RecordAlone
  <2> DEFINE first == CHOOSE e \in TheOne(cycle[d].read[n], d) : TRUE
  <2>3. first \in TheOne(cycle[d].read[n], d)
    OBVIOUS
  <2>4. one \in cycle[d].read[n] /\ first \in cycle[d].read[n] /\ first \in Entry
    <3>1. one \in cycle[d].read[n] /\ first \in cycle[d].read[n]
      BY <2>3, TheOneTyped
    <3> QED
      BY <3>1, ListedTyped
  <2>5. PlanOver(cycle[d].listed[n], first, cycle[d].read[n], cycle[d].was[n]).step = "record"
    BY <2>2, <2>4 DEF PlanOf, Planned
  <2> HIDE DEF first
  <2>6. cycle[d].listed[n] = one.val
    <3>1. cycle[d].listed[n] = first.val
      BY <2>4, <2>5, ListedTyped, RecordIsOfTheSame
    <3> QED
      BY <2>4, <3>1 DEF StoreIsAhead, ReadIsBacked
  <2>7. Backed(held[d][n], AgreedWith(one, cycle[d].listed[n]))
    <3>1. Backed(held[d][n], one)
      BY <2>4 DEF StoreIsAhead, ReadIsBacked
    <3> QED
      BY <2>6, <3>1 DEF Backed, AtOrPast, AgreedWith
  <2> QED
    BY <1>1, <2>1, <2>2, <2>7
<1> QED
  BY <1>2, <1>3

LEMMA ReadChannelAhead ==
  ASSUME TypeOK, StoreIsAhead, NEW d \in Devices, ReadChannel(d)
  PROVE  StoreIsAhead'
<1> DEFINE read == [n \in Names |-> Version(held[d][n])]
           todo == {n \in Names :
                 Planned(cycle[d].listed, d, n, read[n], agreed[d][n]).step # "nothing"}
           begun == [cycle[d] EXCEPT !.at = "turn", !.read = read, !.was = agreed[d],
                                     !.todo = todo]
<1>1. /\ cycle' = [cycle EXCEPT ![d] =
           IF todo = {} \/ (Makes(d) /\ cycle[d].stale) THEN Idle ELSE begun]
      /\ held' = held /\ agreed' = agreed
  BY DEF ReadChannel, store
<1> HIDE DEF todo
<1>2. /\ cycle'[d].at # "record"
      /\ cycle'[d].read = read \/ \A n \in Names : cycle'[d].read[n] = {}
  <2>1. begun.at = "turn" /\ begun.read = read
    BY DEF TypeOK, Cycle
  <2>2. cycle'[d] = Idle \/ cycle'[d] = begun
    BY <1>1 DEF TypeOK
  <2>3. Idle.at = "idle" /\ \A n \in Names : Idle.read[n] = {}
    BY DEF Idle
  <2> HIDE DEF begun, read
  <2> QED
    BY <2>1, <2>2, <2>3
<1>3. \A x \in Devices \ {d} : cycle'[x] = cycle[x]
  BY <1>1 DEF TypeOK
<1> HIDE DEF begun
<1>4. ReadIsBacked'
  <2> SUFFICES ASSUME NEW x \in Devices, NEW n \in Names, NEW e \in cycle'[x].read[n]
               PROVE  /\ Backed(held'[x][n], e)
                      /\ \A f \in cycle'[x].read[n] : f.rev = e.rev /\ f.val = e.val
    BY DEF ReadIsBacked
  <2>1. CASE x = d
    <3>1. cycle'[x].read[n] = Version(held[x][n])
      BY <1>2, <2>1
    <3> QED
      BY <1>1, <3>1, HeldTyped, VersionIsOne
  <2>2. CASE x # d
    BY <1>1, <1>3, <2>2 DEF StoreIsAhead, ReadIsBacked
  <2> QED
    BY <2>1, <2>2
<1>5. PendingIsBacked'
  <2> SUFFICES ASSUME NEW x \in Devices, NEW m \in Names, At(x, m, "record")'
               PROVE  Backed(held'[x][m], cycle'[x].pending)
    BY DEF PendingIsBacked
  <2>1. At(x, m, "record") /\ cycle'[x].pending = cycle[x].pending
    BY <1>2, <1>3 DEF At
  <2> QED
    BY <1>1, <2>1 DEF StoreIsAhead, PendingIsBacked
<1>6. AgreedIsBacked'
  BY <1>1 DEF AgreedIsBacked, StoreIsAhead
<1> QED
  BY <1>4, <1>5, <1>6 DEF StoreIsAhead

LEMMA ArriveAhead ==
  ASSUME TypeOK, StoreIsAhead, NEW d \in Devices, NEW c \in Devices, NEW n \in Names,
         NEW e \in held[c][n], Arrive(d, c, n, e)
  PROVE  StoreIsAhead'
<1>1. /\ held' = [held EXCEPT ![d][n] = Store(held[d][n], e)]
      /\ cycle' = cycle /\ agreed' = agreed
      /\ e \in Entry
  BY HeldTyped DEF Arrive, memory
<1>2. /\ \A x \in Devices, m \in Names : \A f \in cycle[x].read[m] : Backed(held'[x][m], f)
      /\ \A x \in Devices, m \in Names :
           At(x, m, "record") => Backed(held'[x][m], cycle[x].pending)
      /\ \A x \in Devices, m \in Names :
           agreed[x][m] # NoRecord => Backed(held'[x][m], agreed[x][m])
  BY <1>1, StoreGoesOn
<1>3. ReadIsBacked'
  <2>1. ReadIsBacked
    BY DEF StoreIsAhead
  <2> QED
    BY <1>1, <1>2, <2>1 DEF ReadIsBacked
<1>4. PendingIsBacked'
  BY <1>1, <1>2 DEF PendingIsBacked, At
<1>5. AgreedIsBacked'
  BY <1>1, <1>2 DEF AgreedIsBacked
<1> QED
  BY <1>3, <1>4, <1>5 DEF StoreIsAhead

\* Every step of a cycle's files.
LEMMA ApplyAhead ==
  ASSUME TypeOK, StoreIsAhead, NEW d \in Devices, NEW n \in Names, Apply(d, n)
  PROVE  StoreIsAhead'
<1> USE DEF store
<1>1. ASSUME NEW val \in Values, At(d, n, "turn") \/ At(d, n, "delete"),
             Publishes(d, n, val) \/ Unpublished(d, n), agreed' = agreed
      PROVE  StoreIsAhead'
  <2>1. CASE Publishes(d, n, val)
    BY <1>1, <2>1, PublishesAhead
  <2>2. CASE Unpublished(d, n)
    BY <1>1, <2>2, CalmSteps, CalmIsAhead DEF Unpublished
  <2> QED
    BY <1>1, <2>1, <2>2
<1>2. CASE PublishText(d, n)
  BY <1>1, <1>2, ListedTyped DEF PublishText, Turn, At
<1>3. CASE PublishDelete(d, n)
  BY <1>1, <1>3, NoneTyped DEF PublishDelete
<1>4. CASE LookForDelete(d, n)
  BY <1>4, CalmSteps, CalmIsAhead DEF LookForDelete
<1>5. CASE FindCopy(d, n)
  BY <1>5, CalmSteps, CalmIsAhead DEF FindCopy
<1>6. CASE ClaimCopy(d, n)
  BY <1>6, CalmSteps, CalmIsAhead DEF ClaimCopy
<1>7. CASE NoName(d, n)
  BY <1>7, CalmSteps, CalmIsAhead DEF NoName
<1>8. CASE WriteCopy(d, n)
  BY <1>8, CalmSteps, CalmIsAhead DEF WriteCopy
<1>9. CASE StartWrite(d, n)
  BY <1>9, CalmSteps, CalmIsAhead DEF StartWrite
<1>10. CASE LastLook(d, n)
  BY <1>10, CalmSteps, CalmIsAhead DEF LastLook
<1>11. CASE Defer(d, n)
  BY <1>11, CalmSteps, CalmIsAhead DEF Defer
<1>12. CASE Replace(d, n) \/ Rename(d, n)
  BY <1>12, ReplacesAhead DEF Replace, Rename
<1>13. CASE Record(d, n) \/ RecordAlone(d, n)
  BY <1>13, RecordsAhead
<1> QED
  BY <1>2, <1>3, <1>4, <1>5, <1>6, <1>7, <1>8, <1>9, <1>10, <1>11, <1>12, <1>13 DEF Apply

\* Every step of the node, the agent and the folder.
LEMMA NextAhead == TypeOK /\ StoreIsAhead /\ [Next]_vars => StoreIsAhead'
<1> SUFFICES ASSUME TypeOK, StoreIsAhead, [Next]_vars PROVE StoreIsAhead'
  OBVIOUS
<1> USE DEF store, memory
<1>1. CASE UNCHANGED vars
  BY <1>1 DEF vars, StoreIsAhead, ReadIsBacked, PendingIsBacked, AgreedIsBacked, At
<1>2. CASE Next
  <2>1. PICK d \in Devices :
          \/ \E n \in Names, text \in Texts : Write(d, n, text)
          \/ \E n \in Names : Remove(d, n)
          \/ FolderGoes(d) \/ FolderBack(d) \/ ListAsItGoes(d)
          \/ Arrives(d)
          \/ Crash(d)
          \/ OtherCommand(d) \/ Unmap(d) \/ Map(d)
          \/ CycleStep(d)
    BY <1>2 DEF Next
  <2>2. ASSUME Names # {},
               \/ \E n \in Names, text \in Texts : Write(d, n, text)
               \/ \E n \in Names : Remove(d, n)
               \/ FolderGoes(d) \/ FolderBack(d) \/ ListAsItGoes(d)
               \/ Crash(d)
               \/ OtherCommand(d) \/ Unmap(d) \/ Map(d)
               \/ List(d) \/ ReadGone(d) \/ Stop(d)
        PROVE  StoreIsAhead'
    <3>1. Calm(d)
      BY <2>2, CalmSteps DEF Write, Remove, FolderGoes, FolderBack, ListAsItGoes,
        Crash, OtherCommand, Unmap, Map, Command, List, ReadGone, Stop
    <3>2. held' = held /\ (agreed' = agreed \/ Forget(d))
      BY <2>2 DEF Write, Remove, FolderGoes, FolderBack, ListAsItGoes,
        Crash, OtherCommand, Unmap, Map, Command, List, ReadGone, Stop
    <3> QED
      BY <3>1, <3>2, CalmIsAhead
  <2>3. CASE Names = {}
    BY <2>3 DEF StoreIsAhead, ReadIsBacked, PendingIsBacked, AgreedIsBacked
  <2> QED
    BY <2>1, <2>2, <2>3, ArriveAhead, ReadChannelAhead, ApplyAhead DEF Arrives, CycleStep
<1> QED
  BY <1>1, <1>2

LEMMA AheadIsBacked == TypeOK /\ StoreIsAhead => RecordsAreBacked
<1> SUFFICES ASSUME TypeOK, StoreIsAhead, NEW d \in Devices, NEW n \in Names,
                    agreed[d][n] # NoRecord
             PROVE  /\ held[d][n] # {}
                    /\ \A e \in Version(held[d][n]) : AtOrPast(e, agreed[d][n])
  BY DEF RecordsAreBacked
<1>1. PICK f \in held[d][n] : AtOrPast(f, agreed[d][n])
  BY DEF StoreIsAhead, AgreedIsBacked, Backed
<1>2. ASSUME NEW e \in Version(held[d][n]) PROVE AtOrPast(e, agreed[d][n])
  <2>1. /\ e.rev \in Nat /\ e.val \in Nat /\ f.rev \in Nat /\ f.val \in Nat
        /\ agreed[d][n].rev \in Nat /\ agreed[d][n].val \in Nat
    BY HeldTyped, Numbers DEF Version
  <2>2. f.rev < e.rev \/ (f.rev = e.rev /\ f.val <= e.val)
    BY DEF Version
  <2> QED
    BY <1>1, <2>1, <2>2 DEF AtOrPast
<1> QED
  BY <1>1, <1>2

\* A folder's record is never ahead of its store, whatever arrives between a
\* cycle's read and its record, and whatever stops, goes or is forgotten.
THEOREM RecordsAlwaysBacked == Spec => []RecordsAreBacked
<1>1. Init => TypeOK /\ StoreIsAhead
  <2>1. Init => StoreIsAhead
    BY DEF Init, StoreIsAhead, ReadIsBacked, PendingIsBacked, AgreedIsBacked, At, Idle
  <2> QED
    BY <2>1, InitTyped
<1>2. TypeOK /\ StoreIsAhead /\ [Next]_vars => (TypeOK /\ StoreIsAhead)'
  BY NextTyped, NextAhead
<1> QED
  BY <1>1, <1>2, AheadIsBacked, PTL DEF Spec

-----------------------------------------------------------------------------
(***************************************************************************)
(* Nothing is published or recorded after the folder has stopped syncing.  *)
(*                                                                         *)
(* The command that stops it may come at any point of a cycle.  It marks   *)
(* the cycle that runs, no step of a cycle takes the mark off, and a cycle *)
(* begins only in a folder that syncs: so where the folder does not sync,  *)
(* a cycle that runs is marked, and a marked cycle leaves the store and    *)
(* the records alone.                                                      *)
(***************************************************************************)
Marked(c) == c.at = "idle" \/ c.stale

StoppedIsMarked == \A d \in Devices : ~mapped[d] => Marked(cycle[d])

\* The cycle of d stays marked where it is, and no other cycle is disturbed.
KeepsMark(d) ==
  /\ \A x \in Devices \ {d} : cycle'[x] = cycle[x]
  /\ Marked(cycle[d]) => Marked(cycle'[d])

\* What a cycle becomes when it goes on: nothing, or what it was, with its
\* mark.
GoesOn(d, c) == c.at = "idle" \/ (cycle[d].at # "idle" /\ c.stale = cycle[d].stale)

LEMMA GoesOnMarked ==
  ASSUME TypeOK, NEW d \in Devices, NEW c, GoesOn(d, c), cycle' = [cycle EXCEPT ![d] = c]
  PROVE  KeepsMark(d)
<1>1. cycle'[d] = c /\ \A x \in Devices \ {d} : cycle'[x] = cycle[x]
  BY DEF TypeOK
<1> QED
  BY <1>1 DEF KeepsMark, Marked, GoesOn

LEMMA IdleIsMarked ==
  ASSUME TypeOK, NEW d \in Devices, cycle' = [cycle EXCEPT ![d] = Idle]
  PROVE  KeepsMark(d)
<1>1. GoesOn(d, Idle)
  BY DEF GoesOn, Idle
<1> QED
  BY <1>1, GoesOnMarked

LEMMA ThroughKeepsMark ==
  ASSUME TypeOK, NEW d \in Devices, NEW n \in Names, cycle[d].at # "idle", Through(d, n)
  PROVE  KeepsMark(d)
<1> DEFINE next == [cycle[d] EXCEPT !.at = "turn", !.todo = cycle[d].todo \ {n}, !.relied = {},
                                    !.pending = NoRecord]
<1>1. cycle' = [cycle EXCEPT ![d] = Idle] \/ cycle' = [cycle EXCEPT ![d] = next]
  <2>1. CASE cycle[d].todo = {n}
    BY <2>1 DEF Through
  <2>2. CASE cycle[d].todo # {n}
    BY <2>2 DEF Through
  <2> QED
    BY <2>1, <2>2
<1>2. cycle[d] \in Cycle
  BY DEF TypeOK
<1>3. next.stale = cycle[d].stale
  BY <1>2 DEF Cycle
<1>4. GoesOn(d, next)
  BY <1>3 DEF GoesOn
<1> HIDE DEF next
<1> QED
  BY <1>1, <1>4, GoesOnMarked, IdleIsMarked

LEMMA GoesToKeepsMark ==
  ASSUME TypeOK, NEW d \in Devices, cycle[d].at # "idle",
         \/ \E at : GoesTo(d, at)
         \/ \E at, relied : cycle' = [cycle EXCEPT ![d].at = at, ![d].relied = relied]
         \/ \E at, pending : cycle' = [cycle EXCEPT ![d].at = at, ![d].pending = pending]
  PROVE  KeepsMark(d)
<1> DEFINE A(at) == [cycle[d] EXCEPT !.at = at]
           R(at, relied) == [cycle[d] EXCEPT !.at = at, !.relied = relied]
           P(at, pending) == [cycle[d] EXCEPT !.at = at, !.pending = pending]
<1>0. cycle[d] \in Cycle
  BY DEF TypeOK
<1>1. ASSUME NEW at, GoesTo(d, at) PROVE KeepsMark(d)
  <2>1. A(at).stale = cycle[d].stale
    BY <1>0 DEF Cycle
  <2>2. cycle' = [cycle EXCEPT ![d] = A(at)]
    BY <1>1 DEF GoesTo
  <2> HIDE DEF A
  <2> QED
    BY <2>1, <2>2, GoesOnMarked DEF GoesOn
<1>2. ASSUME NEW at, NEW relied, cycle' = [cycle EXCEPT ![d].at = at, ![d].relied = relied]
      PROVE  KeepsMark(d)
  <2>1. R(at, relied).stale = cycle[d].stale
    BY <1>0 DEF Cycle
  <2>2. cycle' = [cycle EXCEPT ![d] = R(at, relied)]
    BY <1>2
  <2> HIDE DEF R
  <2> QED
    BY <2>1, <2>2, GoesOnMarked DEF GoesOn
<1>3. ASSUME NEW at, NEW pending, cycle' = [cycle EXCEPT ![d].at = at, ![d].pending = pending]
      PROVE  KeepsMark(d)
  <2>1. P(at, pending).stale = cycle[d].stale
    BY <1>0 DEF Cycle
  <2>2. cycle' = [cycle EXCEPT ![d] = P(at, pending)]
    BY <1>3
  <2> HIDE DEF P
  <2> QED
    BY <2>1, <2>2, GoesOnMarked DEF GoesOn
<1> QED
  BY <1>1, <1>2, <1>3

\* No step of a cycle takes the mark off.
LEMMA ApplyKeepsMark ==
  ASSUME TypeOK, NEW d \in Devices, NEW n \in Names, Apply(d, n)
  PROVE  KeepsMark(d)
<1>0. cycle[d].at # "idle"
  <2>1. CASE PublishText(d, n) \/ LookForDelete(d, n) \/ PublishDelete(d, n)
    BY <2>1 DEF PublishText, LookForDelete, PublishDelete, Turn, At
  <2>2. CASE FindCopy(d, n) \/ ClaimCopy(d, n) \/ NoName(d, n) \/ WriteCopy(d, n)
    BY <2>2 DEF FindCopy, ClaimCopy, NoName, WriteCopy, Keeps, Turn, At
  <2>3. CASE StartWrite(d, n) \/ Replace(d, n) \/ LastLook(d, n) \/ Rename(d, n) \/ Defer(d, n)
    BY <2>3 DEF StartWrite, Replace, LastLook, Rename, Defer, Turn, At
  <2>4. CASE Record(d, n) \/ RecordAlone(d, n)
    BY <2>4 DEF Record, RecordAlone, Turn, At
  <2> QED
    BY <2>1, <2>2, <2>3, <2>4 DEF Apply
<1>1. CASE PublishText(d, n) \/ PublishDelete(d, n)
  <2>1. ASSUME NEW val, Publishes(d, n, val) PROVE KeepsMark(d)
    <3>1. PICK pending :
            cycle' = [cycle EXCEPT ![d].at = "record", ![d].pending = pending]
      BY <2>1 DEF Publishes
    <3> QED
      BY <1>0, <3>1, GoesToKeepsMark
  <2>2. CASE Unpublished(d, n)
    BY <1>0, <2>2, ThroughKeepsMark DEF Unpublished
  <2> QED
    BY <1>1, <2>1, <2>2 DEF PublishText, PublishDelete
<1>2. CASE LookForDelete(d, n)
  <2>1. cycle' = [cycle EXCEPT ![d] = Idle] \/ Through(d, n) \/ GoesTo(d, "delete")
    BY <1>2 DEF LookForDelete
  <2> QED
    BY <1>0, <2>1, IdleIsMarked, ThroughKeepsMark, GoesToKeepsMark
<1>3. CASE FindCopy(d, n) \/ ClaimCopy(d, n)
  <2>1. PICK at, relied : cycle' = [cycle EXCEPT ![d].at = at, ![d].relied = relied]
    BY <1>3 DEF FindCopy, ClaimCopy
  <2> QED
    BY <1>0, <2>1, GoesToKeepsMark
<1>4. CASE NoName(d, n) \/ WriteCopy(d, n) \/ StartWrite(d, n) \/ LastLook(d, n) \/ Defer(d, n)
  <2>1. Through(d, n) \/ \E at : GoesTo(d, at)
    BY <1>4 DEF NoName, WriteCopy, StartWrite, LastLook, Defer
  <2> QED
    BY <1>0, <2>1, ThroughKeepsMark, GoesToKeepsMark
<1>5. CASE Replace(d, n) \/ Rename(d, n)
  <2>1. PICK pending :
          cycle' = [cycle EXCEPT ![d].at = "record", ![d].pending = pending]
    BY <1>5 DEF Replace, Rename, Replaces
  <2> QED
    BY <1>0, <2>1, GoesToKeepsMark
<1>6. CASE Record(d, n) \/ RecordAlone(d, n)
  BY <1>0, <1>6, ThroughKeepsMark DEF Record, RecordAlone
<1> QED
  BY <1>1, <1>2, <1>3, <1>4, <1>5, <1>6 DEF Apply

LEMMA ReadChannelKeepsMark ==
  ASSUME TypeOK, NEW d \in Devices, ReadChannel(d)
  PROVE  KeepsMark(d)
<1>1. PICK read, was, todo :
         \/ cycle' = [cycle EXCEPT ![d] = Idle]
         \/ cycle' = [cycle EXCEPT ![d] =
              [@ EXCEPT !.at = "turn", !.read = read, !.was = was, !.todo = todo]]
  BY DEF ReadChannel
<1> DEFINE begun ==
      [cycle[d] EXCEPT !.at = "turn", !.read = read, !.was = was, !.todo = todo]
<1>2. cycle[d] \in Cycle
  BY DEF TypeOK
<1>3. begun.stale = cycle[d].stale
  BY <1>2 DEF Cycle
<1>4. cycle[d].at # "idle"
  BY DEF ReadChannel
<1>5. cycle' = [cycle EXCEPT ![d] = Idle] \/ cycle' = [cycle EXCEPT ![d] = begun]
  BY <1>1
<1> HIDE DEF begun
<1> QED
  BY <1>3, <1>4, <1>5, GoesOnMarked, IdleIsMarked DEF GoesOn

LEMMA MarkedGoesOn ==
  ASSUME StoppedIsMarked, NEW d \in Devices, KeepsMark(d),
         mapped' = mapped \/ \E to \in BOOLEAN : mapped' = [mapped EXCEPT ![d] = to]
                                                   /\ (~to => Marked(cycle'[d]))
  PROVE  TypeOK => StoppedIsMarked'
<1> SUFFICES ASSUME TypeOK, NEW x \in Devices, ~mapped'[x] PROVE Marked(cycle'[x])
  BY DEF StoppedIsMarked
<1>1. CASE x # d
  BY <1>1 DEF StoppedIsMarked, KeepsMark, TypeOK
<1>2. CASE x = d
  BY <1>2 DEF StoppedIsMarked, KeepsMark, TypeOK
<1> QED
  BY <1>1, <1>2

LEMMA NextMarked == TypeOK /\ StoppedIsMarked /\ [Next]_vars => StoppedIsMarked'
<1> SUFFICES ASSUME TypeOK, StoppedIsMarked, [Next]_vars PROVE StoppedIsMarked'
  OBVIOUS
<1> USE DEF store, memory, disk, ghosts
<1>1. CASE UNCHANGED vars
  BY <1>1 DEF vars, StoppedIsMarked
<1>2. CASE Next
  <2>1. PICK d \in Devices :
          \/ \E n \in Names, text \in Texts : Write(d, n, text)
          \/ \E n \in Names : Remove(d, n)
          \/ FolderGoes(d) \/ FolderBack(d) \/ ListAsItGoes(d)
          \/ Arrives(d)
          \/ Crash(d)
          \/ OtherCommand(d) \/ Unmap(d) \/ Map(d)
          \/ CycleStep(d)
    BY <1>2 DEF Next
  <2> DEFINE new == cycle' = [cycle EXCEPT ![d].stale = cycle[d].at # "idle"]
  <2>2. ASSUME new PROVE KeepsMark(d) /\ Marked(cycle'[d])
    <3>1. cycle[d] \in Cycle /\ cycle'[d] = [cycle[d] EXCEPT !.stale = cycle[d].at # "idle"]
          /\ \A x \in Devices \ {d} : cycle'[x] = cycle[x]
      BY <2>2 DEF TypeOK
    <3> QED
      BY <3>1 DEF Marked, Cycle, KeepsMark
  <2>3. ASSUME \/ \E n \in Names, text \in Texts : Write(d, n, text)
               \/ \E n \in Names : Remove(d, n)
               \/ FolderGoes(d) \/ FolderBack(d)
               \/ Arrives(d)
        PROVE  StoppedIsMarked'
    <3>1. cycle' = cycle /\ mapped' = mapped
      BY <2>3 DEF Write, Remove, FolderGoes, FolderBack, Arrives, Arrive
    <3> QED
      BY <3>1 DEF StoppedIsMarked
  <2>4. ASSUME Crash(d) \/ ReadGone(d) \/ Stop(d)
        PROVE  StoppedIsMarked'
    <3>1. cycle' = [cycle EXCEPT ![d] = Idle] /\ mapped' = mapped
      BY <2>4 DEF Crash, ReadGone, Stop
    <3>2. KeepsMark(d)
      BY <3>1, IdleIsMarked
    <3> QED
      BY <3>1, <3>2, MarkedGoesOn
  <2>5. ASSUME List(d) \/ ListAsItGoes(d) PROVE StoppedIsMarked'
    <3>1. mapped[d] /\ mapped' = mapped /\ \E listed, missing : Listing(d, listed, missing)
      BY <2>5 DEF List, ListAsItGoes, Listing
    <3>2. \A x \in Devices \ {d} : cycle'[x] = cycle[x]
      BY <3>1 DEF Listing, TypeOK
    <3> QED
      BY <3>1, <3>2 DEF StoppedIsMarked
  <2>6. ASSUME OtherCommand(d) \/ Unmap(d) \/ Map(d) PROVE StoppedIsMarked'
    <3>1. new /\ (mapped' = mapped \/ \E to \in BOOLEAN : mapped' = [mapped EXCEPT ![d] = to])
      BY <2>6 DEF OtherCommand, Unmap, Map, Command
    <3> QED
      BY <3>1, <2>2, MarkedGoesOn
  <2>7. ASSUME ReadChannel(d) PROVE StoppedIsMarked'
    <3>1. KeepsMark(d)
      BY <2>7, ReadChannelKeepsMark
    <3>2. mapped' = mapped
      BY <2>7 DEF ReadChannel
    <3> QED
      BY <3>1, <3>2, MarkedGoesOn
  <2>8. ASSUME NEW n \in Names, Apply(d, n) PROVE StoppedIsMarked'
    <3>1. mapped' = mapped
      BY <2>8 DEF Apply, PublishText, LookForDelete, PublishDelete, FindCopy, ClaimCopy,
        NoName, WriteCopy, StartWrite, Replace, Replaces, LastLook, Rename, Defer, Record,
        RecordAlone
    <3> QED
      BY <2>8, <3>1, ApplyKeepsMark, MarkedGoesOn
  <2> QED
    BY <2>1, <2>3, <2>4, <2>5, <2>6, <2>7, <2>8 DEF CycleStep
<1> QED
  BY <1>1, <1>2

\* A marked cycle, and a folder that does not sync: the store and the
\* records are left alone.
LEMMA MarkedLeavesAlone ==
  ASSUME StoppedIsMarked, NEW d \in Devices, ~mapped[d], CycleStep(d)
  PROVE  UNCHANGED <<held, agreed>>
<1> USE DEF store
<1>1. Marked(cycle[d])
  BY DEF StoppedIsMarked
<1>2. CASE List(d) \/ ReadGone(d) \/ ReadChannel(d) \/ Stop(d)
  BY <1>2 DEF List, ReadGone, ReadChannel, Stop
<1>3. ASSUME NEW n \in Names, Apply(d, n) PROVE UNCHANGED <<held, agreed>>
  <2>1. CASE PublishText(d, n) \/ RecordAlone(d, n)
    BY <1>1, <2>1 DEF PublishText, RecordAlone, Turn, Marked
  <2>2. CASE PublishDelete(d, n)
    BY <1>1, <2>2 DEF PublishDelete, Publishes, Unpublished, At, Marked
  <2>3. CASE Record(d, n)
    BY <1>1, <2>3 DEF Record, At, Marked
  <2>4. CASE \/ LookForDelete(d, n) \/ FindCopy(d, n) \/ ClaimCopy(d, n) \/ NoName(d, n)
             \/ WriteCopy(d, n) \/ StartWrite(d, n) \/ Replace(d, n) \/ LastLook(d, n)
             \/ Rename(d, n) \/ Defer(d, n)
    BY <2>4 DEF LookForDelete, FindCopy, ClaimCopy, NoName, WriteCopy, StartWrite, Replace,
      Replaces, LastLook, Rename, Defer
  <2> QED
    BY <1>3, <2>1, <2>2, <2>3, <2>4 DEF Apply
<1> QED
  BY <1>2, <1>3 DEF CycleStep

\* Such a cycle begins to write no file, and a write that it was at is its
\* last.
LEMMA MarkedWritesNoMore ==
  ASSUME TypeOK, StoppedIsMarked, NEW d \in Devices, ~mapped[d], CycleStep(d)
  PROVE  /\ cycle'[d].at \in Writing => cycle[d].at \in Writing
         /\ file'[d] # file[d] => cycle'[d].at \notin Writing
<1> DEFINE Over == cycle'[d].at \notin Writing
           StaysAt == file' = file /\ cycle'[d].at \in Writing /\ cycle[d].at \in Writing
<1> USE DEF disk
<1>1. Marked(cycle[d]) /\ cycle \in [Devices -> Cycle]
  BY DEF StoppedIsMarked, TypeOK
<1>2. CASE List(d)
  BY <1>2 DEF List, Listing
<1>3. CASE ReadGone(d) \/ Stop(d)
  <2>1. cycle'[d] = Idle
    BY <1>1, <1>3 DEF ReadGone, Stop
  <2> QED
    BY <2>1 DEF Idle, Writing
<1>4. CASE ReadChannel(d)
  <2>1. cycle'[d].at \in {"idle", "turn"}
    BY <1>1, <1>4 DEF ReadChannel, Idle, Cycle
  <2> QED
    BY <2>1 DEF Writing
<1>5. ASSUME NEW n \in Names, Apply(d, n) PROVE Over \/ StaysAt
  <2>1. ASSUME Through(d, n) PROVE Over
    <3>1. cycle'[d].at \in {"idle", "turn"}
      BY <1>1, <2>1 DEF Through, Idle, Cycle
    <3> QED
      BY <3>1 DEF Writing
  <2>2. ASSUME NEW at, GoesTo(d, at) PROVE cycle'[d].at = at
    BY <1>1, <2>2 DEF GoesTo, Cycle
  <2>3. ~Turn(d, n)
    BY <1>1 DEF Turn, Marked
  <2>4. CASE PublishDelete(d, n)
    BY <1>1, <2>1, <2>4 DEF PublishDelete, Publishes, Unpublished, At, Marked
  <2>5. CASE WriteCopy(d, n)
    BY <2>1, <2>2, <2>5 DEF WriteCopy, Writing
  <2>6. CASE StartWrite(d, n)
    BY <1>1, <2>1, <2>3, <2>6 DEF StartWrite, At, Marked
  <2>7. CASE Replace(d, n) \/ Rename(d, n)
    <3>1. cycle'[d].at = "record"
      BY <1>1, <2>7 DEF Replace, Rename, Replaces, Cycle
    <3> QED
      BY <3>1 DEF Writing
  <2>8. CASE LastLook(d, n)
    BY <2>2, <2>8 DEF LastLook, At, Writing
  <2>9. CASE Defer(d, n) \/ Record(d, n)
    BY <2>1, <2>9 DEF Defer, Record
  <2>10. CASE \/ PublishText(d, n) \/ LookForDelete(d, n) \/ FindCopy(d, n)
              \/ ClaimCopy(d, n) \/ NoName(d, n) \/ RecordAlone(d, n)
    BY <2>3, <2>10 DEF PublishText, LookForDelete, FindCopy, ClaimCopy, NoName, Keeps,
      RecordAlone
  <2> QED
    BY <1>5, <2>4, <2>5, <2>6, <2>7, <2>8, <2>9, <2>10 DEF Apply
<1> QED
  BY <1>2, <1>3, <1>4, <1>5 DEF CycleStep

\* A folder that has stopped syncing is left out of the channel from the
\* step on that stopped it, wherever the cycle was that ran then: it
\* publishes nothing more and records nothing more, and but for a file that
\* it was writing already it writes none.
THEOREM NothingIsDoneAfterStop == Spec => NothingAfterStop
<1>1. Init => TypeOK /\ StoppedIsMarked
  BY InitTyped DEF Init, StoppedIsMarked
<1>2. TypeOK /\ StoppedIsMarked /\ [Next]_vars => (TypeOK /\ StoppedIsMarked)'
  BY NextTyped, NextMarked
<1>3. TypeOK /\ StoppedIsMarked /\ [Next]_vars =>
        [\A d \in Devices : (~mapped[d] /\ CycleStep(d)) =>
           /\ UNCHANGED <<held, agreed>>
           /\ cycle'[d].at \in Writing => cycle[d].at \in Writing
           /\ file'[d] # file[d] => cycle'[d].at \notin Writing]_vars
  BY MarkedLeavesAlone, MarkedWritesNoMore
<1> QED
  BY <1>1, <1>2, <1>3, PTL DEF Spec, NothingAfterStop
-----------------------------------------------------------------------------
(***************************************************************************)
(* What the plan of one file says (plan.rs).                               *)
(***************************************************************************)
\* A file that holds a text is replaced or removed without that text being
\* kept only where the folder agreed the text, and the channel's version is
\* a later one of which every entry shows that it was written after it.
THEOREM ReplacedOnlyIfKnown ==
  ASSUME NEW local \in Values \ {NoText}, NEW one \in Entry, NEW version,
         NEW record \in Records,
         PlanOver(local, one, version, record).step \in {"pull", "remove"},
         ~PlanOver(local, one, version, record).keep
  PROVE  /\ record # NoRecord /\ local = record.val
         /\ one.rev > record.rev
         /\ Follows(version, record.val)
<1>1. record = NoRecord \/ record # NoRecord
  OBVIOUS
<1> QED
  BY <1>1 DEF PlanOver, Do, KeepThen, NoRecord

\* A delete is planned only where the folder agreed a text, the file is not
\* there, and the channel's version holds that text still.
THEOREM DeletedOnlyIfAgreed ==
  ASSUME NEW local \in Values, NEW one \in Entry, NEW version, NEW record \in Records,
         PlanOver(local, one, version, record).step = "publishDelete"
  PROVE  /\ record # NoRecord
         /\ local = NoText /\ one.val # NoText /\ record.val = one.val
<1>1. record = NoRecord \/ record # NoRecord
  OBVIOUS
<1> QED
  BY <1>1 DEF PlanOver, Do, KeepThen, NoRecord

\* A text is published over a version only where the version is the value
\* that the folder agreed, or a delete: never over another text.
THEOREM NoTextPublishedOverAnother ==
  ASSUME NEW local \in Values, NEW one \in Entry, NEW version, NEW record \in Records,
         PlanOver(local, one, version, record).step = "publish"
  PROVE  /\ local # NoText
         /\ one.val = NoText \/ (record # NoRecord /\ one.val = record.val)
<1>1. record = NoRecord \/ record # NoRecord
  OBVIOUS
<1> QED
  BY <1>1 DEF PlanOver, Do, KeepThen, NoRecord
-----------------------------------------------------------------------------
(***************************************************************************)
(* A delete is published only of what the agent removed.                   *)
(*                                                                         *)
(* Where no node stops and no settings change between a file and its       *)
(* record, each name that the folder agreed a text under and has no file   *)
(* under is one that the agent removed; so is each whose text a cycle has  *)
(* listed and whose file is not there, until the cycle has settled it.     *)
(* Here f is what is in the folder, a its records, r what the agent        *)
(* removed and c its cycle.                                                *)
(***************************************************************************)
First(c, n) == n \in c.todo /\ \A m \in c.todo : n <= m

Recording(c, n) == c.at = "record" /\ First(c, n)

\* The cycle has still to settle n.
Unsettled(c, n) ==
  c.at = "listed" \/ (c.at # "idle" /\ n \in c.todo /\ ~Recording(c, n))

\* What is known of n, where there is no file under it.
Missed(n, a, r, c) ==
  /\ (a[n].val # NoText /\ ~(Recording(c, n) /\ c.pending.val = NoText)) => n \in r
  /\ (Unsettled(c, n) /\ c.listed[n] # NoText) => n \in r
  /\ (Recording(c, n) /\ c.pending.val # NoText) => n \in r

\* And of a name that a cycle has still to do, file or none.
Planning(n, a, r, c) ==
  /\ (c.at \notin {"idle", "listed"} /\ n \in c.todo) => a[n] = c.was[n]
  /\ (c.at = "delete" /\ First(c, n)) => n \in r
  /\ (c.at = "copy" /\ First(c, n)) => c.listed[n] # NoText

Accounted(f, a, r, c) ==
  /\ ~c.stale
  /\ \A n \in Names : (f[n] = NoText => Missed(n, a, r, c)) /\ Planning(n, a, r, c)

RemovalsAccounted ==
  /\ left \in [Rare -> Nat] /\ left["crash"] = 0 /\ left["command"] = 0
  /\ \A d \in Devices : mapped[d] /\ Accounted(file[d], agreed[d], removed[d], cycle[d])

LEMMA OnlyFirst ==
  ASSUME NEW c \in Cycle, NEW n \in Names, First(c, n), NEW m \in Names, First(c, m)
  PROVE  m = n
<1>1. n <= m /\ m <= n /\ n \in Nat /\ m \in Nat
  BY SyncAssumption DEF First
<1> QED
  BY <1>1

\* A cycle that ends, or has not begun its files.
LEMMA IdleAccounted ==
  ASSUME NEW f, NEW a, NEW r, NEW c, Accounted(f, a, r, c), c.at # "record"
  PROVE  Accounted(f, a, r, Idle)
BY DEF Accounted, Missed, Planning, Unsettled, Recording, Idle

LEMMA ListedAccounted ==
  ASSUME NEW f, NEW a, NEW r, NEW c, NEW new, Accounted(f, a, r, c), c.at = "idle",
         new.at = "listed", ~new.stale,
         \A n \in Names : f[n] = NoText => new.listed[n] = NoText
  PROVE  Accounted(f, a, r, new)
BY DEF Accounted, Missed, Planning, Unsettled, Recording

\* The cycle moves on within a file, not to its delete or its record.
LEMMA MovesAccounted ==
  ASSUME NEW f, NEW a, NEW r, NEW c \in Cycle, NEW new, Accounted(f, a, r, c),
         c.at \in {"turn", "copy", "kept", "write", "rename"},
         new.at \in {"turn", "copy", "kept", "write", "rename"},
         new.todo = c.todo, new.listed = c.listed, new.was = c.was, new.stale = c.stale,
         NEW n \in Names, First(c, n), new.at = "copy" => c.listed[n] # NoText
  PROVE  Accounted(f, a, r, new)
<1>1. ASSUME NEW m \in Names, First(new, m) PROVE m = n
  <2>1. First(c, m)
    BY <1>1 DEF First
  <2> QED
    BY <2>1, OnlyFirst
<1>2. ASSUME NEW m \in Names PROVE f[m] = NoText => Missed(m, a, r, new)
  BY DEF Accounted, Missed, Unsettled, Recording, First
<1>3. ASSUME NEW m \in Names PROVE Planning(m, a, r, new)
  BY <1>1 DEF Accounted, Planning
<1> QED
  BY <1>2, <1>3 DEF Accounted

\* A delete is taken up where the folder, listed again, does not have the
\* name, and a text was agreed of it.
LEMMA DeleteAccounted ==
  ASSUME NEW f, NEW a, NEW r, NEW c \in Cycle, NEW new, Accounted(f, a, r, c),
         NEW n \in Names, c.at = "turn", First(c, n), f[n] = NoText, c.was[n].val # NoText,
         new.at = "delete", new.todo = c.todo, new.listed = c.listed, new.was = c.was,
         new.stale = c.stale
  PROVE  Accounted(f, a, r, new)
<1>1. n \in r
  BY DEF Accounted, Missed, Planning, Recording, First
<1>2. ASSUME NEW m \in Names, First(new, m) PROVE m = n
  <2>1. First(c, m)
    BY <1>2 DEF First
  <2> QED
    BY <2>1, OnlyFirst
<1>3. ASSUME NEW m \in Names PROVE f[m] = NoText => Missed(m, a, r, new)
  BY DEF Accounted, Missed, Unsettled, Recording, First
<1>4. ASSUME NEW m \in Names PROVE Planning(m, a, r, new)
  BY <1>1, <1>2 DEF Accounted, Planning
<1> QED
  BY <1>3, <1>4 DEF Accounted

\* The cycle is through with n, left for the next cycle.
LEMMA LeftAccounted ==
  ASSUME NEW f, NEW a, NEW r, NEW c, NEW new, Accounted(f, a, r, c), NEW n \in Names,
         c.at \notin {"idle", "listed", "record"},
         new.at = "turn", new.todo = c.todo \ {n}, new.listed = c.listed, new.was = c.was,
         new.stale = c.stale
  PROVE  Accounted(f, a, r, new)
BY DEF Accounted, Missed, Planning, Unsettled, Recording, First

\* A record is to be made of n: of a text or of a delete.
LEMMA PendingAccounted ==
  ASSUME NEW f, NEW a, NEW r, NEW c \in Cycle, NEW new, NEW g, NEW s, Accounted(f, a, r, c),
         NEW n \in Names, First(c, n), c.at \notin {"idle", "listed", "record"},
         new.at = "record", new.todo = c.todo, new.listed = c.listed, new.was = c.was,
         new.stale = c.stale,
         \A m \in Names \ {n} : g[m] = f[m] /\ (m \in s <=> m \in r),
         (g[n] = NoText /\ new.pending.val # NoText) =>
            n \in s /\ f[n] = NoText
  PROVE  Accounted(g, a, s, new)
<1>1. ASSUME NEW m \in Names, First(new, m) PROVE m = n
  <2>1. First(c, m)
    BY <1>1 DEF First
  <2> QED
    BY <2>1, OnlyFirst
<1>2. First(new, n)
  BY DEF First
<1>3. ASSUME NEW m \in Names \ {n} PROVE (g[m] = NoText => Missed(m, a, s, new))
  BY <1>1 DEF Accounted, Missed, Unsettled, Recording
<1>4. g[n] = NoText => Missed(n, a, s, new)
  BY <1>2 DEF Accounted, Missed, Unsettled, Recording
<1>5. ASSUME NEW m \in Names PROVE Planning(m, a, s, new)
  BY DEF Accounted, Planning
<1> QED
  BY <1>3, <1>4, <1>5 DEF Accounted

\* What is agreed of n is recorded, and the cycle is through with it.
LEMMA RecordedAccounted ==
  ASSUME NEW f, NEW a, NEW r, NEW c \in Cycle, NEW new, NEW b, Accounted(f, a, r, c),
         NEW n \in Names, First(c, n), c.at \notin {"idle", "listed"},
         \/ new.at = "idle" /\ c.todo = {n}
         \/ /\ new.at = "turn" /\ new.todo = c.todo \ {n}
            /\ new.listed = c.listed /\ new.was = c.was,
         new.stale = FALSE,
         \A m \in Names \ {n} : b[m] = a[m],
         (f[n] = NoText /\ b[n].val # NoText) => n \in r
  PROVE  Accounted(f, b, r, new)
<1>1. ASSUME NEW m \in Names, Recording(c, m) PROVE m = n
  BY <1>1, OnlyFirst DEF Recording
<1>2. ~Recording(new, n) /\ \A m \in Names : ~Recording(new, m)
  BY DEF Recording
<1>3. ASSUME NEW m \in Names \ {n} PROVE (f[m] = NoText => Missed(m, b, r, new))
  BY <1>1, <1>2 DEF Accounted, Missed, Unsettled
<1>4. f[n] = NoText => Missed(n, b, r, new)
  BY <1>2 DEF Missed, Unsettled
<1>5. ASSUME NEW m \in Names PROVE Planning(m, b, r, new)
  BY DEF Accounted, Planning
<1> QED
  BY <1>3, <1>4, <1>5 DEF Accounted

\* A cycle takes up the names that have something to do.
LEMMA BegunAccounted ==
  ASSUME NEW f, NEW a, NEW r, NEW c, NEW new, Accounted(f, a, r, c), c.at = "listed",
         new.at = "turn", new.listed = c.listed, new.was = a, new.stale = c.stale
  PROVE  Accounted(f, a, r, new)
BY DEF Accounted, Missed, Planning, Unsettled, Recording

\* The agent writes under a name, or a copy is made under it.
LEMMA WrittenAccounted ==
  ASSUME NEW f \in [Names -> Values], NEW a, NEW r, NEW c, Accounted(f, a, r, c),
         NEW n \in Names, NEW text, text # NoText, NEW s, c.at # "delete" \/ s = r,
         \A m \in Names \ {n} : m \in s <=> m \in r
  PROVE  Accounted([f EXCEPT ![n] = text], a, s, c)
BY DEF Accounted, Missed, Planning

LEMMA RemovedAccounted ==
  ASSUME NEW f \in [Names -> Values], NEW a, NEW r, NEW c, Accounted(f, a, r, c),
         NEW n \in Names
  PROVE  Accounted([f EXCEPT ![n] = NoText], a, r \cup {n}, c)
BY DEF Accounted, Missed, Planning
-----------------------------------------------------------------------------
\* What a plan says of the file and of the record, whatever the version.
LEMMA PlanSays ==
  ASSUME NEW local, NEW one, NEW version, NEW record,
         record = NoRecord \/ record # NoRecord
  PROVE  LET plan == PlanOver(local, one, version, record) IN
         /\ plan.keep => local # NoText
         /\ plan.step = "publish" => local # NoText
         /\ plan.step = "publishDelete" => record.val # NoText
BY DEF PlanOver, Do, KeepThen, NoRecord

LEMMA PlannedSays ==
  ASSUME NEW d, NEW n
  PROVE  /\ PlanOf(d, n).keep => cycle[d].listed[n] # NoText
         /\ PlanOf(d, n).step = "publish" => cycle[d].listed[n] # NoText
         /\ PlanOf(d, n).step = "publishDelete" => cycle[d].was[n].val # NoText
<1>1. CASE cycle[d].read[n] = {}
  BY <1>1 DEF PlanOf, Planned, PlanOverNone, Do
<1>2. CASE cycle[d].read[n] # {}
  <2>1. cycle[d].was[n] = NoRecord \/ cycle[d].was[n] # NoRecord
    OBVIOUS
  <2> QED
    BY <1>2, <2>1, PlanSays DEF PlanOf, Planned
<1> QED
  BY <1>1, <1>2

\* What a step of d leaves to the other devices, and to d.
OthersStay(d) ==
  /\ mapped' = mapped
  /\ \A x \in Devices \ {d} :
       /\ file'[x] = file[x] /\ agreed'[x] = agreed[x]
       /\ removed'[x] = removed[x] /\ cycle'[x] = cycle[x]

LEMMA OneAccounted ==
  ASSUME RemovalsAccounted, NEW d \in Devices, OthersStay(d),
         UNCHANGED left \/ \E what \in Rare : Spend(what),
         Accounted(file'[d], agreed'[d], removed'[d], cycle'[d])
  PROVE  RemovalsAccounted'
<1>1. left' \in [Rare -> Nat] /\ left'["crash"] = 0 /\ left'["command"] = 0
  BY DEF RemovalsAccounted, Spend, Rare
<1>2. ASSUME NEW x \in Devices
      PROVE  mapped'[x] /\ Accounted(file'[x], agreed'[x], removed'[x], cycle'[x])
  <2>1. CASE x = d
    BY <2>1 DEF OthersStay, RemovalsAccounted
  <2>2. CASE x # d
    BY <2>2 DEF OthersStay, RemovalsAccounted
  <2> QED
    BY <2>1, <2>2
<1> QED
  BY <1>1, <1>2 DEF RemovalsAccounted

LEMMA AccountedNow ==
  ASSUME RemovalsAccounted, NEW d \in Devices
  PROVE  Accounted(file[d], agreed[d], removed[d], cycle[d]) /\ mapped[d] /\ ~cycle[d].stale
BY DEF RemovalsAccounted, Accounted

LEMMA ThroughAccounted ==
  ASSUME TypeOK, NEW d \in Devices, NEW n \in Names, Through(d, n),
         cycle[d].at \notin {"idle", "listed", "record"},
         NEW f, NEW a, NEW r, Accounted(f, a, r, cycle[d])
  PROVE  Accounted(f, a, r, cycle'[d])
<1> DEFINE new == [cycle[d] EXCEPT !.at = "turn", !.todo = cycle[d].todo \ {n}, !.relied = {},
                                   !.pending = NoRecord]
<1>1. cycle'[d] = Idle \/ cycle'[d] = new
  BY DEF Through, TypeOK
<1>2. new.at = "turn" /\ new.todo = cycle[d].todo \ {n} /\ new.listed = cycle[d].listed
      /\ new.was = cycle[d].was /\ new.stale = cycle[d].stale
  BY DEF TypeOK, Cycle
<1> HIDE DEF new
<1>3. Accounted(f, a, r, new)
  BY <1>2, LeftAccounted
<1>4. Accounted(f, a, r, Idle)
  BY IdleAccounted
<1> QED
  BY <1>1, <1>3, <1>4

\* A cycle that goes on within its file.
LEMMA GoesOnAccounted ==
  ASSUME TypeOK, NEW d \in Devices, NEW n \in Names, First(cycle[d], n),
         NEW at \in {"copy", "kept", "write", "rename"},
         GoesTo(d, at) \/ \E relied : cycle' = [cycle EXCEPT ![d].at = at, ![d].relied = relied],
         at = "copy" => cycle[d].listed[n] # NoText,
         cycle[d].at \in {"turn", "copy", "kept", "write", "rename"},
         NEW f, NEW a, NEW r, Accounted(f, a, r, cycle[d])
  PROVE  Accounted(f, a, r, cycle'[d])
<1>1. cycle'[d].at = at /\ cycle'[d].todo = cycle[d].todo /\ cycle'[d].listed = cycle[d].listed
      /\ cycle'[d].was = cycle[d].was /\ cycle'[d].stale = cycle[d].stale
  <2>1. cycle \in [Devices -> Cycle] /\ cycle[d] \in Cycle
    BY DEF TypeOK
  <2>2. CASE GoesTo(d, at)
    <3>1. cycle'[d] = [cycle[d] EXCEPT !.at = at]
      BY <2>1, <2>2 DEF GoesTo
    <3> QED
      BY <2>1, <3>1 DEF Cycle
  <2>3. CASE \E relied : cycle' = [cycle EXCEPT ![d].at = at, ![d].relied = relied]
    <3>1. PICK relied : cycle'[d] = [cycle[d] EXCEPT !.at = at, !.relied = relied]
      BY <2>1, <2>3
    <3> QED
      BY <2>1, <3>1 DEF Cycle
  <2> QED
    BY <2>2, <2>3
<1> QED
  BY <1>1, MovesAccounted DEF TypeOK
-----------------------------------------------------------------------------
\* The agent and the folder.
LEMMA AgentAccounted ==
  ASSUME TypeOK, RemovalsAccounted, NEW d \in Devices,
         \/ \E n \in Names, text \in Texts : Write(d, n, text)
         \/ \E n \in Names : Remove(d, n)
         \/ FolderGoes(d) \/ FolderBack(d) \/ ListAsItGoes(d)
  PROVE  RemovalsAccounted'
<1> USE DEF disk, store, memory, ghosts
<1>0. Accounted(file[d], agreed[d], removed[d], cycle[d])
  BY AccountedNow
<1>1. ASSUME NEW n \in Names, NEW text \in Texts, Write(d, n, text) PROVE RemovalsAccounted'
  <2>1. /\ file' = [file EXCEPT ![d][n] = text]
        /\ agreed' = agreed /\ removed' = removed /\ cycle' = cycle /\ mapped' = mapped
        /\ UNCHANGED left \/ Spend("again")
    BY <1>1 DEF Write
  <2>2. text # NoText
    BY SlotAssumption DEF NoText
  <2>3. file[d] \in [Names -> Values] /\ file'[d] = [file[d] EXCEPT ![n] = text]
        /\ \A x \in Devices \ {d} : file'[x] = file[x]
    BY <2>1 DEF TypeOK
  <2>4. Accounted([file[d] EXCEPT ![n] = text], agreed[d], removed[d], cycle[d])
    BY <1>0, <2>2, <2>3, WrittenAccounted
  <2>5. OthersStay(d) /\ "again" \in Rare
    BY <2>1, <2>3 DEF OthersStay, Rare
  <2> QED
    BY <2>1, <2>3, <2>4, <2>5, OneAccounted
<1>2. ASSUME NEW n \in Names, Remove(d, n) PROVE RemovalsAccounted'
  <2>1. /\ file' = [file EXCEPT ![d][n] = NoText]
        /\ removed' = [removed EXCEPT ![d] = @ \cup {n}]
        /\ agreed' = agreed /\ cycle' = cycle /\ mapped' = mapped
        /\ Spend("removal")
    BY <1>2 DEF Remove
  <2>2. /\ file[d] \in [Names -> Values] /\ file'[d] = [file[d] EXCEPT ![n] = NoText]
        /\ removed'[d] = removed[d] \cup {n}
        /\ \A x \in Devices \ {d} : file'[x] = file[x] /\ removed'[x] = removed[x]
    BY <2>1 DEF TypeOK
  <2>3. Accounted([file[d] EXCEPT ![n] = NoText], agreed[d], removed[d] \cup {n}, cycle[d])
    BY <1>0, <2>2, RemovedAccounted
  <2>4. OthersStay(d) /\ "removal" \in Rare
    BY <2>1, <2>2 DEF OthersStay, Rare
  <2> QED
    BY <2>1, <2>2, <2>3, <2>4, OneAccounted
<1>3. ASSUME FolderGoes(d) \/ FolderBack(d) PROVE RemovalsAccounted'
  <2>1. /\ file' = file /\ removed' = removed
        /\ agreed' = agreed /\ cycle' = cycle /\ mapped' = mapped
        /\ UNCHANGED left \/ Spend("away")
    BY <1>3 DEF FolderGoes, FolderBack, Goes
  <2>2. OthersStay(d) /\ "away" \in Rare
    BY <2>1 DEF OthersStay, Rare
  <2> QED
    BY <1>0, <2>1, <2>2, OneAccounted
<1>4. ASSUME ListAsItGoes(d) PROVE RemovalsAccounted'
  <2>1. /\ file' = file /\ removed' = removed /\ agreed' = agreed /\ mapped' = mapped
        /\ Spend("away")
    BY <1>4 DEF ListAsItGoes, Goes
  <2>2. PICK names \in SUBSET {n \in Names : file[d][n] # NoText} :
          Listing(d, [n \in Names |-> IF n \in names THEN file[d][n] ELSE NoText], FALSE)
    BY <1>4 DEF ListAsItGoes
  <2> DEFINE listed == [n \in Names |-> IF n \in names THEN file[d][n] ELSE NoText]
  <2>3. \A n \in Names : file[d][n] = NoText => listed[n] = NoText
    OBVIOUS
  <2> HIDE DEF listed
  <2>4. cycle'[d] = [Idle EXCEPT !.at = "listed", !.listed = listed, !.missing = FALSE]
        /\ cycle[d].at = "idle" /\ \A x \in Devices \ {d} : cycle'[x] = cycle[x]
    BY <2>2 DEF Listing, TypeOK, listed
  <2>5. Accounted(file[d], agreed[d], removed[d], cycle'[d])
    <3>1. cycle'[d].at = "listed" /\ cycle'[d].listed = listed /\ cycle'[d].stale = FALSE
      BY <2>4 DEF Idle
    <3> QED
      BY <1>0, <2>3, <2>4, <3>1, ListedAccounted
  <2>6. OthersStay(d) /\ "away" \in Rare
    BY <2>1, <2>4 DEF OthersStay, Rare
  <2> QED
    BY <2>1, <2>5, <2>6, OneAccounted
<1> QED
  BY <1>1, <1>2, <1>3, <1>4

\* What arrives; and what the assumption leaves out.
LEMMA NodeAccounted ==
  ASSUME TypeOK, RemovalsAccounted, NEW d \in Devices,
         Arrives(d) \/ Crash(d) \/ OtherCommand(d) \/ Unmap(d) \/ Map(d)
  PROVE  RemovalsAccounted'
<1>1. ~Crash(d) /\ ~OtherCommand(d) /\ ~Unmap(d) /\ ~Map(d)
  BY DEF RemovalsAccounted, Crash, OtherCommand, Unmap, Map, Command, Spend
<1>2. UNCHANGED <<file, mapped, agreed, cycle, removed, left>>
  BY <1>1 DEF Arrives, Arrive, disk, memory, ghosts
<1> QED
  BY <1>2 DEF RemovalsAccounted

\* A cycle begins, or ends before its files.
LEMMA BeginAccounted ==
  ASSUME TypeOK, RemovalsAccounted, NEW d \in Devices,
         List(d) \/ ReadGone(d) \/ ReadChannel(d) \/ Stop(d)
  PROVE  RemovalsAccounted'
<1> USE DEF disk, store, memory, ghosts
<1>0. Accounted(file[d], agreed[d], removed[d], cycle[d]) /\ ~cycle[d].stale
  BY AccountedNow
<1>1. UNCHANGED <<file, removed, agreed, mapped, left>>
  BY DEF List, ReadGone, ReadChannel, Stop
<1>2. \A x \in Devices \ {d} : cycle'[x] = cycle[x]
  BY DEF List, Listing, ReadGone, ReadChannel, Stop, TypeOK
<1>3. SUFFICES Accounted(file[d], agreed[d], removed[d], cycle'[d])
  <2>1. OthersStay(d)
    BY <1>1, <1>2 DEF OthersStay
  <2> QED
    BY <1>1, <2>1, OneAccounted
<1>4. CASE List(d)
  <2> DEFINE listed == [n \in Names |-> Found(d, n)]
  <2>1. \A n \in Names : file[d][n] = NoText => listed[n] = NoText
    BY DEF Found
  <2> HIDE DEF listed
  <2>2. cycle'[d] = [Idle EXCEPT !.at = "listed", !.listed = listed, !.missing = ~here[d]]
        /\ cycle[d].at = "idle"
    BY <1>4 DEF List, Listing, TypeOK, listed
  <2>3. cycle'[d].at = "listed" /\ cycle'[d].listed = listed /\ cycle'[d].stale = FALSE
    BY <2>2 DEF Idle
  <2> QED
    BY <1>0, <2>1, <2>2, <2>3, ListedAccounted
<1>5. CASE ReadGone(d)
  <2>1. cycle'[d] = Idle /\ cycle[d].at = "listed"
    BY <1>5 DEF ReadGone, TypeOK
  <2> QED
    BY <1>0, <2>1, IdleAccounted
<1>6. CASE ReadChannel(d)
  <2>1. PICK read, todo : cycle'[d] \in {Idle, [cycle[d] EXCEPT !.at = "turn", !.read = read,
                                                             !.was = agreed[d], !.todo = todo]}
    BY <1>6 DEF ReadChannel, TypeOK
  <2> DEFINE new == [cycle[d] EXCEPT !.at = "turn", !.read = read, !.was = agreed[d], !.todo = todo]
  <2>2. new.at = "turn" /\ new.listed = cycle[d].listed /\ new.was = agreed[d]
        /\ new.stale = cycle[d].stale
    BY DEF TypeOK, Cycle
  <2>3. cycle'[d] = Idle \/ cycle'[d] = new
    BY <2>1
  <2> HIDE DEF new
  <2>4. cycle[d].at = "listed"
    BY <1>6 DEF ReadChannel
  <2>5. Accounted(file[d], agreed[d], removed[d], new)
    BY <1>0, <2>2, <2>4, BegunAccounted
  <2>6. Accounted(file[d], agreed[d], removed[d], Idle)
    BY <1>0, <2>4, IdleAccounted
  <2> QED
    BY <2>3, <2>5, <2>6
<1>7. CASE Stop(d)
  BY <1>0, <1>7 DEF Stop
<1> QED
  BY <1>4, <1>5, <1>6, <1>7

\* What a step of a file is due to give.
LEMMA FileAccounted ==
  ASSUME TypeOK, RemovalsAccounted, NEW d \in Devices,
         mapped' = mapped, UNCHANGED left \/ \E what \in Rare : Spend(what),
         \A x \in Devices \ {d} : /\ file'[x] = file[x] /\ agreed'[x] = agreed[x]
                                  /\ removed'[x] = removed[x] /\ cycle'[x] = cycle[x],
         Accounted(file'[d], agreed'[d], removed'[d], cycle'[d])
  PROVE  RemovalsAccounted'
BY OneAccounted DEF OthersStay

\* The cycles of the others are left alone.
LEMMA OthersCycles ==
  ASSUME TypeOK, NEW d \in Devices, NEW n \in Names,
         \/ Through(d, n)
         \/ \E at : GoesTo(d, at)
         \/ \E at, relied : cycle' = [cycle EXCEPT ![d].at = at, ![d].relied = relied]
         \/ \E at, pending : cycle' = [cycle EXCEPT ![d].at = at, ![d].pending = pending]
         \/ cycle' = [cycle EXCEPT ![d] = Idle]
  PROVE  \A x \in Devices \ {d} : cycle'[x] = cycle[x]
BY DEF Through, GoesTo, TypeOK

\* A file that is published, or left.
LEMMA PublishesAccounted ==
  ASSUME TypeOK, RemovalsAccounted, NEW d \in Devices, NEW n \in Names, NEW val \in Values,
         Publishes(d, n, val) \/ Unpublished(d, n), First(cycle[d], n),
         cycle[d].at \in {"turn", "delete"}, val = NoText \/ (cycle[d].at = "turn" /\ val = cycle[d].listed[n]),
         UNCHANGED <<file, mapped, agreed, left>>
  PROVE  RemovalsAccounted'
<1>0. Accounted(file[d], agreed[d], removed[d], cycle[d])
  BY AccountedNow
<1>1. CASE Unpublished(d, n)
  <2>1. Through(d, n) /\ removed' = removed
    BY <1>1 DEF Unpublished
  <2>2. Accounted(file[d], agreed[d], removed[d], cycle'[d])
    BY <1>0, <2>1, ThroughAccounted
  <2>3. \A x \in Devices \ {d} : cycle'[x] = cycle[x]
    BY <2>1, OthersCycles
  <2> QED
    BY <2>1, <2>2, <2>3, FileAccounted
<1>2. CASE Publishes(d, n, val)
  <2>1. PICK e : /\ cycle' = [cycle EXCEPT ![d].at = "record", ![d].pending = AgreedWith(e, val)]
                 /\ removed' = IF val = NoText \/ file[d][n] # NoText
                               THEN [removed EXCEPT ![d] = @ \ {n}] ELSE removed
    BY <1>2 DEF Publishes
  <2>2. cycle \in [Devices -> Cycle] /\ cycle[d] \in Cycle
    BY DEF TypeOK
  <2>3. PICK pending : pending = AgreedWith(e, val)
    OBVIOUS
  <2>4. pending.val = val
    BY <2>3 DEF AgreedWith
  <2>5. cycle'[d] = [cycle[d] EXCEPT !.at = "record", !.pending = pending]
    BY <2>1, <2>2, <2>3
  <2>6. /\ cycle'[d].at = "record" /\ cycle'[d].todo = cycle[d].todo
        /\ cycle'[d].listed = cycle[d].listed /\ cycle'[d].was = cycle[d].was
        /\ cycle'[d].stale = cycle[d].stale /\ cycle'[d].pending.val = val
    BY <2>2, <2>4, <2>5 DEF Cycle
  <2>7. /\ \A m \in Names \ {n} : m \in removed'[d] <=> m \in removed[d]
        /\ \A x \in Devices \ {d} : removed'[x] = removed[x]
    BY <2>1 DEF TypeOK
  <2>8. ASSUME file[d][n] = NoText, val # NoText PROVE n \in removed'[d]
    <3>1. removed' = removed
      BY <2>1, <2>8
    <3>2. Unsettled(cycle[d], n) /\ cycle[d].listed[n] # NoText
      BY <2>8 DEF Unsettled, Recording, First
    <3> QED
      BY <1>0, <2>8, <3>1, <3>2 DEF Accounted, Missed
  <2>9. Accounted(file[d], agreed[d], removed'[d], cycle'[d])
    BY <1>0, <2>2, <2>6, <2>7, <2>8, PendingAccounted
  <2>10. \A x \in Devices \ {d} : cycle'[x] = cycle[x]
    BY <2>1, OthersCycles
  <2> QED
    BY <2>7, <2>9, <2>10, FileAccounted
<1> QED
  BY <1>1, <1>2

LEMMA PublishAccounted ==
  ASSUME TypeOK, RemovalsAccounted, NEW d \in Devices, NEW n \in Names,
         PublishText(d, n) \/ LookForDelete(d, n) \/ PublishDelete(d, n)
  PROVE  RemovalsAccounted'
<1> USE DEF disk, store, memory, ghosts
<1>0. Accounted(file[d], agreed[d], removed[d], cycle[d])
  BY AccountedNow
<1>1. CASE PublishText(d, n)
  <2>1. /\ Publishes(d, n, cycle[d].listed[n]) \/ Unpublished(d, n)
        /\ First(cycle[d], n) /\ cycle[d].at = "turn"
        /\ UNCHANGED <<file, mapped, agreed, left>>
    BY <1>1 DEF PublishText, Turn, First
  <2> QED
    BY <2>1, ListedTyped, PublishesAccounted
<1>2. CASE PublishDelete(d, n)
  <2>1. /\ Publishes(d, n, NoText) \/ Unpublished(d, n)
        /\ First(cycle[d], n) /\ cycle[d].at = "delete"
        /\ UNCHANGED <<file, mapped, agreed, left>>
    BY <1>2 DEF PublishDelete, At, First
  <2> QED
    BY <2>1, NoneTyped, PublishesAccounted
<1>3. CASE LookForDelete(d, n)
  <2>1. /\ First(cycle[d], n) /\ cycle[d].at = "turn" /\ cycle[d].was[n].val # NoText
        /\ UNCHANGED <<file, mapped, agreed, removed, left>>
    BY <1>3, PlannedSays DEF LookForDelete, Turn, First
  <2>2. \/ cycle' = [cycle EXCEPT ![d] = Idle]
        \/ Through(d, n)
        \/ GoesTo(d, "delete") /\ file[d][n] = NoText
    BY <1>3 DEF LookForDelete
  <2>3. Accounted(file[d], agreed[d], removed[d], cycle'[d])
    <3>1. CASE cycle' = [cycle EXCEPT ![d] = Idle]
      <4>1. cycle'[d] = Idle
        BY <3>1 DEF TypeOK
      <4> QED
        BY <1>0, <2>1, <4>1, IdleAccounted
    <3>2. CASE Through(d, n)
      BY <1>0, <2>1, <3>2, ThroughAccounted
    <3>3. CASE GoesTo(d, "delete") /\ file[d][n] = NoText
      <4>1. cycle[d] \in Cycle /\ cycle'[d] = [cycle[d] EXCEPT !.at = "delete"]
        BY <3>3 DEF GoesTo, TypeOK
      <4>2. /\ cycle'[d].at = "delete" /\ cycle'[d].todo = cycle[d].todo
            /\ cycle'[d].listed = cycle[d].listed /\ cycle'[d].was = cycle[d].was
            /\ cycle'[d].stale = cycle[d].stale
        BY <4>1 DEF Cycle
      <4> QED
        BY <1>0, <2>1, <3>3, <4>1, <4>2, DeleteAccounted
    <3> QED
      BY <2>2, <3>1, <3>2, <3>3
  <2>4. \A x \in Devices \ {d} : cycle'[x] = cycle[x]
    BY <2>2, OthersCycles
  <2> QED
    BY <2>1, <2>3, <2>4, FileAccounted
<1> QED
  BY <1>1, <1>2, <1>3

\* A text that is kept beside its file.
LEMMA KeepAccounted ==
  ASSUME TypeOK, RemovalsAccounted, NEW d \in Devices, NEW n \in Names,
         FindCopy(d, n) \/ ClaimCopy(d, n) \/ NoName(d, n) \/ WriteCopy(d, n)
  PROVE  RemovalsAccounted'
<1> USE DEF disk, store, memory, ghosts
<1>0. Accounted(file[d], agreed[d], removed[d], cycle[d])
  BY AccountedNow
<1>1. CASE FindCopy(d, n) \/ ClaimCopy(d, n) \/ NoName(d, n)
  <2>1. /\ cycle[d].at = "turn" /\ First(cycle[d], n) /\ cycle[d].listed[n] # NoText
        /\ UNCHANGED <<file, mapped, agreed, removed, left>>
    BY <1>1, PlannedSays DEF FindCopy, ClaimCopy, NoName, Keeps, Turn, First
  <2>2. \/ Through(d, n)
        \/ \E relied : cycle' = [cycle EXCEPT ![d].at = "kept", ![d].relied = relied]
        \/ \E relied : cycle' = [cycle EXCEPT ![d].at = "copy", ![d].relied = relied]
    BY <1>1 DEF FindCopy, ClaimCopy, NoName
  <2>3. Accounted(file[d], agreed[d], removed[d], cycle'[d])
    BY <1>0, <2>1, <2>2, ThroughAccounted, GoesOnAccounted
  <2>4. \A x \in Devices \ {d} : cycle'[x] = cycle[x]
    BY <2>2, OthersCycles
  <2> QED
    BY <2>1, <2>3, <2>4, FileAccounted
<1>2. CASE WriteCopy(d, n)
  <2>1. PICK c \in cycle[d].relied :
          \/ /\ file' = [file EXCEPT ![d][c] = cycle[d].listed[n]]
             /\ GoesTo(d, "kept")
             /\ removed' = [removed EXCEPT ![d] = @ \ {c}]
          \/ Through(d, n) /\ UNCHANGED <<file, removed>>
    BY <1>2 DEF WriteCopy
  <2>2. /\ cycle[d].at = "copy" /\ First(cycle[d], n) /\ c \in Names
        /\ UNCHANGED <<mapped, agreed, left>>
    BY <1>2, ListedTyped DEF WriteCopy, At, First
  <2>3. \A x \in Devices \ {d} : cycle'[x] = cycle[x]
    BY <2>1, OthersCycles
  <2>4. CASE Through(d, n) /\ UNCHANGED <<file, removed>>
    <3>1. Accounted(file[d], agreed[d], removed[d], cycle'[d])
      BY <1>0, <2>2, <2>4, ThroughAccounted
    <3> QED
      BY <2>2, <2>3, <2>4, <3>1, FileAccounted
  <2>5. CASE /\ file' = [file EXCEPT ![d][c] = cycle[d].listed[n]]
             /\ GoesTo(d, "kept")
             /\ removed' = [removed EXCEPT ![d] = @ \ {c}]
    <3>1. cycle[d].listed[n] # NoText
      BY <1>0, <2>2 DEF Accounted, Planning
    <3>2. /\ file[d] \in [Names -> Values]
          /\ file'[d] = [file[d] EXCEPT ![c] = cycle[d].listed[n]]
          /\ removed'[d] = removed[d] \ {c}
          /\ \A x \in Devices \ {d} : file'[x] = file[x] /\ removed'[x] = removed[x]
      BY <2>5 DEF TypeOK
    <3>3. PICK text : text = cycle[d].listed[n]
      OBVIOUS
    <3>4. Accounted([file[d] EXCEPT ![c] = text], agreed[d], removed[d] \ {c}, cycle[d])
      BY <1>0, <2>2, <3>1, <3>2, <3>3, WrittenAccounted
    <3>5. Accounted([file[d] EXCEPT ![c] = text], agreed[d], removed[d] \ {c}, cycle'[d])
      BY <2>2, <2>5, <3>4, GoesOnAccounted
    <3> QED
      BY <2>2, <2>3, <3>2, <3>3, <3>5, FileAccounted
  <2> QED
    BY <2>1, <2>4, <2>5
<1> QED
  BY <1>1, <1>2

\* A file that is written, removed, left or recorded.
LEMMA ReplacesAccounted ==
  ASSUME TypeOK, RemovalsAccounted, NEW d \in Devices, NEW n \in Names,
         Replaces(d, n), First(cycle[d], n), cycle[d].at \in {"write", "rename"},
         left' = left
  PROVE  RemovalsAccounted'
<1> USE DEF store
<1>0. Accounted(file[d], agreed[d], removed[d], cycle[d])
  BY AccountedNow
<1>1. PICK one \in TheOne(cycle[d].read[n], d) :
        /\ file' = [file EXCEPT ![d][n] = one.val]
        /\ cycle' = [cycle EXCEPT ![d].at = "record", ![d].pending = AgreedWith(one, one.val)]
        /\ removed' = [removed EXCEPT ![d] = @ \ {n}]
        /\ UNCHANGED <<mapped, agreed>>
  BY DEF Replaces
<1>2. PICK pending : pending = AgreedWith(one, one.val)
  OBVIOUS
<1>3. pending.val = one.val
  BY <1>2 DEF AgreedWith
<1>4. cycle \in [Devices -> Cycle] /\ cycle[d] \in Cycle
  BY DEF TypeOK
<1>5. cycle'[d] = [cycle[d] EXCEPT !.at = "record", !.pending = pending]
  BY <1>1, <1>2, <1>4
<1>6. /\ cycle'[d].at = "record" /\ cycle'[d].todo = cycle[d].todo
      /\ cycle'[d].listed = cycle[d].listed /\ cycle'[d].was = cycle[d].was
      /\ cycle'[d].stale = cycle[d].stale /\ cycle'[d].pending = pending
  BY <1>4, <1>5 DEF Cycle
<1>7. /\ \A m \in Names \ {n} : file'[d][m] = file[d][m] /\ (m \in removed'[d] <=> m \in removed[d])
      /\ file'[d][n] = one.val
      /\ \A x \in Devices \ {d} : file'[x] = file[x] /\ removed'[x] = removed[x]
  BY <1>1 DEF TypeOK
<1>8. Accounted(file'[d], agreed[d], removed'[d], cycle'[d])
  BY <1>0, <1>3, <1>4, <1>6, <1>7, PendingAccounted
<1>9. \A x \in Devices \ {d} : cycle'[x] = cycle[x]
  BY <1>1, OthersCycles
<1> QED
  BY <1>1, <1>7, <1>8, <1>9, FileAccounted

LEMMA RecordAccounted ==
  ASSUME TypeOK, RemovalsAccounted, NEW d \in Devices, NEW n \in Names,
         Record(d, n) \/ RecordAlone(d, n)
  PROVE  RemovalsAccounted'
<1> USE DEF disk, ghosts
<1>0. Accounted(file[d], agreed[d], removed[d], cycle[d]) /\ ~cycle[d].stale
  BY AccountedNow
<1>1. PICK record :
        /\ agreed' = [agreed EXCEPT ![d][n] = record]
        /\ (file[d][n] = NoText /\ record.val # NoText) => n \in removed[d]
  <2>1. CASE Record(d, n)
    <3>1. agreed' = [agreed EXCEPT ![d][n] = cycle[d].pending] /\ Recording(cycle[d], n)
      BY <1>0, <2>1 DEF Record, At, Recording, First
    <3> QED
      BY <1>0, <3>1 DEF Accounted, Missed
  <2>2. CASE RecordAlone(d, n)
    <3>1. PICK one : agreed' = [agreed EXCEPT ![d][n] = AgreedWith(one, cycle[d].listed[n])]
      BY <2>2 DEF RecordAlone
    <3>2. AgreedWith(one, cycle[d].listed[n]).val = cycle[d].listed[n]
      BY DEF AgreedWith
    <3>3. Unsettled(cycle[d], n)
      BY <2>2 DEF RecordAlone, Turn, Unsettled, Recording
    <3> QED
      BY <1>0, <3>1, <3>2, <3>3 DEF Accounted, Missed
  <2> QED
    BY <2>1, <2>2
<1>2. /\ First(cycle[d], n) /\ cycle[d].at \in {"record", "turn"} /\ Through(d, n)
      /\ UNCHANGED <<file, mapped, removed, left>>
  BY DEF Record, RecordAlone, Turn, At, First
<1>3. /\ \/ cycle'[d].at = "idle" /\ cycle[d].todo = {n}
         \/ /\ cycle'[d].at = "turn" /\ cycle'[d].todo = cycle[d].todo \ {n}
            /\ cycle'[d].listed = cycle[d].listed /\ cycle'[d].was = cycle[d].was
      /\ cycle'[d].stale = FALSE
  <2> DEFINE new == [cycle[d] EXCEPT !.at = "turn", !.todo = cycle[d].todo \ {n}, !.relied = {},
                                     !.pending = NoRecord]
  <2>1. (cycle'[d] = Idle /\ cycle[d].todo = {n}) \/ cycle'[d] = new
    BY <1>2 DEF Through, TypeOK
  <2>2. new.at = "turn" /\ new.todo = cycle[d].todo \ {n} /\ new.listed = cycle[d].listed
        /\ new.was = cycle[d].was /\ new.stale = FALSE
    BY <1>0 DEF TypeOK, Cycle
  <2>3. Idle.at = "idle" /\ Idle.stale = FALSE
    BY DEF Idle
  <2> HIDE DEF new
  <2> QED
    BY <2>1, <2>2, <2>3
<1>4. /\ \A m \in Names \ {n} : agreed'[d][m] = agreed[d][m]
      /\ agreed'[d][n] = record
      /\ \A x \in Devices \ {d} : agreed'[x] = agreed[x]
  BY <1>1 DEF TypeOK
<1>5. Accounted(file[d], agreed'[d], removed[d], cycle'[d])
  <2>1. cycle[d] \in Cycle
    BY DEF TypeOK
  <2>2. (file[d][n] = NoText /\ agreed'[d][n].val # NoText) => n \in removed[d]
    BY <1>1, <1>4
  <2>3. PICK new, b : new = cycle'[d] /\ b = agreed'[d]
    OBVIOUS
  <2>4. PICK f, a, r, c : f = file[d] /\ a = agreed[d] /\ r = removed[d] /\ c = cycle[d]
    OBVIOUS
  <2>5. Accounted(f, b, r, new)
    <3>1. \/ new.at = "idle" /\ c.todo = {n}
          \/ /\ new.at = "turn" /\ new.todo = c.todo \ {n}
             /\ new.listed = c.listed /\ new.was = c.was
      BY <1>3, <2>3, <2>4
    <3>2. Accounted(f, a, r, c) /\ c \in Cycle /\ First(c, n) /\ c.at \notin {"idle", "listed"}
      BY <1>0, <1>2, <2>1, <2>4
    <3>3. new.stale = FALSE /\ \A m \in Names \ {n} : b[m] = a[m]
      BY <1>3, <1>4, <2>3, <2>4
    <3>4. (f[n] = NoText /\ b[n].val # NoText) => n \in r
      BY <2>2, <2>3, <2>4
    <3> QED
      BY <3>1, <3>2, <3>3, <3>4, RecordedAccounted
  <2> QED
    BY <2>3, <2>4, <2>5
<1>6. \A x \in Devices \ {d} : cycle'[x] = cycle[x]
  BY <1>2, OthersCycles
<1> QED
  BY <1>2, <1>4, <1>5, <1>6, FileAccounted

LEMMA WriteAccounted ==
  ASSUME TypeOK, RemovalsAccounted, NEW d \in Devices, NEW n \in Names,
         StartWrite(d, n) \/ Replace(d, n) \/ LastLook(d, n) \/ Rename(d, n) \/ Defer(d, n)
  PROVE  RemovalsAccounted'
<1> USE DEF disk, store, memory, ghosts
<1>0. Accounted(file[d], agreed[d], removed[d], cycle[d])
  BY AccountedNow
<1>1. CASE Replace(d, n) \/ Rename(d, n)
  <2>1. /\ Replaces(d, n) /\ First(cycle[d], n) /\ cycle[d].at \in {"write", "rename"}
        /\ left' = left
    BY <1>1 DEF Replace, Rename, At, First
  <2> QED
    BY <2>1, ReplacesAccounted
<1>2. CASE StartWrite(d, n) \/ LastLook(d, n) \/ Defer(d, n)
  <2>1. /\ First(cycle[d], n) /\ cycle[d].at \in {"turn", "kept", "write", "rename"}
        /\ UNCHANGED <<file, mapped, agreed, removed>>
        /\ UNCHANGED left \/ Spend("gap")
    BY <1>2 DEF StartWrite, LastLook, Defer, Turn, At, First
  <2>2. Through(d, n) \/ GoesTo(d, "write") \/ GoesTo(d, "rename")
    BY <1>2 DEF StartWrite, LastLook, Defer
  <2>3. Accounted(file[d], agreed[d], removed[d], cycle'[d])
    BY <1>0, <2>1, <2>2, ThroughAccounted, GoesOnAccounted
  <2>4. \A x \in Devices \ {d} : cycle'[x] = cycle[x]
    BY <2>2, OthersCycles
  <2>5. "gap" \in Rare
    BY DEF Rare
  <2> QED
    BY <2>1, <2>3, <2>4, <2>5, FileAccounted
<1> QED
  BY <1>1, <1>2

LEMMA NextAccounted == TypeOK /\ RemovalsAccounted /\ [Next]_vars => RemovalsAccounted'
<1> SUFFICES ASSUME TypeOK, RemovalsAccounted, [Next]_vars PROVE RemovalsAccounted'
  OBVIOUS
<1>1. CASE UNCHANGED vars
  BY <1>1 DEF vars, RemovalsAccounted
<1>2. CASE Next
  <2>1. PICK d \in Devices :
          \/ \E n \in Names, text \in Texts : Write(d, n, text)
          \/ \E n \in Names : Remove(d, n)
          \/ FolderGoes(d) \/ FolderBack(d) \/ ListAsItGoes(d)
          \/ Arrives(d)
          \/ Crash(d)
          \/ OtherCommand(d) \/ Unmap(d) \/ Map(d)
          \/ CycleStep(d)
    BY <1>2 DEF Next
  <2>2. CASE CycleStep(d)
    <3>1. ASSUME NEW n \in Names, Apply(d, n) PROVE RemovalsAccounted'
      BY <3>1, PublishAccounted, KeepAccounted, WriteAccounted, RecordAccounted DEF Apply
    <3> QED
      BY <2>2, <3>1, BeginAccounted DEF CycleStep
  <2> QED
    BY <2>1, <2>2, AgentAccounted, NodeAccounted
<1> QED
  BY <1>1, <1>2

\* What a step adds to a store of the device's own.
LEMMA DeletedWasRemoved ==
  ASSUME TypeOK, RemovalsAccounted, Next, NEW x \in Devices, NEW m \in Names,
         NEW e \in held'[x][m] \ held[x][m], e.author = x, e.val = NoText
  PROVE  m \in removed[x]
<1> USE DEF disk, store, memory, ghosts
<1>1. PICK d \in Devices :
        \/ \E n \in Names, text \in Texts : Write(d, n, text)
        \/ \E n \in Names : Remove(d, n)
        \/ FolderGoes(d) \/ FolderBack(d) \/ ListAsItGoes(d)
        \/ Arrives(d)
        \/ Crash(d)
        \/ OtherCommand(d) \/ Unmap(d) \/ Map(d)
        \/ CycleStep(d)
  BY DEF Next
<1>2. held' # held
  OBVIOUS
<1>3. \/ Arrives(d)
      \/ \E n \in Names, val \in Values :
           /\ Publishes(d, n, val)
           /\ (PublishText(d, n) /\ val = cycle[d].listed[n]) \/ (PublishDelete(d, n) /\ val = NoText)
  <2>1. CASE CycleStep(d)
    <3>1. PICK n \in Names : Apply(d, n)
      BY <1>2, <2>1 DEF CycleStep, List, ReadGone, ReadChannel, Stop
    <3>2. PublishText(d, n) \/ PublishDelete(d, n)
      BY <1>2, <3>1 DEF Apply, LookForDelete, FindCopy, ClaimCopy, NoName, WriteCopy,
        StartWrite, Replace, Replaces, LastLook, Rename, Defer, Record, RecordAlone
    <3> QED
      BY <1>2, <3>2, ListedTyped, NoneTyped DEF PublishText, PublishDelete, Unpublished
  <2> QED
    BY <1>1, <1>2, <2>1 DEF Write, Remove, FolderGoes, FolderBack, ListAsItGoes, Crash,
      OtherCommand, Unmap, Map
<1>4. ASSUME NEW n \in Names, NEW f, held' = [held EXCEPT ![d][n] = Store(@, f)]
      PROVE  x = d /\ m = n /\ e = f
  <2>1. held'[x][m] = IF x = d /\ m = n THEN Store(held[d][n], f) ELSE held[x][m]
    BY <1>4 DEF TypeOK
  <2> QED
    BY <2>1 DEF Store
<1>5. CASE Arrives(d)
  <2>1. PICK c \in Devices \ {d}, n \in Names : \E f \in held[c][n] : Arrive(d, c, n, f)
    BY <1>5 DEF Arrives
  <2>2. PICK f \in held[c][n] : f.author = c /\ held' = [held EXCEPT ![d][n] = Store(@, f)]
    BY <2>1 DEF Arrive
  <2> QED
    BY <1>4, <2>2
<1>6. ASSUME NEW n \in Names, NEW val \in Values, Publishes(d, n, val),
             (PublishText(d, n) /\ val = cycle[d].listed[n]) \/ (PublishDelete(d, n) /\ val = NoText)
      PROVE  m \in removed[x]
  <2>1. PICK f : f.val = val /\ held' = [held EXCEPT ![d][n] = Store(held[d][n], f)]
    <3>1. PICK top, over : held' = [held EXCEPT ![d][n] = Store(held[d][n],
            [author |-> d, rev |-> top, val |-> val, chain |-> over])]
      BY <1>6 DEF Publishes
    <3> QED
      BY <3>1
  <2>2. x = d /\ m = n /\ val = NoText
    BY <1>4, <2>1
  <2>3. PublishDelete(d, n)
    BY <1>6, <2>2, PlannedSays DEF PublishText
  <2>4. cycle[d].at = "delete" /\ First(cycle[d], n)
    BY <2>3 DEF PublishDelete, At, First
  <2> QED
    BY <2>2, <2>4, AccountedNow DEF Accounted, Planning
<1> QED
  BY <1>3, <1>5, <1>6

\* Where no node stops and no settings change, a device publishes a delete
\* only of a file that its agent removed since the folder last met the
\* channel there: however the agents write, the same text again or between a
\* last look and a rename, however a folder goes and comes back, and whatever
\* arrives between the steps of a cycle.  (The assumption is needed: a stop,
\* or a command, between a delete and its record leaves a record of what was
\* there before, which a text written again is then taken for.  The run
\* sync_late_record shows it.)
THEOREM OnlyTheAgentDeletes ==
  ASSUME \A b \in Budgets : b["crash"] = 0 /\ b["command"] = 0
  PROVE  Spec => DeletesAreAgents
<1>1. Init => TypeOK /\ RemovalsAccounted
  <2> SUFFICES ASSUME Init PROVE RemovalsAccounted
    BY InitTyped
  <2>1. left \in [Rare -> Nat] /\ left["crash"] = 0 /\ left["command"] = 0
    BY SyncAssumption DEF Init
  <2>2. ASSUME NEW d \in Devices
        PROVE  mapped[d] /\ Accounted(file[d], agreed[d], removed[d], cycle[d])
    <3>1. /\ cycle[d] = Idle /\ mapped[d] /\ \A n \in Names : agreed[d][n] = NoRecord
      BY DEF Init
    <3>2. Idle.at = "idle" /\ Idle.stale = FALSE /\ NoRecord.val = NoText
      BY DEF Idle, NoRecord
    <3> QED
      BY <3>1, <3>2 DEF Accounted, Missed, Planning, Unsettled, Recording
  <2> QED
    BY <2>1, <2>2 DEF RemovalsAccounted
<1>2. TypeOK /\ RemovalsAccounted /\ [Next]_vars => (TypeOK /\ RemovalsAccounted)'
  BY NextTyped, NextAccounted
<1>3. TypeOK /\ RemovalsAccounted /\ [Next]_vars =>
        [\A d \in Devices, n \in Names : \A e \in held'[d][n] \ held[d][n] :
           (e.author = d /\ e.val = NoText) => n \in removed[d]]_vars
  BY DeletedWasRemoved
<1> QED
  BY <1>1, <1>2, <1>3, PTL DEF Spec, DeletesAreAgents
-----------------------------------------------------------------------------
(***************************************************************************)
(* No text is lost.                                                        *)
(*                                                                         *)
(* The agents write, and remove nothing; no node stops, no settings change *)
(* and no folder goes.  A text is let go where an agent writes over it, in *)
(* any file of any device, or where it is written in the gap of a rename.  *)
(* Then a file goes only where the text that it was listed with was let go *)
(* or is in its copy, because a chain tells the truth: all that an entry   *)
(* says it was written after was let go, but for its own text.  A chain is *)
(* put together from what a folder agreed and from what it kept in copies, *)
(* so both must tell the truth as well, in every step of a cycle.          *)
(*                                                                         *)
(* Here f is what is in the folder of d, h what its store holds, a what it *)
(* agreed, k the chains of its copies, c its cycle, and g what was let go. *)
(***************************************************************************)
\* The names that d tries for the copies it makes.
CopyNamesOf(d) ==
  {m \in Names : \E n \in Names : \E i \in DOMAIN CopyNames[d][n] : m = CopyNames[d][n][i]}

\* A copy's name has the tag of the device that makes it: it is no agent's,
\* no other device's, and not the name of the file it is a copy of.
CopiesAreOwn ==
  /\ \A d \in Devices : CopyNamesOf(d) \cap Files = {}
  /\ \A d, e \in Devices : d # e => CopyNamesOf(d) \cap CopyNamesOf(e) = {}
  /\ \A d \in Devices, n \in Names : \A i \in DOMAIN CopyNames[d][n] : CopyNames[d][n][i] # n

OnlyWrites == \A b \in Budgets : \A what \in Rare \ {"again", "gap"} : b[what] = 0

\* An entry, or a record, is of a text, and what it says it was written
\* after was let go.
Tells(r, g) == r.val \in Texts /\ \A i \in DOMAIN r.chain : r.chain[i] \in g \cup {r.val}

\* What the store, the records and the cycle say of n.
Said(n, h, a, c, g) ==
  /\ \A e \in h[n] \cup c.read[n] : Tells(e, g)
  /\ c.read[n] # {} => h[n] # {}
  /\ a[n] # NoRecord => Tells(a[n], g)
  /\ c.was[n] # NoRecord => Tells(c.was[n], g)
  /\ Recording(c, n) => Tells(c.pending, g)

\* The file is there, with the text or with one that came after it.
Holds(f, n, text, g) == f[n] # NoText /\ text \in g \cup {f[n]}

Has(n, f, a, c, g) ==
  /\ a[n] # NoRecord => f[n] # NoText /\ (Recording(c, n) \/ Holds(f, n, a[n].val, g))
  /\ Recording(c, n) => Holds(f, n, c.pending.val, g)
  /\ (Unsettled(c, n) /\ c.listed[n] # NoText) => Holds(f, n, c.listed[n], g)

\* A text that was agreed, and was not listed, was let go.
Edited(n, f, a, c, g) ==
  /\ (c.at = "listed" /\ a[n] # NoRecord) => a[n].val \in g \cup {c.listed[n]}
  /\ (c.at \notin {"idle", "listed"} /\ n \in c.todo /\ c.was[n] # NoRecord) =>
        f[n] # NoText /\ c.was[n].val \in g \cup {c.listed[n]}
  /\ n \in c.todo => c.read[n] # {} \/ c.listed[n] # NoText

\* A copy not yet published keeps a text, and its chain tells the truth of
\* it: so does that of a copy about to be written, of the text to be kept.
Keeping(c, n, text) ==
  \E m \in Names : c.at = "copy" /\ First(c, m) /\ n \in c.relied /\ text = c.listed[m]

Copies(d, n, f, h, k, c, g) ==
  /\ k[n] # <<>> => n \in CopyNamesOf(d) /\ h[n] = {}
  /\ \A i \in DOMAIN k[n] :
       /\ k[n][i] # NoText
       /\ k[n][i] \in g \cup {f[n]} \/ Keeping(c, n, k[n][i])
       /\ Unsettled(c, n) => k[n][i] \in g \cup {c.listed[n]}

\* The file is written over no text that was not let go, or its copy is
\* relied on.
Over(d, n, c) ==
  LET plan == Planned(c.listed, d, n, c.read[n], c.was[n]) IN
  c.relied = {} /\ c.at \in {"write", "rename"} /\ plan.step \in Replacing /\ ~plan.keep

Beside(n, m, f, c, g) ==
  /\ m # n
  /\ c.relied = {m}
  /\ c.listed[n] # NoText
  /\ c.at = "copy" => f[m] = NoText
  /\ c.at = "rename" => c.listed[n] \in g \cup {f[m]}

Relies(d, n, f, c, g) ==
  (c.at \in {"copy", "kept", "write", "rename"} /\ First(c, n)) =>
    Over(d, n, c) \/ \E m \in CopyNamesOf(d) : Beside(n, m, f, c, g)

Secured(d, n, f, h, a, k, c, g) ==
  /\ Said(n, h, a, c, g) /\ Has(n, f, a, c, g) /\ Edited(n, f, a, c, g)
  /\ Copies(d, n, f, h, k, c, g) /\ Relies(d, n, f, c, g)

Secure(d, f, h, a, k, c, g) ==
  /\ ~c.stale /\ ~c.missing /\ c.at # "delete"
  /\ c.at \in {"listed", "turn"} => c.relied = {}
  /\ \A n \in Names : Secured(d, n, f, h, a, k, c, g)

\* A copy's name is held by no device before the one whose it is.
Owned ==
  \A d \in Devices, e \in Devices : \A m \in CopyNamesOf(d) :
    /\ (d # e /\ held[d][m] = {}) => held[e][m] = {} /\ file[e][m] = NoText
    /\ held[d][m] # {} => file[d][m] # NoText

TextsSecure ==
  /\ left \in [Rare -> Nat] /\ \A what \in Rare \ {"again", "gap"} : left[what] = 0
  /\ \A d \in Devices :
       /\ mapped[d] /\ here[d]
       /\ Secure(d, file[d], held[d], agreed[d], copied[d], cycle[d], letGo \cup inGap)
  /\ Owned
  /\ NoTextLost

-----------------------------------------------------------------------------
\* What was let go stays let go.
LEMMA MoreLetGo ==
  ASSUME NEW d, NEW f, NEW h, NEW a, NEW k, NEW c, NEW g, NEW o, g \subseteq o,
         Secure(d, f, h, a, k, c, g)
  PROVE  Secure(d, f, h, a, k, c, o)
<1> SUFFICES ASSUME NEW n \in Names PROVE Secured(d, n, f, h, a, k, c, o)
  BY DEF Secure
<1>0. Secured(d, n, f, h, a, k, c, g)
  BY DEF Secure
<1>1. Said(n, h, a, c, o)
  BY <1>0 DEF Secured, Said, Tells
<1>2. Has(n, f, a, c, o)
  BY <1>0 DEF Secured, Has, Holds
<1>3. Edited(n, f, a, c, o)
  BY <1>0 DEF Secured, Edited
<1>4. Copies(d, n, f, h, k, c, o)
  BY <1>0 DEF Secured, Copies
<1>5. Relies(d, n, f, c, o)
  BY <1>0 DEF Secured, Relies, Beside
<1> QED
  BY <1>1, <1>2, <1>3, <1>4, <1>5 DEF Secured

\* A cycle that ends without a file under way.
LEMMA EndSecure ==
  ASSUME NEW d, NEW f, NEW h, NEW a, NEW k, NEW c, NEW g, Secure(d, f, h, a, k, c, g),
         c.at \notin {"record", "copy"}
  PROVE  Secure(d, f, h, a, k, Idle, g)
<1>0. /\ Idle.at = "idle" /\ Idle.stale = FALSE /\ Idle.missing = FALSE /\ Idle.todo = {}
      /\ Idle.pending = NoRecord
      /\ \A n \in Names : Idle.read[n] = {} /\ Idle.was[n] = NoRecord
  BY DEF Idle
<1> SUFFICES ASSUME NEW n \in Names PROVE Secured(d, n, f, h, a, k, Idle, g)
  BY <1>0 DEF Secure
<1>1. Secured(d, n, f, h, a, k, c, g)
  BY DEF Secure
<1>2. ~Recording(Idle, n) /\ ~Unsettled(Idle, n) /\ ~First(Idle, n) /\ ~Recording(c, n)
  BY <1>0 DEF Recording, Unsettled, First
<1>3. Said(n, h, a, Idle, g)
  BY <1>0, <1>1, <1>2 DEF Secured, Said
<1>4. Has(n, f, a, Idle, g)
  BY <1>1, <1>2 DEF Secured, Has
<1>5. Edited(n, f, a, Idle, g)
  BY <1>0 DEF Edited
<1>6. Copies(d, n, f, h, k, Idle, g)
  BY <1>1, <1>2 DEF Secured, Copies, Keeping
<1>7. Relies(d, n, f, Idle, g)
  BY <1>2 DEF Relies
<1> QED
  BY <1>3, <1>4, <1>5, <1>6, <1>7 DEF Secured

\* The folder is listed.
LEMMA ListedSecure ==
  ASSUME NEW d, NEW f, NEW h, NEW a, NEW k, NEW c, NEW g, Secure(d, f, h, a, k, c, g),
         c.at = "idle", NEW new, new.at = "listed", ~new.stale, ~new.missing, new.todo = {},
         new.relied = {},
         \A n \in Names : new.read[n] = {} /\ new.was[n] = NoRecord /\ new.listed[n] = f[n]
  PROVE  Secure(d, f, h, a, k, new, g)
<1> SUFFICES ASSUME NEW n \in Names PROVE Secured(d, n, f, h, a, k, new, g)
  BY DEF Secure
<1>1. Secured(d, n, f, h, a, k, c, g)
  BY DEF Secure
<1>2. ~Recording(new, n) /\ ~First(new, n) /\ ~Recording(c, n)
  BY DEF Recording, First
<1>3. Said(n, h, a, new, g)
  BY <1>1, <1>2 DEF Secured, Said
<1>4. Has(n, f, a, new, g)
  BY <1>1, <1>2 DEF Secured, Has, Holds
<1>5. Edited(n, f, a, new, g)
  BY <1>1, <1>2 DEF Edited, Secured, Has, Holds
<1>6. Copies(d, n, f, h, k, new, g)
  BY <1>1, <1>2 DEF Secured, Copies, Keeping
<1>7. Relies(d, n, f, new, g)
  BY <1>2 DEF Relies
<1> QED
  BY <1>3, <1>4, <1>5, <1>6, <1>7 DEF Secured

\* A cycle takes up the names that have something to do.
LEMMA BegunSecure ==
  ASSUME NEW d, NEW f, NEW h, NEW a, NEW k, NEW c, NEW g, Secure(d, f, h, a, k, c, g),
         c.at = "listed", NEW new, new.at = "turn", new.stale = c.stale,
         new.missing = c.missing, new.relied = c.relied, new.listed = c.listed, new.was = a,
         \A n \in Names : new.read[n] \subseteq h[n],
         \A n \in new.todo : new.read[n] # {} \/ new.listed[n] # NoText
  PROVE  Secure(d, f, h, a, k, new, g)
<1> SUFFICES ASSUME NEW n \in Names PROVE Secured(d, n, f, h, a, k, new, g)
  BY DEF Secure
<1>1. Secured(d, n, f, h, a, k, c, g)
  BY DEF Secure
<1>2. ~Recording(new, n) /\ ~Recording(c, n) /\ Unsettled(c, n)
  BY DEF Recording, Unsettled
<1>3. Said(n, h, a, new, g)
  BY <1>1, <1>2 DEF Secured, Said
<1>4. Has(n, f, a, new, g)
  BY <1>1, <1>2 DEF Secured, Has
<1>5. Edited(n, f, a, new, g)
  BY <1>1 DEF Edited, Secured, Has
<1>6. Copies(d, n, f, h, k, new, g)
  BY <1>1, <1>2 DEF Secured, Copies, Keeping
<1>7. Relies(d, n, f, new, g)
  BY DEF Relies
<1> QED
  BY <1>3, <1>4, <1>5, <1>6, <1>7 DEF Secured

\* The cycle is through with n, left for the next cycle.
LEMMA LeftSecure ==
  ASSUME NEW d, NEW f, NEW h, NEW a, NEW k, NEW c, NEW g, Secure(d, f, h, a, k, c, g),
         c.at \in {"turn", "kept", "write", "rename"}, NEW n, NEW new,
         new.at = "turn", new.todo = c.todo \ {n}, new.relied = {}, new.stale = c.stale,
         new.missing = c.missing, new.listed = c.listed, new.was = c.was, new.read = c.read
  PROVE  Secure(d, f, h, a, k, new, g)
<1> SUFFICES ASSUME NEW m \in Names PROVE Secured(d, m, f, h, a, k, new, g)
  BY DEF Secure
<1>1. Secured(d, m, f, h, a, k, c, g)
  BY DEF Secure
<1>2. ~Recording(new, m) /\ ~Recording(c, m) /\ (Unsettled(new, m) => Unsettled(c, m))
  BY DEF Recording, Unsettled
<1>3. Said(m, h, a, new, g)
  BY <1>1, <1>2 DEF Secured, Said
<1>4. Has(m, f, a, new, g)
  BY <1>1, <1>2 DEF Secured, Has
<1>5. Edited(m, f, a, new, g)
  BY <1>1 DEF Edited, Secured
<1>6. Copies(d, m, f, h, k, new, g)
  BY <1>1, <1>2 DEF Secured, Copies, Keeping
<1>7. Relies(d, m, f, new, g)
  BY DEF Relies
<1> QED
  BY <1>3, <1>4, <1>5, <1>6, <1>7 DEF Secured

\* The cycle goes on with the file it is at.
SameFile(c, new) ==
  /\ new.todo = c.todo /\ new.stale = c.stale /\ new.missing = c.missing
  /\ new.listed = c.listed /\ new.was = c.was /\ new.read = c.read

\* The cycle moves on within the file n.
LEMMA MovesSecure ==
  ASSUME NEW d, NEW f, NEW h, NEW a, NEW k, NEW c \in Cycle, NEW g,
         Secure(d, f, h, a, k, c, g), c.at \in {"turn", "kept", "write"},
         NEW n \in Names, First(c, n), NEW new,
         new.at \in {"kept", "write", "rename"}, SameFile(c, new), Relies(d, n, f, new, g)
  PROVE  Secure(d, f, h, a, k, new, g)
<1> USE DEF SameFile
<1> SUFFICES ASSUME NEW m \in Names PROVE Secured(d, m, f, h, a, k, new, g)
  BY DEF Secure
<1>1. Secured(d, m, f, h, a, k, c, g)
  BY DEF Secure
<1>2. ~Recording(new, m) /\ ~Recording(c, m) /\ (Unsettled(new, m) => Unsettled(c, m))
  BY DEF Recording, Unsettled
<1>3. Said(m, h, a, new, g)
  BY <1>1, <1>2 DEF Secured, Said
<1>4. Has(m, f, a, new, g)
  BY <1>1, <1>2 DEF Secured, Has
<1>5. Edited(m, f, a, new, g)
  BY <1>1 DEF Edited, Secured
<1>6. Copies(d, m, f, h, k, new, g)
  BY <1>1, <1>2 DEF Secured, Copies, Keeping
<1>7. Relies(d, m, f, new, g)
  <2>1. First(new, m) => m = n
    BY OnlyFirst DEF First
  <2> QED
    BY <2>1 DEF Relies
<1> QED
  BY <1>3, <1>4, <1>5, <1>6, <1>7 DEF Secured

\* A free name m is taken for the copy of n.
LEMMA ClaimedSecure ==
  ASSUME NEW d, NEW f, NEW h, NEW a, NEW k \in [Names -> Chain], NEW c \in Cycle, NEW g,
         Secure(d, f, h, a, k, c, g), c.at = "turn",
         NEW n \in Names, First(c, n), NEW m \in CopyNamesOf(d), m # n,
         f[m] = NoText, h[m] = {}, c.listed[n] # NoText,
         NEW chain, NoText \notin g,
         \A i \in DOMAIN chain : chain[i] \in g \cup {c.listed[n]},
         NEW new,
         new.at = "copy", new.relied = {m}, SameFile(c, new)
  PROVE  Secure(d, f, h, a, [k EXCEPT ![m] = chain], new, g)
<1> USE DEF SameFile
<1> DEFINE l == [k EXCEPT ![m] = chain]
<1>0. m \in Names /\ First(new, n)
  BY DEF CopyNamesOf, First
<1>1. l[m] = chain /\ \A x \in Names \ {m} : l[x] = k[x]
  BY <1>0
<1> HIDE DEF l
<1> SUFFICES ASSUME NEW x \in Names PROVE Secured(d, x, f, h, a, l, new, g)
  BY DEF Secure, l
<1>2. Secured(d, x, f, h, a, k, c, g)
  BY DEF Secure
<1>3. ~Recording(new, x) /\ ~Recording(c, x) /\ (Unsettled(new, x) <=> Unsettled(c, x))
  BY DEF Recording, Unsettled
<1>4. Said(x, h, a, new, g)
  BY <1>2, <1>3 DEF Secured, Said
<1>5. Has(x, f, a, new, g)
  BY <1>2, <1>3 DEF Secured, Has
<1>6. Edited(x, f, a, new, g)
  BY <1>2 DEF Edited, Secured
<1>7. Copies(d, x, f, h, l, new, g)
  <2>1. CASE x # m
    BY <1>1, <1>2, <1>3, <2>1 DEF Secured, Copies, Keeping
  <2>2. CASE x = m
    <3>1. ~Unsettled(new, m)
      <4>1. Said(m, h, a, c, g) /\ Has(m, f, a, c, g) /\ Edited(m, f, a, c, g)
        BY <1>2, <2>2 DEF Secured
      <4>2. c.read[m] = {}
        BY <4>1 DEF Said
      <4>3. ~(Unsettled(c, m) /\ c.listed[m] # NoText)
        BY <4>1 DEF Has, Holds
      <4>4. m \in c.todo => Unsettled(c, m) /\ c.listed[m] # NoText
        BY <4>1, <4>2 DEF Edited, Unsettled, Recording
      <4> QED
        BY <4>3, <4>4 DEF Unsettled
    <3>2. ASSUME NEW i \in DOMAIN chain
          PROVE  chain[i] # NoText /\ (chain[i] \in g \/ Keeping(new, m, chain[i]))
      BY <1>0, <3>2 DEF Keeping
    <3> QED
      BY <1>1, <2>2, <3>1, <3>2 DEF Copies
  <2> QED
    BY <2>1, <2>2
<1>8. Relies(d, x, f, new, g)
  <2>1. First(new, x) => x = n
    BY OnlyFirst DEF First
  <2>2. Beside(n, m, f, new, g)
    BY DEF Beside
  <2> QED
    BY <2>1, <2>2 DEF Relies
<1> QED
  BY <1>4, <1>5, <1>6, <1>7, <1>8 DEF Secured

\* The copy that is about to be written.
LEMMA CopyIsToCome ==
  ASSUME NEW d, NEW f, NEW h, NEW a, NEW k, NEW c, NEW g, Secure(d, f, h, a, k, c, g),
         c.at = "copy", NEW n \in Names, First(c, n), NEW m \in c.relied
  PROVE  /\ m \in CopyNamesOf(d) /\ m # n /\ f[m] = NoText /\ c.listed[n] # NoText
         /\ c.relied = {m} /\ m \in Names
<1>1. Relies(d, n, f, c, g)
  BY DEF Secure, Secured
<1>2. PICK o \in CopyNamesOf(d) : Beside(n, o, f, c, g)
  BY <1>1 DEF Relies, Over
<1> QED
  BY <1>2 DEF Beside, CopyNamesOf

\* The copy is written.
LEMMA KeptSecure ==
  ASSUME NEW d, NEW f \in [Names -> Values], NEW h, NEW a, NEW k, NEW c \in Cycle, NEW g,
         Secure(d, f, h, a, k, c, g), c.at = "copy",
         NEW n \in Names, First(c, n), NEW m \in c.relied, NEW new,
         new.at = "kept", new.relied = c.relied, SameFile(c, new)
  PROVE  Secure(d, [f EXCEPT ![m] = c.listed[n]], h, a, k, new, g)
<1> USE DEF SameFile
<1> DEFINE e == [f EXCEPT ![m] = c.listed[n]]
<1>0. /\ m \in CopyNamesOf(d) /\ m # n /\ f[m] = NoText /\ c.listed[n] # NoText
      /\ c.relied = {m} /\ m \in Names
  BY CopyIsToCome
<1>1. e[m] = c.listed[n] /\ \A x \in Names \ {m} : e[x] = f[x]
  BY <1>0
<1> HIDE DEF e
<1> SUFFICES ASSUME NEW x \in Names PROVE Secured(d, x, e, h, a, k, new, g)
  BY DEF Secure, e
<1>2. Secured(d, x, f, h, a, k, c, g)
  BY DEF Secure
<1>3. ~Recording(new, x) /\ ~Recording(c, x) /\ (Unsettled(new, x) <=> Unsettled(c, x))
  BY DEF Recording, Unsettled
<1>4. Said(x, h, a, new, g)
  BY <1>2, <1>3 DEF Secured, Said
<1>5. Has(x, e, a, new, g)
  <2>1. Has(x, f, a, c, g)
    BY <1>2 DEF Secured
  <2>2. CASE x = m
    BY <1>0, <1>1, <1>3, <2>1, <2>2 DEF Has, Holds
  <2>3. CASE x # m
    BY <1>1, <1>3, <2>1, <2>3 DEF Has, Holds
  <2> QED
    BY <2>2, <2>3
<1>6. Edited(x, e, a, new, g)
  BY <1>0, <1>1, <1>2 DEF Edited, Secured
<1>7. Copies(d, x, e, h, k, new, g)
  <2>1. Copies(d, x, f, h, k, c, g)
    BY <1>2 DEF Secured
  <2>2. ASSUME NEW i \in DOMAIN k[x] PROVE k[x][i] \in g \cup {e[x]}
    <3>1. CASE Keeping(c, x, k[x][i])
      <4>1. x = m /\ k[x][i] = c.listed[n]
        BY <1>0, <3>1, OnlyFirst DEF Keeping
      <4> QED
        BY <1>1, <4>1
    <3>2. CASE k[x][i] \in g \cup {f[x]} /\ x # m
      BY <1>1, <3>2
    <3>3. CASE k[x][i] \in g \cup {f[x]} /\ x = m
      BY <1>0, <2>1, <3>3 DEF Copies
    <3> QED
      BY <2>1, <3>1, <3>2, <3>3 DEF Copies
  <2> QED
    BY <1>3, <2>1, <2>2 DEF Copies
<1>8. Relies(d, x, e, new, g)
  <2>1. First(new, x) => x = n
    BY OnlyFirst DEF First
  <2>2. Beside(n, m, e, new, g)
    BY <1>0 DEF Beside
  <2> QED
    BY <1>0, <2>1, <2>2 DEF Relies
<1> QED
  BY <1>4, <1>5, <1>6, <1>7, <1>8 DEF Secured

\* A record is to be made of n, for what was published or what was written:
\* e, s and l are the folder, the store and the copies then.
Changed(n, f, h, k, e, s, l, new, g) ==
  /\ \A x \in Names \ {n} : e[x] = f[x] /\ s[x] = h[x] /\ l[x] = k[x]
  /\ s[n] # {} /\ l[n] = <<>> /\ \A r \in s[n] : Tells(r, g)
  /\ new.at = "record" /\ Tells(new.pending, g) /\ Holds(e, n, new.pending.val, g)

LEMMA PendingSecure ==
  ASSUME NEW d, NEW f, NEW h, NEW a, NEW k, NEW c \in Cycle, NEW g,
         Secure(d, f, h, a, k, c, g), c.at \in {"turn", "write", "rename"},
         NEW n \in Names, First(c, n), NEW new, SameFile(c, new),
         NEW e, NEW s, NEW l, Changed(n, f, h, k, e, s, l, new, g)
  PROVE  Secure(d, e, s, a, l, new, g)
<1> USE DEF SameFile, Changed
<1> SUFFICES ASSUME NEW x \in Names PROVE Secured(d, x, e, s, a, l, new, g)
  BY DEF Secure
<1>1. Secured(d, x, f, h, a, k, c, g)
  BY DEF Secure
<1>2. /\ First(new, x) <=> x = n
      /\ Recording(new, x) <=> x = n
      /\ ~Recording(c, x) /\ ~Unsettled(new, n)
      /\ x # n => (Unsettled(new, x) <=> Unsettled(c, x))
  <2>1. First(new, x) <=> x = n
    BY OnlyFirst DEF First
  <2> QED
    BY <2>1 DEF Recording, Unsettled, First
<1>3. Said(x, s, a, new, g)
  BY <1>1, <1>2 DEF Secured, Said
<1>4. Has(x, e, a, new, g)
  BY <1>1, <1>2 DEF Secured, Has, Holds
<1>5. Edited(x, e, a, new, g)
  BY <1>1 DEF Edited, Secured, Holds
<1>6. Copies(d, x, e, s, l, new, g)
  BY <1>1, <1>2 DEF Secured, Copies, Keeping
<1>7. Relies(d, x, e, new, g)
  BY DEF Relies
<1> QED
  BY <1>3, <1>4, <1>5, <1>6, <1>7 DEF Secured

\* What is agreed of n is recorded, and the cycle is through with it.
LEMMA RecordedSecure ==
  ASSUME NEW d, NEW f, NEW h, NEW a, NEW k, NEW c \in Cycle, NEW g,
         Secure(d, f, h, a, k, c, g), c.at \in {"turn", "record"},
         NEW n \in Names, First(c, n), NEW new,
         \/ new = Idle /\ c.todo = {n}
         \/ /\ new.at = "turn" /\ new.todo = c.todo \ {n} /\ new.relied = {}
            /\ new.stale = c.stale /\ new.missing = c.missing /\ new.listed = c.listed
            /\ new.was = c.was /\ new.read = c.read,
         NEW b, \A x \in Names \ {n} : b[x] = a[x],
         Tells(b[n], g), Holds(f, n, b[n].val, g)
  PROVE  Secure(d, f, h, b, k, new, g)
<1>0. /\ Idle.at = "idle" /\ Idle.stale = FALSE /\ Idle.missing = FALSE /\ Idle.todo = {}
      /\ \A x \in Names : Idle.read[x] = {} /\ Idle.was[x] = NoRecord
  BY DEF Idle
<1> SUFFICES ASSUME NEW x \in Names PROVE Secured(d, x, f, h, b, k, new, g)
  BY <1>0 DEF Secure
<1>1. Secured(d, x, f, h, a, k, c, g)
  BY DEF Secure
<1>2. /\ ~Recording(new, x)
      /\ x # n => ~Recording(c, x)
      /\ Unsettled(new, x) => Unsettled(c, x) /\ x # n /\ new.listed = c.listed
  BY <1>0, OnlyFirst DEF Recording, Unsettled
<1>3. Said(x, h, b, new, g)
  BY <1>0, <1>1, <1>2 DEF Secured, Said
<1>4. Has(x, f, b, new, g)
  BY <1>0, <1>1, <1>2 DEF Secured, Has, Holds
<1>5. Edited(x, f, b, new, g)
  BY <1>0, <1>1 DEF Edited, Secured
<1>6. Copies(d, x, f, h, k, new, g)
  BY <1>0, <1>1, <1>2 DEF Secured, Copies, Keeping
<1>7. Relies(d, x, f, new, g)
  BY <1>0 DEF Relies
<1> QED
  BY <1>3, <1>4, <1>5, <1>6, <1>7 DEF Secured

\* The agent writes a text, under a name that is its own or has a file.
LEMMA WrittenSecure ==
  ASSUME NEW d \in Devices, NEW f \in [Names -> Values], NEW h, NEW a, NEW k, NEW c, NEW g,
         Secure(d, f, h, a, k, c, g), CopiesAreOwn,
         NEW n \in Names, n \in Files \/ f[n] # NoText, NEW text \in Texts,
         NEW o, g \subseteq o, {f[n]} \ {NoText} \subseteq o
  PROVE  Secure(d, [f EXCEPT ![n] = text], h, a, k, c, o)
<1> DEFINE e == [f EXCEPT ![n] = text]
<1>0. e[n] = text /\ (\A x \in Names \ {n} : e[x] = f[x]) /\ text # NoText
  BY SlotAssumption DEF NoText
<1> HIDE DEF e
<1> SUFFICES ASSUME NEW x \in Names PROVE Secured(d, x, e, h, a, k, c, o)
  BY DEF Secure, e
<1>1. Secured(d, x, f, h, a, k, c, g)
  BY DEF Secure
<1>2. ASSUME NEW old, old # NoText, old \in g \cup {f[x]} PROVE old \in o \cup {e[x]}
  BY <1>0, <1>2
<1>3. Said(x, h, a, c, o)
  BY <1>1 DEF Secured, Said, Tells
<1>4. Has(x, e, a, c, o)
  <2>1. Has(x, f, a, c, g)
    BY <1>1 DEF Secured
  <2>2. ASSUME NEW old, old # NoText, Holds(f, x, old, g) PROVE Holds(e, x, old, o)
    BY <1>0, <1>2, <2>2 DEF Holds
  <2>3. f[x] # NoText => e[x] # NoText
    BY <1>0
  <2>4. /\ a[x] # NoRecord => a[x].val # NoText
        /\ Recording(c, x) => c.pending.val # NoText
    BY <1>1, SlotAssumption DEF Secured, Said, Tells, NoText
  <2> QED
    BY <2>1, <2>2, <2>3, <2>4 DEF Has
<1>5. Edited(x, e, a, c, o)
  BY <1>0, <1>1 DEF Secured, Edited
<1>6. Copies(d, x, e, h, k, c, o)
  BY <1>1, <1>2 DEF Secured, Copies
<1>7. Relies(d, x, e, c, o)
  <2>1. ASSUME NEW m \in CopyNamesOf(d), Beside(x, m, f, c, g) PROVE Beside(x, m, e, c, o)
    <3>1. m \in Names /\ m \notin Files
      BY DEF CopyNamesOf, CopiesAreOwn
    <3>2. f[m] = NoText => e[m] = NoText
      BY <1>0, <3>1
    <3>3. c.listed[x] \in g \cup {f[m]} /\ c.listed[x] # NoText => c.listed[x] \in o \cup {e[m]}
      BY <1>0, <3>1
    <3> QED
      BY <2>1, <3>2, <3>3 DEF Beside
  <2> QED
    BY <1>1, <2>1 DEF Secured, Relies
<1> QED
  BY <1>3, <1>4, <1>5, <1>6, <1>7 DEF Secured

\* An entry arrives under n.
LEMMA ArrivedSecure ==
  ASSUME NEW d, NEW f, NEW h, NEW a, NEW k, NEW c, NEW g, Secure(d, f, h, a, k, c, g),
         NEW n \in Names, NEW s, \A x \in Names \ {n} : s[x] = h[x],
         s[n] # {}, \A r \in s[n] : Tells(r, g),
         n \in CopyNamesOf(d) => h[n] # {}
  PROVE  Secure(d, f, s, a, k, c, g)
<1> SUFFICES ASSUME NEW x \in Names PROVE Secured(d, x, f, s, a, k, c, g)
  BY DEF Secure
<1>1. Secured(d, x, f, h, a, k, c, g)
  BY DEF Secure
<1>2. Said(x, s, a, c, g)
  BY <1>1 DEF Secured, Said
<1>3. Copies(d, x, f, s, k, c, g)
  BY <1>1 DEF Secured, Copies
<1> QED
  BY <1>1, <1>2, <1>3 DEF Secured
-----------------------------------------------------------------------------
(***************************************************************************)
(* Chains that tell the truth.                                             *)
(***************************************************************************)
\* What is in a chain that is cut was in it.
LEMMA CutHas ==
  ASSUME NEW links \in Seq(Values), NEW i \in DOMAIN Cut(links)
  PROVE  i \in DOMAIN links /\ Cut(links)[i] = links[i]
<1>1. CASE Len(links) <= MaxLinks
  BY <1>1 DEF Cut
<1>2. CASE ~(Len(links) <= MaxLinks)
  <2>1. Len(links) \in Nat /\ MaxLinks \in Nat \ {0} /\ MaxLinks <= Len(links)
    BY <1>2, SlotAssumption, LenProperties
  <2>2. 1 \in 1 .. Len(links) + 1 /\ MaxLinks \in 1 - 1 .. Len(links)
    BY <2>1
  <2>3. /\ Len(SubSeq(links, 1, MaxLinks)) = MaxLinks
        /\ SubSeq(links, 1, MaxLinks) \in Seq(Values)
        /\ \A j \in 1 .. MaxLinks : SubSeq(links, 1, MaxLinks)[j] = links[j]
    BY <2>1, <2>2, SubSeqProperties
  <2>4. Cut(links) = SubSeq(links, 1, MaxLinks)
    BY <1>2 DEF Cut
  <2>5. i \in 1 .. MaxLinks
    BY <2>3, <2>4
  <2> QED
    BY <2>1, <2>3, <2>4, <2>5
<1> QED
  BY <1>1, <1>2

\* What is in two chains put together, and cut, was in one of them.
LEMMA CutHasOfTwo ==
  ASSUME NEW s \in Seq(Values), NEW t \in Seq(Values), NEW i \in DOMAIN Cut(s \o t)
  PROVE  \/ \E j \in DOMAIN s : Cut(s \o t)[i] = s[j]
         \/ \E j \in DOMAIN t : Cut(s \o t)[i] = t[j]
<1>1. s \o t \in Seq(Values)
  BY ConcatProperties
<1>2. i \in DOMAIN (s \o t) /\ Cut(s \o t)[i] = (s \o t)[i]
  BY <1>1, CutHas
<1>3. Len(s \o t) = Len(s) + Len(t) /\ Len(s) \in Nat /\ Len(t) \in Nat
  BY ConcatProperties, LenProperties
<1>4. CASE i <= Len(s)
  <2>1. i \in 1 .. Len(s) /\ (s \o t)[i] = s[i]
    BY <1>2, <1>3, <1>4, ConcatProperties
  <2> QED
    BY <1>2, <2>1
<1>5. CASE i > Len(s)
  <2>1. i \in 1 .. Len(s) + Len(t)
    BY <1>1, <1>2, <1>3
  <2>2. i - Len(s) \in DOMAIN t /\ (s \o t)[i] = t[i - Len(s)]
    BY <1>3, <1>5, <2>1, ConcatProperties
  <2> QED
    BY <1>2, <2>2
<1>6. i \in Nat
  BY <1>1, <1>2, <1>3
<1> QED
  BY <1>3, <1>4, <1>5, <1>6

LEMMA WrittenOverHas ==
  ASSUME NEW val \in Values, NEW links \in Chain, NEW i \in DOMAIN WrittenOver(val, links)
  PROVE  \/ WrittenOver(val, links)[i] = val
         \/ \E j \in DOMAIN links : WrittenOver(val, links)[i] = links[j]
<1>1. <<val>> \in Seq(Values) /\ links \in Seq(Values)
  BY DEF Chain
<1>2. \/ \E j \in DOMAIN <<val>> : Cut(<<val>> \o links)[i] = <<val>>[j]
      \/ \E j \in DOMAIN links : Cut(<<val>> \o links)[i] = links[j]
  BY <1>1, CutHasOfTwo DEF WrittenOver
<1>3. \A j \in DOMAIN <<val>> : <<val>>[j] = val
  OBVIOUS
<1> QED
  BY <1>2, <1>3 DEF WrittenOver

\* The record of an entry tells what the entry does.
LEMMA AgreedTells ==
  ASSUME NEW one, NEW g, Tells(one, g)
  PROVE  /\ AgreedWith(one, one.val).val = one.val
         /\ Tells(AgreedWith(one, one.val), g)
         /\ AgreedWith(one, one.val) # NoRecord
BY DEF Tells, AgreedWith, NoRecord

LEMMA TextIsThere ==
  /\ NoText \notin Texts
  /\ NoRecord.val = NoText
BY SlotAssumption DEF NoText, NoRecord

\* An entry of a text written over one, that was agreed and let go since,
\* and after what its copy was: it tells the truth.
LEMMA PublishedTells ==
  ASSUME NEW text \in Texts, NEW copy \in Chain, NEW version \in SUBSET Entry, NEW d,
         NEW over \in ChainsOver(version, d), NEW g,
         \A i \in DOMAIN copy : copy[i] \in g \cup {text},
         \A one \in version : Tells(one, g) /\ one.val \in g,
         NEW r, r.val = text, r.chain = Cut(copy \o over)
  PROVE  Tells(r, g)
<1>1. \A i \in DOMAIN over : over[i] \in g
  <2>1. CASE version = {}
    BY <2>1 DEF ChainsOver
  <2>2. CASE version # {}
    <3>1. PICK one \in TheOne(version, d) : over = WrittenOver(one.val, one.chain)
      BY <2>2 DEF ChainsOver
    <3>2. one \in version
      BY TheOneTyped
    <3>3. one.val \in Values /\ one.chain \in Chain
      BY <3>2 DEF Entry
    <3>4. one.val \in g /\ \A i \in DOMAIN one.chain : one.chain[i] \in g
      BY <3>2 DEF Tells
    <3> QED
      BY <3>1, <3>3, <3>4, WrittenOverHas
  <2> QED
    BY <2>1, <2>2
<1>2. copy \in Seq(Values) /\ over \in Seq(Values)
  BY ChainsOverTyped DEF Chain
<1>3. ASSUME NEW i \in DOMAIN Cut(copy \o over) PROVE Cut(copy \o over)[i] \in g \cup {text}
  BY <1>1, <1>2, CutHasOfTwo
<1> QED
  BY <1>3 DEF Tells

\* So does what a kept text was written after.
LEMMA KeptAfterTells ==
  ASSUME TypeOK, NEW d \in Devices, NEW n \in Names, NEW g,
         cycle[d].was[n] # NoRecord =>
           /\ Tells(cycle[d].was[n], g)
           /\ cycle[d].was[n].val \in g \cup {cycle[d].listed[n]}
  PROVE  \A i \in DOMAIN KeptAfter(d, n) : KeptAfter(d, n)[i] \in g \cup {cycle[d].listed[n]}
<1> DEFINE was == cycle[d].was[n]
<1>1. CASE was = NoRecord
  BY <1>1 DEF KeptAfter
<1>2. CASE was # NoRecord
  <2>1. was.val \in Values /\ was.chain \in Chain
    BY <1>2, ListedTyped DEF Records, Agreed
  <2>2. \A i \in DOMAIN was.chain : was.chain[i] \in g \cup {cycle[d].listed[n]}
    BY <1>2 DEF Tells
  <2>3. CASE KeptAfter(d, n) = was.chain
    BY <2>2, <2>3
  <2>4. CASE KeptAfter(d, n) = WrittenOver(was.val, was.chain)
    BY <1>2, <2>1, <2>2, <2>4, WrittenOverHas
  <2> QED
    BY <1>2, <2>3, <2>4 DEF KeptAfter
<1> QED
  BY <1>1, <1>2

-----------------------------------------------------------------------------
(***************************************************************************)
(* What a plan says of the texts.                                          *)
(***************************************************************************)
LEMMA PlanIsOfAnother ==
  ASSUME NEW local \in Values, NEW one \in Entry, NEW version, NEW record \in Records
  PROVE  LET plan == PlanOver(local, one, version, record) IN
         /\ plan.step \in Replacing => local # one.val
         /\ (plan.step = "publish" /\ one.val # NoText) =>
              record # NoRecord /\ record.val = one.val /\ local # one.val
<1>1. record = NoRecord \/ record # NoRecord
  OBVIOUS
<1> QED
  BY <1>1 DEF PlanOver, Do, KeepThen, NoRecord, Replacing

\* A version that a plan is over: every entry read of it has the one value.
LEMMA PlanIsOver ==
  ASSUME TypeOK, StoreIsAhead, NEW d \in Devices, NEW n \in Names,
         NEW one \in TheOne(cycle[d].read[n], d)
  PROVE  \E top \in cycle[d].read[n] :
           /\ top.val = one.val
           /\ PlanOf(d, n) = PlanOver(cycle[d].listed[n], top, cycle[d].read[n], cycle[d].was[n])
<1> DEFINE top == CHOOSE e \in TheOne(cycle[d].read[n], d) : TRUE
<1>1. top \in TheOne(cycle[d].read[n], d)
  OBVIOUS
<1>2. top \in cycle[d].read[n] /\ one \in cycle[d].read[n]
  BY <1>1, TheOneTyped
<1>3. top.val = one.val
  BY <1>2 DEF StoreIsAhead, ReadIsBacked
<1>4. PlanOf(d, n) = PlanOver(cycle[d].listed[n], top, cycle[d].read[n], cycle[d].was[n])
  BY <1>2 DEF PlanOf, Planned
<1> QED
  BY <1>2, <1>3, <1>4

\* A file that is replaced without a copy had a text that was let go, or
\* none.
LEMMA ReplacedWasLetGo ==
  ASSUME TypeOK, StoreIsAhead, NEW d \in Devices, NEW n \in Names,
         NEW one \in TheOne(cycle[d].read[n], d), NEW g,
         \A e \in cycle[d].read[n] : Tells(e, g),
         PlanOf(d, n).step \in Replacing, ~PlanOf(d, n).keep
  PROVE  cycle[d].listed[n] \in g \cup {NoText}
<1> DEFINE local == cycle[d].listed[n]
           version == cycle[d].read[n]
           record == cycle[d].was[n]
<1>1. PICK top \in version :
        top.val = one.val /\ PlanOf(d, n) = PlanOver(local, top, version, record)
  BY PlanIsOver
<1>2. local \in Values /\ top \in Entry /\ record \in Records
  BY ListedTyped
<1>3. CASE local # NoText
  <2>1. local = record.val /\ Follows(version, record.val)
    BY <1>1, <1>2, <1>3, ReplacedOnlyIfKnown DEF Replacing
  <2>2. local # top.val
    BY <1>1, <1>2, PlanIsOfAnother
  <2>3. PICK i \in DOMAIN top.chain : top.chain[i] = local
    BY <2>1 DEF Follows
  <2> QED
    BY <2>2, <2>3 DEF Tells
<1> QED
  BY <1>3

\* A text is published over one that was agreed, and is another.
LEMMA PublishedOverAgreed ==
  ASSUME TypeOK, StoreIsAhead, NEW d \in Devices, NEW n \in Names, NEW g,
         \A e \in cycle[d].read[n] : Tells(e, g),
         cycle[d].was[n] # NoRecord => cycle[d].was[n].val \in g \cup {cycle[d].listed[n]},
         PlanOf(d, n).step = "publish", TheOne(cycle[d].read[n], d) # {}
  PROVE  \A one \in cycle[d].read[n] : one.val \in g
<1> SUFFICES ASSUME NEW one \in cycle[d].read[n] PROVE one.val \in g
  OBVIOUS
<1> DEFINE local == cycle[d].listed[n]
           version == cycle[d].read[n]
           record == cycle[d].was[n]
<1>1. PICK first \in TheOne(version, d) : TRUE
  OBVIOUS
<1>2. PICK top \in version :
        top.val = first.val /\ PlanOf(d, n) = PlanOver(local, top, version, record)
  BY PlanIsOver
<1>3. top.val = one.val
  BY <1>2 DEF StoreIsAhead, ReadIsBacked
<1>4. local \in Values /\ top \in Entry /\ record \in Records
  BY ListedTyped
<1>5. top.val # NoText
  BY TextIsThere DEF Tells
<1>6. record # NoRecord /\ record.val = top.val /\ local # top.val
  BY <1>2, <1>4, <1>5, PlanIsOfAnother
<1> QED
  BY <1>3, <1>6
-----------------------------------------------------------------------------
(***************************************************************************)
(* The steps.                                                              *)
(***************************************************************************)
\* What a step of d leaves to the other devices.
OthersKeep(d) ==
  /\ mapped' = mapped /\ here' = here
  /\ \A x \in Devices \ {d} :
       /\ file'[x] = file[x] /\ held'[x] = held[x] /\ agreed'[x] = agreed[x]
       /\ copied'[x] = copied[x] /\ cycle'[x] = cycle[x]

SecureHere(d) == Secure(d, file[d], held[d], agreed[d], copied[d], cycle[d], letGo \cup inGap)

LEMMA SecureNow ==
  ASSUME TextsSecure, NEW d \in Devices
  PROVE  /\ SecureHere(d) /\ mapped[d] /\ here[d]
         /\ ~cycle[d].stale /\ ~cycle[d].missing /\ cycle[d].at # "delete"
         /\ \A n \in Names :
              Secured(d, n, file[d], held[d], agreed[d], copied[d], cycle[d], letGo \cup inGap)
BY DEF TextsSecure, SecureHere, Secure

LEMMA OneSecure ==
  ASSUME TextsSecure, NEW d \in Devices, OthersKeep(d),
         UNCHANGED left \/ Spend("again") \/ Spend("gap"),
         letGo \subseteq letGo', inGap \subseteq inGap',
         Secure(d, file'[d], held'[d], agreed'[d], copied'[d], cycle'[d], letGo' \cup inGap'),
         Owned', NoTextLost'
  PROVE  TextsSecure'
<1>1. left' \in [Rare -> Nat] /\ \A what \in Rare \ {"again", "gap"} : left'[what] = 0
  <2>1. left \in [Rare -> Nat] /\ \A what \in Rare \ {"again", "gap"} : left[what] = 0
    BY DEF TextsSecure
  <2>2. "again" \in Rare /\ "gap" \in Rare
    BY DEF Rare
  <2> QED
    BY <2>1, <2>2 DEF Spend
<1>2. ASSUME NEW x \in Devices
      PROVE  /\ mapped'[x] /\ here'[x]
             /\ Secure(x, file'[x], held'[x], agreed'[x], copied'[x], cycle'[x], letGo' \cup inGap')
  <2>1. CASE x = d
    BY <2>1, SecureNow DEF OthersKeep
  <2>2. CASE x # d
    <3>1. Secure(x, file[x], held[x], agreed[x], copied[x], cycle[x], letGo \cup inGap)
      BY SecureNow DEF SecureHere
    <3>2. letGo \cup inGap \subseteq letGo' \cup inGap'
      OBVIOUS
    <3>3. Secure(x, file[x], held[x], agreed[x], copied[x], cycle[x], letGo' \cup inGap')
      BY <3>1, <3>2, MoreLetGo
    <3> QED
      BY <2>2, <3>3, SecureNow DEF OthersKeep
  <2> QED
    BY <2>1, <2>2
<1> QED
  BY <1>1, <1>2 DEF TextsSecure

\* A step that changes what d has under n at most: the copies' names stay
\* with the devices whose they are.
LEMMA OwnedAgain ==
  ASSUME TypeOK, Owned, NEW d \in Devices, NEW n \in Names,
         \A x \in Devices, m \in Names : (x # d \/ m # n) =>
           held'[x][m] = held[x][m] /\ file'[x][m] = file[x][m],
         held[d][n] # {} => held'[d][n] # {},
         n \in CopyNamesOf(d) =>
           /\ held'[d][n] # {} => file'[d][n] # NoText
           /\ file[d][n] # NoText => file'[d][n] # NoText,
         \A x \in Devices \ {d} : (n \in CopyNamesOf(x) /\ held[x][n] = {}) =>
           held'[d][n] = {} /\ file'[d][n] = NoText
  PROVE  Owned'
<1> SUFFICES ASSUME NEW x \in Devices, NEW y \in Devices, NEW m \in CopyNamesOf(x)
             PROVE  /\ (x # y /\ held'[x][m] = {}) => held'[y][m] = {} /\ file'[y][m] = NoText
                    /\ held'[x][m] # {} => file'[x][m] # NoText
  BY DEF Owned, CopyNamesOf
<1>0. m \in Names
  BY DEF CopyNamesOf
<1>1. /\ (x # y /\ held[x][m] = {}) => held[y][m] = {} /\ file[y][m] = NoText
      /\ held[x][m] # {} => file[x][m] # NoText
  BY DEF Owned
<1>2. ASSUME x # y, held'[x][m] = {} PROVE held'[y][m] = {} /\ file'[y][m] = NoText
  <2>1. held[x][m] = {}
    BY <1>0, <1>2
  <2>2. CASE y = d /\ m = n
    BY <1>2, <2>1, <2>2
  <2>3. CASE y # d \/ m # n
    BY <1>0, <1>1, <1>2, <2>1, <2>3
  <2> QED
    BY <2>2, <2>3
<1>3. held'[x][m] # {} => file'[x][m] # NoText
  BY <1>0, <1>1
<1> QED
  BY <1>2, <1>3

LEMMA OwnedStill ==
  ASSUME Owned, held' = held, file' = file
  PROVE  Owned'
BY DEF Owned, CopyNamesOf

\* No file goes.
LEMMA TextsStay ==
  ASSUME NoTextLost, file' = file, written' = written, letGo \subseteq letGo', inGap \subseteq inGap'
  PROVE  NoTextLost'
BY DEF NoTextLost, InAFile

\* One file goes: its text was let go, or is in another file of the device.
LEMMA TextsGoOn ==
  ASSUME TypeOK, NoTextLost, NEW d \in Devices, NEW n \in Names, NEW text \in Values,
         file' = [file EXCEPT ![d][n] = text], written' \subseteq written \cup {text},
         letGo \subseteq letGo', inGap \subseteq inGap',
         \/ file[d][n] \in letGo' \cup inGap' \cup {NoText}
         \/ \E m \in Names \ {n} : file[d][m] = file[d][n],
         written' \subseteq Texts
  PROVE  NoTextLost'
<1> SUFFICES ASSUME NEW old \in written' \ (letGo' \cup inGap')
             PROVE  \E x \in Devices, m \in Names : file'[x][m] = old
  BY DEF NoTextLost, InAFile
<1>0. /\ file'[d][n] = text
      /\ \A x \in Devices, m \in Names : (x # d \/ m # n) => file'[x][m] = file[x][m]
  BY DEF TypeOK
<1>1. CASE old = text
  BY <1>0, <1>1
<1>2. CASE old # text
  <2>1. old \in written \ (letGo \cup inGap)
    BY <1>2
  <2>2. PICK x \in Devices, m \in Names : file[x][m] = old
    BY <2>1 DEF NoTextLost, InAFile
  <2>3. CASE x # d \/ m # n
    BY <1>0, <2>2, <2>3
  <2>4. CASE x = d /\ m = n
    <3>1. old # NoText
      BY TextIsThere
    <3>2. PICK o \in Names \ {n} : file[d][o] = old
      BY <2>2, <2>4, <3>1
    <3> QED
      BY <1>0, <3>2
  <2> QED
    BY <2>3, <2>4
<1> QED
  BY <1>1, <1>2

\* A step of d that changes its cycle and records alone.
LEMMA CycleSecure ==
  ASSUME TextsSecure, NEW d \in Devices,
         UNCHANGED <<file, here, mapped, held, written, letGo, inGap>>,
         UNCHANGED left \/ Spend("again") \/ Spend("gap"),
         \A x \in Devices \ {d} :
           agreed'[x] = agreed[x] /\ copied'[x] = copied[x] /\ cycle'[x] = cycle[x],
         Secure(d, file[d], held[d], agreed'[d], copied'[d], cycle'[d], letGo \cup inGap)
  PROVE  TextsSecure'
<1>1. Owned' /\ NoTextLost'
  BY OwnedStill, TextsStay DEF TextsSecure
<1>2. OthersKeep(d)
  BY DEF OthersKeep
<1>3. Secure(d, file'[d], held'[d], agreed'[d], copied'[d], cycle'[d], letGo' \cup inGap')
  <2>1. file' = file /\ held' = held /\ letGo' = letGo /\ inGap' = inGap
    OBVIOUS
  <2> QED
    BY <2>1
<1> QED
  BY <1>1, <1>2, <1>3, OneSecure

\* The agent, and the folder.
LEMMA AgentSecure ==
  ASSUME TypeOK, TextsSecure, CopiesAreOwn, NEW d \in Devices,
         \/ \E n \in Names, text \in Texts : Write(d, n, text)
         \/ \E n \in Names : Remove(d, n)
         \/ FolderGoes(d) \/ FolderBack(d) \/ ListAsItGoes(d)
  PROVE  TextsSecure'
<1>1. /\ left["removal"] = 0 /\ left["away"] = 0 /\ here[d]
  BY SecureNow DEF TextsSecure, Rare
<1>2. PICK n \in Names, text \in Texts : Write(d, n, text)
  BY <1>1 DEF Remove, FolderGoes, FolderBack, ListAsItGoes, Goes, Spend
<1>3. /\ n \in Files \/ file[d][n] # NoText
      /\ file' = [file EXCEPT ![d][n] = text]
      /\ written' = written \cup {text}
      /\ letGo' = letGo \cup ({file[d][n]} \ {NoText})
      /\ inGap' = inGap
      /\ UNCHANGED <<here, mapped, held, agreed, copied, cycle>>
      /\ UNCHANGED left \/ Spend("again")
  BY <1>2 DEF Write, Lets, store, memory
<1>4. /\ file[d] \in [Names -> Values] /\ file'[d] = [file[d] EXCEPT ![n] = text]
      /\ \A x \in Devices \ {d} : file'[x] = file[x]
      /\ text \in Values /\ text # NoText
  BY <1>3, TextIsThere DEF TypeOK, Values
<1>5. Secure(d, file'[d], held'[d], agreed'[d], copied'[d], cycle'[d], letGo' \cup inGap')
  <2>1. Secure(d, file[d], held[d], agreed[d], copied[d], cycle[d], letGo \cup inGap)
    BY SecureNow DEF SecureHere
  <2>2. /\ letGo \cup inGap \subseteq letGo' \cup inGap'
        /\ {file[d][n]} \ {NoText} \subseteq letGo' \cup inGap'
    BY <1>3
  <2>3. Secure(d, [file[d] EXCEPT ![n] = text], held[d], agreed[d], copied[d], cycle[d],
               letGo' \cup inGap')
    BY <1>3, <1>4, <2>1, <2>2, WrittenSecure
  <2> QED
    BY <1>3, <1>4, <2>3
<1>6. Owned'
  <2>1. \A x \in Devices, m \in Names : (x # d \/ m # n) =>
          held'[x][m] = held[x][m] /\ file'[x][m] = file[x][m]
    BY <1>3 DEF TypeOK
  <2>2. held'[d][n] = held[d][n] /\ file'[d][n] = text
    BY <1>3 DEF TypeOK
  <2>3. ASSUME NEW x \in Devices \ {d}, n \in CopyNamesOf(x), held[x][n] = {} PROVE FALSE
    <3>1. file[d][n] = NoText
      BY <2>3 DEF TextsSecure, Owned
    <3>2. n \notin Files
      BY <2>3 DEF CopiesAreOwn
    <3> QED
      BY <1>3, <3>1, <3>2
  <2> QED
    <3>1. Owned
      BY DEF TextsSecure
    <3>2. held[d][n] # {} => held'[d][n] # {}
      BY <2>2
    <3>3. n \in CopyNamesOf(d) =>
            /\ held'[d][n] # {} => file'[d][n] # NoText
            /\ file[d][n] # NoText => file'[d][n] # NoText
      BY <1>4, <2>2
    <3>4. \A x \in Devices \ {d} : (n \in CopyNamesOf(x) /\ held[x][n] = {}) =>
            held'[d][n] = {} /\ file'[d][n] = NoText
      BY <2>3
    <3> QED
      BY <2>1, <3>1, <3>2, <3>3, <3>4, OwnedAgain
<1>7. NoTextLost'
  <2>1. written' \subseteq Texts
    BY <1>3 DEF TypeOK
  <2>2. file[d][n] \in letGo' \cup inGap' \cup {NoText}
    BY <1>3
  <2> QED
    BY <1>3, <1>4, <2>1, <2>2, TextsGoOn DEF TextsSecure
<1> QED
  BY <1>3, <1>4, <1>5, <1>6, <1>7, OneSecure DEF OthersKeep

\* What arrives; and what the assumption leaves out.
LEMMA NodeSecure ==
  ASSUME TypeOK, TextsSecure, CopiesAreOwn, NEW d \in Devices,
         Arrives(d) \/ Crash(d) \/ OtherCommand(d) \/ Unmap(d) \/ Map(d)
  PROVE  TextsSecure'
<1>1. /\ left["crash"] = 0 /\ left["command"] = 0 /\ mapped[d]
  BY SecureNow DEF TextsSecure, Rare
<1>2. Arrives(d)
  BY <1>1 DEF Crash, OtherCommand, Unmap, Map, Command, Spend
<1>3. PICK c \in Devices \ {d}, n \in Names : \E e \in held[c][n] : Arrive(d, c, n, e)
  BY <1>2 DEF Arrives
<1> PICK e \in held[c][n] : Arrive(d, c, n, e)
  BY <1>3
<1>4. /\ held' = [held EXCEPT ![d][n] = Store(held[d][n], e)]
      /\ UNCHANGED <<file, here, mapped, agreed, copied, cycle, written, letGo, inGap, left>>
  BY DEF Arrive, disk, memory, ghosts
<1>5. /\ \A x \in Devices \ {d} : held'[x] = held[x]
      /\ held'[d][n] = Store(held[d][n], e)
      /\ \A m \in Names \ {n} : held'[d][m] = held[d][m]
  BY <1>4 DEF TypeOK
<1>6. /\ Store(held[d][n], e) # {}
      /\ Store(held[d][n], e) \subseteq held[d][n] \cup {e}
  BY DEF Store
<1>7. ASSUME NEW x \in Devices, n \in CopyNamesOf(x) PROVE held[x][n] # {}
  BY <1>7 DEF TextsSecure, Owned
<1>8. Secure(d, file'[d], held'[d], agreed'[d], copied'[d], cycle'[d], letGo' \cup inGap')
  <2>1. Secure(d, file[d], held[d], agreed[d], copied[d], cycle[d], letGo \cup inGap)
    BY SecureNow DEF SecureHere
  <2>2. Tells(e, letGo \cup inGap) /\ \A r \in held[d][n] : Tells(r, letGo \cup inGap)
    BY SecureNow DEF Secured, Said
  <2>3. Secure(d, file[d], held'[d], agreed[d], copied[d], cycle[d], letGo \cup inGap)
    <3>1. PICK s : s = held'[d]
      OBVIOUS
    <3>2. /\ \A x \in Names \ {n} : s[x] = held[d][x]
          /\ s[n] # {} /\ \A r \in s[n] : Tells(r, letGo \cup inGap)
          /\ n \in CopyNamesOf(d) => held[d][n] # {}
      BY <1>5, <1>6, <1>7, <2>2, <3>1
    <3> QED
      BY <2>1, <3>1, <3>2, ArrivedSecure
  <2> QED
    BY <1>4, <2>3
<1>9. Owned'
  <2>1. \A x \in Devices, m \in Names : (x # d \/ m # n) =>
          held'[x][m] = held[x][m] /\ file'[x][m] = file[x][m]
    BY <1>4, <1>5
  <2>2. n \in CopyNamesOf(d) => file[d][n] # NoText
    BY <1>7 DEF TextsSecure, Owned
  <2> QED
    <3>1. Owned
      BY DEF TextsSecure
    <3>2. held[d][n] # {} => held'[d][n] # {}
      BY <1>5, <1>6
    <3>3. n \in CopyNamesOf(d) =>
            /\ held'[d][n] # {} => file'[d][n] # NoText
            /\ file[d][n] # NoText => file'[d][n] # NoText
      BY <1>4, <2>2
    <3>4. \A x \in Devices \ {d} : (n \in CopyNamesOf(x) /\ held[x][n] = {}) =>
            held'[d][n] = {} /\ file'[d][n] = NoText
      BY <1>7
    <3> QED
      BY <2>1, <3>1, <3>2, <3>3, <3>4, OwnedAgain
<1>10. NoTextLost'
  BY <1>4, TextsStay DEF TextsSecure
<1> QED
  BY <1>4, <1>5, <1>8, <1>9, <1>10, OneSecure DEF OthersKeep

\* What the next name of a cycle finds, and a cycle that goes on.
LEMMA ThroughIs ==
  ASSUME TypeOK, NEW d \in Devices, NEW n \in Names, Through(d, n)
  PROVE  /\ \A x \in Devices \ {d} : cycle'[x] = cycle[x]
         /\ \/ cycle'[d] = Idle /\ cycle[d].todo = {n}
            \/ /\ cycle'[d].at = "turn" /\ cycle'[d].todo = cycle[d].todo \ {n}
               /\ cycle'[d].relied = {} /\ cycle'[d].stale = cycle[d].stale
               /\ cycle'[d].missing = cycle[d].missing /\ cycle'[d].listed = cycle[d].listed
               /\ cycle'[d].was = cycle[d].was /\ cycle'[d].read = cycle[d].read
<1> DEFINE new == [cycle[d] EXCEPT !.at = "turn", !.todo = cycle[d].todo \ {n}, !.relied = {},
                                   !.pending = NoRecord]
<1>1. /\ \A x \in Devices \ {d} : cycle'[x] = cycle[x]
      /\ (cycle'[d] = Idle /\ cycle[d].todo = {n}) \/ cycle'[d] = new
  BY DEF Through, TypeOK
<1>2. /\ new.at = "turn" /\ new.todo = cycle[d].todo \ {n} /\ new.relied = {}
      /\ new.stale = cycle[d].stale /\ new.missing = cycle[d].missing
      /\ new.listed = cycle[d].listed /\ new.was = cycle[d].was /\ new.read = cycle[d].read
  BY DEF TypeOK, Cycle
<1> HIDE DEF new
<1> QED
  BY <1>1, <1>2

LEMMA GoesToIs ==
  ASSUME TypeOK, NEW d \in Devices, NEW at, GoesTo(d, at)
  PROVE  /\ \A x \in Devices \ {d} : cycle'[x] = cycle[x]
         /\ cycle'[d].at = at /\ cycle'[d].relied = cycle[d].relied
         /\ SameFile(cycle[d], cycle'[d])
<1>1. cycle \in [Devices -> Cycle] /\ cycle[d] \in Cycle
  BY DEF TypeOK
<1>2. /\ cycle'[d] = [cycle[d] EXCEPT !.at = at]
      /\ \A x \in Devices \ {d} : cycle'[x] = cycle[x]
  BY <1>1 DEF GoesTo
<1> QED
  BY <1>1, <1>2 DEF Cycle, SameFile

LEMMA ReliesIs ==
  ASSUME TypeOK, NEW d \in Devices, NEW at, NEW m,
         cycle' = [cycle EXCEPT ![d].at = at, ![d].relied = {m}]
  PROVE  /\ \A x \in Devices \ {d} : cycle'[x] = cycle[x]
         /\ cycle'[d].at = at /\ cycle'[d].relied = {m}
         /\ SameFile(cycle[d], cycle'[d])
<1>1. cycle \in [Devices -> Cycle] /\ cycle[d] \in Cycle
  BY DEF TypeOK
<1>2. /\ cycle'[d] = [cycle[d] EXCEPT !.at = at, !.relied = {m}]
      /\ \A x \in Devices \ {d} : cycle'[x] = cycle[x]
  BY <1>1
<1> QED
  BY <1>1, <1>2 DEF Cycle, SameFile

LEMMA PendingIs ==
  ASSUME TypeOK, NEW d \in Devices, NEW pending,
         cycle' = [cycle EXCEPT ![d].at = "record", ![d].pending = pending]
  PROVE  /\ \A x \in Devices \ {d} : cycle'[x] = cycle[x]
         /\ cycle'[d].at = "record" /\ cycle'[d].pending = pending
         /\ SameFile(cycle[d], cycle'[d])
<1>1. cycle \in [Devices -> Cycle] /\ cycle[d] \in Cycle
  BY DEF TypeOK
<1>2. /\ cycle'[d] = [cycle[d] EXCEPT !.at = "record", !.pending = pending]
      /\ \A x \in Devices \ {d} : cycle'[x] = cycle[x]
  BY <1>1
<1> QED
  BY <1>1, <1>2 DEF Cycle, SameFile

\* What a step that leaves the folders, stores, records and copies leaves.
StaysPut ==
  UNCHANGED <<file, here, mapped, held, agreed, copied, written, letGo, inGap>>

\* The cycle is through with n, left for the next cycle.
LEMMA LeavesSecure ==
  ASSUME TypeOK, TextsSecure, NEW d \in Devices, NEW n \in Names, Through(d, n),
         cycle[d].at \in {"turn", "kept", "write", "rename"}, StaysPut, UNCHANGED left
  PROVE  TextsSecure'
<1>1. Secure(d, file[d], held[d], agreed[d], copied[d], cycle[d], letGo \cup inGap)
  BY SecureNow DEF SecureHere
<1>2. \/ cycle'[d] = Idle /\ cycle[d].todo = {n}
      \/ /\ cycle'[d].at = "turn" /\ cycle'[d].todo = cycle[d].todo \ {n}
         /\ cycle'[d].relied = {} /\ cycle'[d].stale = cycle[d].stale
         /\ cycle'[d].missing = cycle[d].missing /\ cycle'[d].listed = cycle[d].listed
         /\ cycle'[d].was = cycle[d].was /\ cycle'[d].read = cycle[d].read
  BY ThroughIs
<1>3. Secure(d, file[d], held[d], agreed[d], copied[d], cycle'[d], letGo \cup inGap)
  <2>1. CASE cycle'[d] = Idle
    BY <1>1, <2>1, EndSecure
  <2>2. CASE cycle'[d] # Idle
    BY <1>1, <1>2, <2>2, LeftSecure
  <2> QED
    BY <2>1, <2>2
<1>4. \A x \in Devices \ {d} : cycle'[x] = cycle[x]
  BY ThroughIs
<1> QED
  BY <1>3, <1>4, CycleSecure DEF StaysPut

\* It goes on with n.
LEMMA GoesOnSecure ==
  ASSUME TypeOK, TextsSecure, NEW d \in Devices, NEW n \in Names, First(cycle[d], n),
         cycle[d].at \in {"turn", "kept", "write"},
         cycle'[d].at \in {"kept", "write", "rename"}, SameFile(cycle[d], cycle'[d]),
         \A x \in Devices \ {d} : cycle'[x] = cycle[x],
         Relies(d, n, file[d], cycle'[d], letGo \cup inGap),
         StaysPut, UNCHANGED left \/ Spend("gap")
  PROVE  TextsSecure'
<1>1. Secure(d, file[d], held[d], agreed[d], copied[d], cycle[d], letGo \cup inGap)
  BY SecureNow DEF SecureHere
<1>2. Secure(d, file[d], held[d], agreed[d], copied[d], cycle'[d], letGo \cup inGap)
  <2>1. cycle[d] \in Cycle
    BY DEF TypeOK
  <2> QED
    BY <1>1, <2>1, MovesSecure
<1> QED
  BY <1>2, CycleSecure DEF StaysPut

\* A cycle begins.
LEMMA BeginSecure ==
  ASSUME TypeOK, TextsSecure, NEW d \in Devices,
         List(d) \/ ReadGone(d) \/ ReadChannel(d) \/ Stop(d)
  PROVE  TextsSecure'
<1> USE DEF disk, store, memory, ghosts
<1>0. /\ Secure(d, file[d], held[d], agreed[d], copied[d], cycle[d], letGo \cup inGap)
      /\ here[d] /\ ~cycle[d].missing /\ ~cycle[d].stale
  BY SecureNow DEF SecureHere
<1>1. List(d) \/ ReadChannel(d)
  BY <1>0 DEF ReadGone, Gone, Stop
<1>2. UNCHANGED <<file, here, mapped, held, agreed, copied, written, letGo, inGap, left>>
  BY <1>0, <1>1 DEF List, ReadChannel, Makes
<1>3. \A x \in Devices \ {d} : cycle'[x] = cycle[x]
  BY <1>1 DEF List, Listing, ReadChannel, TypeOK
<1>4. SUFFICES Secure(d, file[d], held[d], agreed[d], copied[d], cycle'[d], letGo \cup inGap)
  BY <1>2, <1>3, CycleSecure
<1>5. CASE List(d)
  <2> DEFINE listed == [n \in Names |-> Found(d, n)]
  <2>1. \A n \in Names : listed[n] = file[d][n]
    BY <1>0 DEF Found
  <2> HIDE DEF listed
  <2>2. cycle'[d] = [Idle EXCEPT !.at = "listed", !.listed = listed, !.missing = ~here[d]]
        /\ cycle[d].at = "idle"
    BY <1>5 DEF List, Listing, TypeOK, listed
  <2>3. /\ cycle'[d].at = "listed" /\ cycle'[d].listed = listed /\ cycle'[d].stale = FALSE
        /\ cycle'[d].missing = ~here[d] /\ cycle'[d].todo = {} /\ cycle'[d].relied = {}
        /\ \A n \in Names : cycle'[d].read[n] = {} /\ cycle'[d].was[n] = NoRecord
    BY <2>2 DEF Idle
  <2> QED
    <3>1. PICK new : new = cycle'[d]
      OBVIOUS
    <3>2. /\ new.at = "listed" /\ ~new.stale /\ ~new.missing /\ new.todo = {} /\ new.relied = {}
          /\ \A n \in Names : /\ new.read[n] = {} /\ new.was[n] = NoRecord
                             /\ new.listed[n] = file[d][n]
      BY <1>0, <2>1, <2>3, <3>1
    <3>3. Secure(d, file[d], held[d], agreed[d], copied[d], new, letGo \cup inGap)
      BY <1>0, <2>2, <3>2, ListedSecure
    <3> QED
      BY <3>1, <3>3
<1>6. CASE ReadChannel(d)
  <2> DEFINE read == [n \in Names |-> Version(held[d][n])]
             todo == {n \in Names :
                        Planned(cycle[d].listed, d, n, read[n], agreed[d][n]).step # "nothing"}
             new == [cycle[d] EXCEPT !.at = "turn", !.read = read, !.was = agreed[d], !.todo = todo]
  <2>1. cycle[d].at = "listed" /\ (cycle'[d] = Idle \/ cycle'[d] = new)
    BY <1>6 DEF ReadChannel, TypeOK
  <2>2. CASE cycle'[d] = Idle
    BY <1>0, <2>1, <2>2, EndSecure
  <2>3. CASE cycle'[d] = new
    <3>1. \A n \in Names : read[n] \subseteq held[d][n]
      BY DEF Version
    <3>2. ASSUME NEW n \in todo PROVE read[n] # {} \/ cycle[d].listed[n] # NoText
      BY <3>2 DEF Planned, PlanOverNone, Do
    <3> HIDE DEF read, todo
    <3>3. /\ new.at = "turn" /\ new.stale = cycle[d].stale /\ new.missing = cycle[d].missing
          /\ new.relied = cycle[d].relied /\ new.listed = cycle[d].listed
          /\ new.was = agreed[d] /\ new.read = read /\ new.todo = todo
      BY DEF TypeOK, Cycle
    <3> HIDE DEF new
    <3> QED
      BY <1>0, <2>1, <2>3, <3>1, <3>2, <3>3, BegunSecure
  <2> QED
    BY <2>1, <2>2, <2>3
<1> QED
  BY <1>1, <1>5, <1>6

\* A text is published, over the version that was agreed.
LEMMA PublishesSecure ==
  ASSUME TypeOK, StoreIsAhead, TextsSecure, NEW d \in Devices, NEW n \in Names,
         Turn(d, n), PlanOf(d, n).step = "publish", Publishes(d, n, cycle[d].listed[n]),
         UNCHANGED <<file, here, mapped, agreed, written, letGo, inGap, left>>
  PROVE  TextsSecure'
<1> DEFINE text == cycle[d].listed[n]
           g == letGo \cup inGap
<1>0. /\ Secure(d, file[d], held[d], agreed[d], copied[d], cycle[d], g)
      /\ Secured(d, n, file[d], held[d], agreed[d], copied[d], cycle[d], g)
      /\ cycle[d].at = "turn" /\ First(cycle[d], n) /\ Unsettled(cycle[d], n)
  BY SecureNow DEF SecureHere, Turn, First, Unsettled, Recording
<1>1. text \in Texts /\ Holds(file[d], n, text, g)
  <2>1. text # NoText /\ text \in Values
    BY PlannedSays, ListedTyped
  <2> QED
    BY <1>0, <2>1 DEF Secured, Has, Values
<1>2. PICK top \in Highest(held[d][n]), over \in ChainsOver(cycle[d].read[n], d) :
        LET e == [author |-> d, rev |-> top + 1, val |-> text,
                  chain |-> Cut(copied[d][n] \o over)]
        IN
        /\ held' = [held EXCEPT ![d][n] = Store(held[d][n], e)]
        /\ copied' = [copied EXCEPT ![d][n] = <<>>]
        /\ cycle' = [cycle EXCEPT ![d].at = "record", ![d].pending = AgreedWith(e, text)]
  BY DEF Publishes
<1>3. PICK e : e = [author |-> d, rev |-> top + 1, val |-> text,
                    chain |-> Cut(copied[d][n] \o over)]
  OBVIOUS
<1>4. /\ held' = [held EXCEPT ![d][n] = Store(held[d][n], e)]
      /\ copied' = [copied EXCEPT ![d][n] = <<>>]
      /\ cycle' = [cycle EXCEPT ![d].at = "record", ![d].pending = AgreedWith(e, text)]
  BY <1>2, <1>3
<1>5. e.val = text /\ e.chain = Cut(copied[d][n] \o over)
  BY <1>3
<1>6. Tells(e, g)
  <2>1. \A i \in DOMAIN copied[d][n] : copied[d][n][i] \in g \cup {text}
    BY <1>0 DEF Secured, Copies
  <2>2. \A one \in cycle[d].read[n] : Tells(one, g)
    BY <1>0 DEF Secured, Said
  <2>3. ASSUME NEW one \in cycle[d].read[n] PROVE one.val \in g
    <3>1. TheOne(cycle[d].read[n], d) # {}
      BY <2>3 DEF ChainsOver
    <3>2. cycle[d].was[n] # NoRecord => cycle[d].was[n].val \in g \cup {text}
      BY <1>0 DEF Secured, Edited, First
    <3> QED
      BY <2>2, <3>1, <3>2, PublishedOverAgreed
  <2>4. copied[d][n] \in Chain /\ cycle[d].read[n] \in SUBSET Entry
    BY HeldTyped, ListedTyped
  <2> HIDE DEF g, text
  <2> QED
    BY <1>1, <1>5, <2>1, <2>2, <2>3, <2>4, PublishedTells
<1>7. PICK pending : pending = AgreedWith(e, text)
  OBVIOUS
<1>8. Tells(pending, g) /\ pending.val = text
  BY <1>5, <1>6, <1>7, AgreedTells
<1>9. /\ \A x \in Devices \ {d} : held'[x] = held[x] /\ copied'[x] = copied[x]
      /\ held'[d][n] = Store(held[d][n], e) /\ copied'[d][n] = <<>>
      /\ \A m \in Names \ {n} : held'[d][m] = held[d][m] /\ copied'[d][m] = copied[d][m]
  BY <1>4 DEF TypeOK
<1>10. held'[d][n] # {} /\ held'[d][n] \subseteq held[d][n] \cup {e}
  BY <1>9 DEF Store
<1>11. /\ \A x \in Devices \ {d} : cycle'[x] = cycle[x]
       /\ cycle'[d].at = "record" /\ cycle'[d].pending = pending
       /\ SameFile(cycle[d], cycle'[d])
  BY <1>4, <1>7, PendingIs
<1>12. Secure(d, file[d], held'[d], agreed[d], copied'[d], cycle'[d], g)
  <2>1. PICK s, l, new : s = held'[d] /\ l = copied'[d] /\ new = cycle'[d]
    OBVIOUS
  <2>2. Changed(n, file[d], held[d], copied[d], file[d], s, l, new, g)
    <3>1. \A r \in held[d][n] : Tells(r, g)
      BY <1>0 DEF Secured, Said
    <3>2. s[n] # {} /\ l[n] = <<>> /\ \A r \in s[n] : Tells(r, g)
      BY <1>6, <1>9, <1>10, <2>1, <3>1
    <3>3. \A x \in Names \ {n} : s[x] = held[d][x] /\ l[x] = copied[d][x]
      BY <1>9, <2>1
    <3>4. /\ new.at = "record"
          /\ Tells(new.pending, g) /\ Holds(file[d], n, new.pending.val, g)
      BY <1>1, <1>8, <1>11, <2>1
    <3> QED
      BY <3>2, <3>3, <3>4 DEF Changed
  <2>3. SameFile(cycle[d], new)
    BY <1>11, <2>1
  <2>4. cycle[d] \in Cycle /\ cycle[d].at \in {"turn", "write", "rename"}
    BY <1>0 DEF TypeOK
  <2>5. Secure(d, file[d], s, agreed[d], l, new, g)
    BY <1>0, <2>2, <2>3, <2>4, PendingSecure
  <2> QED
    BY <2>1, <2>5
<1>13. Owned'
  <2>1. Owned /\ file[d][n] # NoText
    BY <1>1 DEF TextsSecure, Holds
  <2>2. \A x \in Devices, m \in Names : (x # d \/ m # n) =>
          held'[x][m] = held[x][m] /\ file'[x][m] = file[x][m]
    BY <1>9
  <2>3. ASSUME NEW x \in Devices \ {d}, n \in CopyNamesOf(x), held[x][n] = {} PROVE FALSE
    BY <2>1, <2>3 DEF Owned
  <2>4. /\ held[d][n] # {} => held'[d][n] # {}
        /\ n \in CopyNamesOf(d) =>
             /\ held'[d][n] # {} => file'[d][n] # NoText
             /\ file[d][n] # NoText => file'[d][n] # NoText
        /\ \A x \in Devices \ {d} : (n \in CopyNamesOf(x) /\ held[x][n] = {}) =>
             held'[d][n] = {} /\ file'[d][n] = NoText
    BY <1>10, <2>1, <2>3
  <2> QED
    BY <2>1, <2>2, <2>4, OwnedAgain
<1>14. NoTextLost'
  BY TextsStay DEF TextsSecure
<1>15. OthersKeep(d)
  BY <1>9, <1>11 DEF OthersKeep
<1>16. Secure(d, file'[d], held'[d], agreed'[d], copied'[d], cycle'[d], letGo' \cup inGap')
  BY <1>12
<1> QED
  BY <1>13, <1>14, <1>15, <1>16, OneSecure

LEMMA PublishSecure ==
  ASSUME TypeOK, StoreIsAhead, TextsSecure, NEW d \in Devices, NEW n \in Names,
         PublishText(d, n) \/ LookForDelete(d, n) \/ PublishDelete(d, n)
  PROVE  TextsSecure'
<1> USE DEF disk, store, memory, ghosts
<1>0. /\ cycle[d].at # "delete" /\ here[d]
      /\ Secured(d, n, file[d], held[d], agreed[d], copied[d], cycle[d], letGo \cup inGap)
  BY SecureNow
<1>1. CASE PublishText(d, n)
  <2>1. CASE Publishes(d, n, cycle[d].listed[n])
    BY <1>1, <2>1, PublishesSecure DEF PublishText
  <2>2. CASE Unpublished(d, n)
    BY <1>1, <2>2, LeavesSecure DEF PublishText, Unpublished, Turn, StaysPut
  <2> QED
    BY <1>1, <2>1, <2>2 DEF PublishText
<1>2. CASE LookForDelete(d, n)
  <2>1. cycle[d].at = "turn" /\ n \in cycle[d].todo /\ cycle[d].was[n] # NoRecord
    BY <1>2, PlannedSays, TextIsThere DEF LookForDelete, Turn
  <2>2. file[d][n] # NoText
    BY <1>0, <2>1 DEF Secured, Edited
  <2>3. Through(d, n) /\ StaysPut /\ UNCHANGED left
    BY <1>0, <1>2, <2>2 DEF LookForDelete, StaysPut
  <2> QED
    BY <2>1, <2>3, LeavesSecure
<1>3. CASE PublishDelete(d, n)
  BY <1>0, <1>3 DEF PublishDelete, At
<1> QED
  BY <1>1, <1>2, <1>3

\* The record is made of n.
LEMMA RecordSecure ==
  ASSUME TypeOK, StoreIsAhead, TextsSecure, NEW d \in Devices, NEW n \in Names,
         Record(d, n) \/ RecordAlone(d, n)
  PROVE  TextsSecure'
<1> USE DEF disk, ghosts
<1> DEFINE g == letGo \cup inGap
<1>0. /\ Secure(d, file[d], held[d], agreed[d], copied[d], cycle[d], g)
      /\ Secured(d, n, file[d], held[d], agreed[d], copied[d], cycle[d], g)
      /\ ~cycle[d].stale
  BY SecureNow DEF SecureHere
<1>1. PICK record :
        /\ agreed' = [agreed EXCEPT ![d][n] = record]
        /\ Tells(record, g) /\ Holds(file[d], n, record.val, g)
  <2>1. CASE Record(d, n)
    <3>1. agreed' = [agreed EXCEPT ![d][n] = cycle[d].pending] /\ Recording(cycle[d], n)
      BY <1>0, <2>1 DEF Record, At, Recording, First
    <3> QED
      BY <1>0, <3>1 DEF Secured, Said, Has
  <2>2. CASE RecordAlone(d, n)
    <3>1. PICK one \in TheOne(cycle[d].read[n], d) :
            /\ agreed' = [agreed EXCEPT ![d][n] = AgreedWith(one, cycle[d].listed[n])]
            /\ Turn(d, n) /\ PlanOf(d, n).step = "record"
      BY <2>2 DEF RecordAlone
    <3>2. PICK top \in cycle[d].read[n] :
            /\ top.val = one.val
            /\ PlanOf(d, n) =
                 PlanOver(cycle[d].listed[n], top, cycle[d].read[n], cycle[d].was[n])
      BY PlanIsOver
    <3>3. cycle[d].listed[n] = one.val
      <4>1. cycle[d].listed[n] \in Values /\ top \in Entry /\ cycle[d].was[n] \in Records
        BY ListedTyped
      <4> QED
        BY <3>1, <3>2, <4>1, RecordIsOfTheSame
    <3>4. Tells(one, g)
      BY <1>0, TheOneTyped DEF Secured, Said
    <3>5. one.val # NoText
      BY <3>4, TextIsThere DEF Tells
    <3>6. Unsettled(cycle[d], n)
      BY <3>1 DEF Turn, Unsettled, Recording
    <3>7. Holds(file[d], n, one.val, g)
      BY <1>0, <3>3, <3>5, <3>6 DEF Secured, Has
    <3>8. AgreedWith(one, one.val).val = one.val /\ Tells(AgreedWith(one, one.val), g)
      BY <3>4, AgreedTells
    <3> QED
      BY <3>1, <3>3, <3>7, <3>8
  <2> QED
    BY <2>1, <2>2
<1>2. /\ First(cycle[d], n) /\ cycle[d].at \in {"record", "turn"} /\ Through(d, n)
      /\ UNCHANGED <<file, here, mapped, held, copied, written, letGo, inGap, left>>
  BY DEF Record, RecordAlone, Turn, At, First
<1>3. /\ \A m \in Names \ {n} : agreed'[d][m] = agreed[d][m]
      /\ agreed'[d][n] = record
      /\ \A x \in Devices \ {d} : agreed'[x] = agreed[x]
  BY <1>1 DEF TypeOK
<1>4. Secure(d, file[d], held[d], agreed'[d], copied[d], cycle'[d], g)
  <2>1. PICK new, b : new = cycle'[d] /\ b = agreed'[d]
    OBVIOUS
  <2>2. \/ new = Idle /\ cycle[d].todo = {n}
        \/ /\ new.at = "turn" /\ new.todo = cycle[d].todo \ {n} /\ new.relied = {}
           /\ new.stale = cycle[d].stale /\ new.missing = cycle[d].missing
           /\ new.listed = cycle[d].listed
           /\ new.was = cycle[d].was /\ new.read = cycle[d].read
    BY <1>2, <2>1, ThroughIs
  <2>3. /\ \A x \in Names \ {n} : b[x] = agreed[d][x]
        /\ Tells(b[n], g) /\ Holds(file[d], n, b[n].val, g)
    BY <1>1, <1>3, <2>1
  <2>4. cycle[d] \in Cycle
    BY DEF TypeOK
  <2> HIDE DEF g
  <2>5. Secure(d, file[d], held[d], b, copied[d], new, g)
    BY <1>0, <1>2, <2>2, <2>3, <2>4, RecordedSecure
  <2> QED
    BY <2>1, <2>5
<1>5. \A x \in Devices \ {d} : cycle'[x] = cycle[x]
  BY <1>2, ThroughIs
<1>6. Secure(d, file[d], held[d], agreed'[d], copied'[d], cycle'[d], letGo \cup inGap)
  BY <1>2, <1>4
<1> QED
  BY <1>2, <1>3, <1>5, <1>6, CycleSecure

\* What a plan that keeps the text is of.
LEMMA KeepsText ==
  ASSUME TypeOK, TextsSecure, CopiesAreOwn, NEW d \in Devices, NEW n \in Names, Keeps(d, n)
  PROVE  /\ cycle[d].at = "turn" /\ First(cycle[d], n) /\ cycle[d].listed[n] # NoText
         /\ \A m \in Names : FirstName(d, n, m) => m \in CopyNamesOf(d) /\ m # n
<1>1. cycle[d].at = "turn" /\ First(cycle[d], n) /\ cycle[d].listed[n] # NoText
  BY PlannedSays DEF Keeps, Turn, First
<1>2. ASSUME NEW m \in Names, FirstName(d, n, m) PROVE m \in CopyNamesOf(d) /\ m # n
  <2>1. PICK i \in DOMAIN CopyNames[d][n] : m = CopyNames[d][n][i]
    BY <1>2 DEF FirstName
  <2> QED
    BY <2>1 DEF CopyNamesOf, CopiesAreOwn
<1> QED
  BY <1>1, <1>2

\* A name is claimed for the copy.
LEMMA ClaimSecure ==
  ASSUME TypeOK, TextsSecure, CopiesAreOwn, NEW d \in Devices, NEW n \in Names, ClaimCopy(d, n)
  PROVE  TextsSecure'
<1> DEFINE g == letGo \cup inGap
<1>0. /\ Secure(d, file[d], held[d], agreed[d], copied[d], cycle[d], g)
      /\ Secured(d, n, file[d], held[d], agreed[d], copied[d], cycle[d], g)
      /\ here[d]
  BY SecureNow DEF SecureHere
<1>1. PICK m \in Names :
        /\ Keeps(d, n) /\ FirstName(d, n, m) /\ IsFree(d, n, m)
        /\ copied' = [copied EXCEPT ![d][m] = KeptAfter(d, n)]
        /\ cycle' = [cycle EXCEPT ![d].at = "copy", ![d].relied = {m}]
        /\ UNCHANGED <<file, here, mapped, held, agreed, written, letGo, inGap, left>>
  BY DEF ClaimCopy, disk, ghosts
<1>2. /\ cycle[d].at = "turn" /\ First(cycle[d], n) /\ cycle[d].listed[n] # NoText
      /\ m \in CopyNamesOf(d) /\ m # n
  BY <1>1, KeepsText
<1>3. file[d][m] = NoText /\ held[d][m] = {}
  <2>1. file[d][m] = NoText
    BY <1>0, <1>1 DEF IsFree, Found
  <2> QED
    BY <1>2, <2>1 DEF TextsSecure, Owned
<1>4. \A i \in DOMAIN KeptAfter(d, n) : KeptAfter(d, n)[i] \in g \cup {cycle[d].listed[n]}
  <2>1. cycle[d].was[n] # NoRecord =>
          Tells(cycle[d].was[n], g) /\ cycle[d].was[n].val \in g \cup {cycle[d].listed[n]}
    BY <1>0, <1>2 DEF Secured, Said, Edited, First
  <2> HIDE DEF g
  <2> QED
    BY <2>1, KeptAfterTells
<1>5. /\ \A x \in Devices \ {d} : copied'[x] = copied[x]
      /\ copied'[d] = [copied[d] EXCEPT ![m] = KeptAfter(d, n)]
  BY <1>1 DEF TypeOK
<1>6. /\ \A x \in Devices \ {d} : cycle'[x] = cycle[x]
      /\ cycle'[d].at = "copy" /\ cycle'[d].relied = {m} /\ SameFile(cycle[d], cycle'[d])
  <2>1. cycle' = [cycle EXCEPT ![d].at = "copy", ![d].relied = {m}]
    BY <1>1
  <2> QED
    BY <2>1, ReliesIs
<1>7. Secure(d, file[d], held[d], agreed[d], copied'[d], cycle'[d], g)
  <2>1. PICK chain, new : chain = KeptAfter(d, n) /\ new = cycle'[d]
    OBVIOUS
  <2>2. /\ new.at = "copy" /\ new.relied = {m} /\ SameFile(cycle[d], new)
    BY <1>6, <2>1
  <2>3. copied[d] \in [Names -> Chain] /\ cycle[d] \in Cycle
    BY DEF TypeOK
  <2>4. NoText \notin g
    BY TextIsThere DEF TypeOK
  <2>5. \A i \in DOMAIN chain : chain[i] \in g \cup {cycle[d].listed[n]}
    BY <1>4, <2>1
  <2> HIDE DEF g
  <2>6. Secure(d, file[d], held[d], agreed[d], [copied[d] EXCEPT ![m] = chain], new, g)
    BY <1>0, <1>2, <1>3, <2>2, <2>3, <2>4, <2>5, ClaimedSecure
  <2> QED
    BY <1>5, <2>1, <2>6
<1>8. \A x \in Devices \ {d} :
        agreed'[x] = agreed[x] /\ copied'[x] = copied[x] /\ cycle'[x] = cycle[x]
  BY <1>1, <1>5, <1>6
<1>9. Secure(d, file[d], held[d], agreed'[d], copied'[d], cycle'[d], letGo \cup inGap)
  BY <1>1, <1>7
<1> QED
  BY <1>1, <1>8, <1>9, CycleSecure

\* The copy is written, where no file is.
LEMMA CopySecure ==
  ASSUME TypeOK, TextsSecure, CopiesAreOwn, NEW d \in Devices, NEW n \in Names, WriteCopy(d, n)
  PROVE  TextsSecure'
<1> DEFINE g == letGo \cup inGap
           text == cycle[d].listed[n]
<1>0. /\ Secure(d, file[d], held[d], agreed[d], copied[d], cycle[d], g)
      /\ here[d] /\ cycle[d] \in Cycle /\ file[d] \in [Names -> Values]
  BY SecureNow DEF SecureHere, TypeOK
<1>1. PICK m \in cycle[d].relied :
        /\ At(d, n, "copy")
        /\ IF here[d] /\ file[d][m] = NoText
           THEN file' = [file EXCEPT ![d][m] = text] /\ GoesTo(d, "kept")
           ELSE Through(d, n) /\ UNCHANGED file
        /\ UNCHANGED <<here, mapped, held, agreed, copied, written, letGo, inGap, left>>
  BY DEF WriteCopy, store
<1>2. cycle[d].at = "copy" /\ First(cycle[d], n)
  BY <1>1 DEF At, First
<1>3. /\ m \in CopyNamesOf(d) /\ m # n /\ file[d][m] = NoText /\ text # NoText
      /\ m \in Names /\ text \in Values
  <2>1. /\ m \in CopyNamesOf(d) /\ m # n /\ file[d][m] = NoText
        /\ cycle[d].listed[n] # NoText /\ m \in Names
    <3> HIDE DEF g
    <3> QED
      BY <1>0, <1>2, CopyIsToCome
  <2> QED
    BY <2>1, ListedTyped
<1>4. /\ file' = [file EXCEPT ![d][m] = text] /\ GoesTo(d, "kept")
  BY <1>0, <1>1, <1>3
<1>5. /\ \A x \in Devices \ {d} : file'[x] = file[x]
      /\ file'[d] = [file[d] EXCEPT ![m] = text]
      /\ \A x \in Devices, y \in Names : (x # d \/ y # m) => file'[x][y] = file[x][y]
      /\ file'[d][m] = text
  BY <1>3, <1>4 DEF TypeOK
<1>6. /\ \A x \in Devices \ {d} : cycle'[x] = cycle[x]
      /\ cycle'[d].at = "kept" /\ cycle'[d].relied = cycle[d].relied
      /\ SameFile(cycle[d], cycle'[d])
  <2>1. GoesTo(d, "kept")
    BY <1>4
  <2> QED
    BY <2>1, GoesToIs
<1>7. Secure(d, file'[d], held'[d], agreed'[d], copied'[d], cycle'[d], letGo' \cup inGap')
  <2>1. PICK new : new = cycle'[d]
    OBVIOUS
  <2>2. new.at = "kept" /\ new.relied = cycle[d].relied /\ SameFile(cycle[d], new)
    BY <1>6, <2>1
  <2>3. Secure(d, [file[d] EXCEPT ![m] = text], held[d], agreed[d], copied[d], new, g)
    <3> HIDE DEF g
    <3> QED
      BY <1>0, <1>2, <2>2, KeptSecure
  <2> QED
    BY <1>1, <1>5, <2>1, <2>3
<1>8. Owned'
  <2>1. Owned
    BY DEF TextsSecure
  <2>2. \A x \in Devices, y \in Names : (x # d \/ y # m) =>
          held'[x][y] = held[x][y] /\ file'[x][y] = file[x][y]
    BY <1>1, <1>5
  <2>3. ASSUME NEW x \in Devices \ {d} PROVE m \notin CopyNamesOf(x)
    BY <1>3 DEF CopiesAreOwn
  <2>4. /\ held[d][m] # {} => held'[d][m] # {}
        /\ m \in CopyNamesOf(d) =>
             /\ held'[d][m] # {} => file'[d][m] # NoText
             /\ file[d][m] # NoText => file'[d][m] # NoText
        /\ \A x \in Devices \ {d} : (m \in CopyNamesOf(x) /\ held[x][m] = {}) =>
             held'[d][m] = {} /\ file'[d][m] = NoText
    BY <1>1, <1>3, <1>5, <2>3
  <2> QED
    BY <1>3, <2>1, <2>2, <2>4, OwnedAgain
<1>9. NoTextLost'
  <2>1. written' \subseteq Texts /\ written' \subseteq written \cup {text}
    BY <1>1 DEF TypeOK
  <2>2. file[d][m] \in letGo' \cup inGap' \cup {NoText}
    BY <1>3
  <2> QED
    BY <1>1, <1>3, <1>4, <2>1, <2>2, TextsGoOn DEF TextsSecure
<1>10. OthersKeep(d)
  BY <1>1, <1>5, <1>6 DEF OthersKeep
<1>11. letGo \subseteq letGo' /\ inGap \subseteq inGap' /\ left' = left
  BY <1>1
<1> QED
  BY <1>7, <1>8, <1>9, <1>10, <1>11, OneSecure

LEMMA KeepSecure ==
  ASSUME TypeOK, TextsSecure, CopiesAreOwn, NEW d \in Devices, NEW n \in Names,
         FindCopy(d, n) \/ ClaimCopy(d, n) \/ NoName(d, n) \/ WriteCopy(d, n)
  PROVE  TextsSecure'
<1> USE DEF disk, store, ghosts
<1>1. CASE FindCopy(d, n)
  <2>1. PICK m \in Names :
          /\ Keeps(d, n) /\ FirstName(d, n, m)
          /\ cycle' = [cycle EXCEPT ![d].at = "kept", ![d].relied = {m}]
          /\ StaysPut /\ UNCHANGED left
    BY <1>1 DEF FindCopy, StaysPut
  <2>2. /\ cycle[d].at = "turn" /\ First(cycle[d], n) /\ cycle[d].listed[n] # NoText
        /\ m \in CopyNamesOf(d) /\ m # n
    BY <2>1, KeepsText
  <2>3. /\ cycle'[d].at = "kept" /\ cycle'[d].relied = {m}
        /\ SameFile(cycle[d], cycle'[d]) /\ \A x \in Devices \ {d} : cycle'[x] = cycle[x]
    <3>1. cycle' = [cycle EXCEPT ![d].at = "kept", ![d].relied = {m}]
      BY <2>1
    <3> QED
      BY <3>1, ReliesIs
  <2>4. Beside(n, m, file[d], cycle'[d], letGo \cup inGap)
    BY <2>2, <2>3 DEF Beside, SameFile
  <2>5. Relies(d, n, file[d], cycle'[d], letGo \cup inGap)
    BY <2>2, <2>4 DEF Relies
  <2> QED
    BY <2>1, <2>2, <2>3, <2>5, GoesOnSecure
<1>2. CASE ClaimCopy(d, n)
  BY <1>2, ClaimSecure
<1>3. CASE NoName(d, n)
  BY <1>3, LeavesSecure DEF NoName, Keeps, Turn, StaysPut
<1>4. CASE WriteCopy(d, n)
  BY <1>4, CopySecure
<1> QED
  BY <1>1, <1>2, <1>3, <1>4

\* The text that goes was let go, or is in the copy that it is relied on to
\* be in.
LEMMA ReplacedIsLetGo ==
  ASSUME TypeOK, StoreIsAhead, TextsSecure, NEW d \in Devices, NEW n \in Names,
         Replace(d, n) \/ Rename(d, n), TheOne(cycle[d].read[n], d) # {}
  PROVE  \/ file[d][n] \in letGo \cup inGap' \cup {NoText}
         \/ \E m \in Names \ {n} : file[d][m] = file[d][n]
<1> DEFINE g == letGo \cup inGap
           text == cycle[d].listed[n]
<1>0. Secured(d, n, file[d], held[d], agreed[d], copied[d], cycle[d], g)
  BY SecureNow
<1>1. First(cycle[d], n) /\ cycle[d].at \in {"write", "rename"} /\ inGap \subseteq inGap'
  BY DEF Replace, Rename, At, First
<1>2. \/ file[d][n] = text
      \/ file[d][n] \in inGap' \cup {NoText}
  BY DEF Replace, Rename, Unchanged
<1>3. CASE Over(d, n, cycle[d])
  <2>1. PlanOf(d, n).step \in Replacing /\ ~PlanOf(d, n).keep
    BY <1>3 DEF Over, PlanOf
  <2>2. \A e \in cycle[d].read[n] : Tells(e, g)
    BY <1>0 DEF Secured, Said
  <2>3. PICK one \in TheOne(cycle[d].read[n], d) : TRUE
    OBVIOUS
  <2>4. text \in g \cup {NoText}
    <3> HIDE DEF g
    <3> QED
      BY <2>1, <2>2, ReplacedWasLetGo
  <2> QED
    BY <1>1, <1>2, <2>4
<1>4. CASE ~Over(d, n, cycle[d])
  <2>1. PICK m \in CopyNamesOf(d) : Beside(n, m, file[d], cycle[d], g)
    <3>1. Relies(d, n, file[d], cycle[d], g)
      BY <1>0 DEF Secured
    <3> QED
      BY <1>1, <1>4, <3>1 DEF Relies
  <2>2. m \in Names \ {n} /\ cycle[d].relied = {m}
    BY <2>1 DEF Beside, CopyNamesOf
  <2>3. text \in g \cup {file[d][m]}
    <3>1. CASE Replace(d, n)
      BY <2>2, <3>1 DEF Replace, Unchanged
    <3>2. CASE Rename(d, n)
      BY <2>1, <3>2 DEF Rename, At, Beside
    <3> QED
      BY <3>1, <3>2
  <2> QED
    BY <1>1, <1>2, <2>2, <2>3
<1> QED
  BY <1>3, <1>4

\* The channel's text takes the file's place.
LEMMA ReplacesSecure ==
  ASSUME TypeOK, TypeOK', StoreIsAhead, TextsSecure, NEW d \in Devices, NEW n \in Names,
         Replace(d, n) \/ Rename(d, n)
  PROVE  TextsSecure'
<1> DEFINE g == letGo \cup inGap
<1>0. /\ Secure(d, file[d], held[d], agreed[d], copied[d], cycle[d], g)
      /\ Secured(d, n, file[d], held[d], agreed[d], copied[d], cycle[d], g)
  BY SecureNow DEF SecureHere
<1>1. PICK one \in TheOne(cycle[d].read[n], d) :
        /\ file' = [file EXCEPT ![d][n] = one.val]
        /\ cycle' = [cycle EXCEPT ![d].at = "record", ![d].pending = AgreedWith(one, one.val)]
        /\ UNCHANGED <<here, mapped, held, agreed, copied, written, letGo, left>>
  BY DEF Replace, Rename, Replaces, store
<1>2. /\ First(cycle[d], n) /\ cycle[d].at \in {"write", "rename"} /\ inGap \subseteq inGap'
  BY DEF Replace, Rename, At, First
<1>3. one \in cycle[d].read[n] /\ Tells(one, g)
  BY <1>0, TheOneTyped DEF Secured, Said
<1>4. /\ held[d][n] # {} /\ copied[d][n] = <<>>
      /\ \A r \in held[d][n] : Tells(r, g)
  BY <1>0, <1>3 DEF Secured, Said, Copies
<1>5. PICK pending : pending = AgreedWith(one, one.val)
  OBVIOUS
<1>6. Tells(pending, g) /\ pending.val = one.val /\ one.val \in Texts
  BY <1>3, <1>5, AgreedTells DEF Tells
<1>7. /\ file'[d][n] = one.val
      /\ \A x \in Devices, m \in Names : (x # d \/ m # n) => file'[x][m] = file[x][m]
      /\ \A x \in Devices \ {d} : file'[x] = file[x]
  BY <1>1 DEF TypeOK
<1>8. /\ \A x \in Devices \ {d} : cycle'[x] = cycle[x]
      /\ cycle'[d].at = "record" /\ cycle'[d].pending = pending
      /\ SameFile(cycle[d], cycle'[d])
  BY <1>1, <1>5, PendingIs
<1>9. Secure(d, file'[d], held'[d], agreed'[d], copied'[d], cycle'[d], letGo' \cup inGap')
  <2>1. PICK e, new : e = file'[d] /\ new = cycle'[d]
    OBVIOUS
  <2>2. Changed(n, file[d], held[d], copied[d], e, held[d], copied[d], new, g)
    <3>1. \A x \in Names \ {n} : e[x] = file[d][x]
      BY <1>7, <2>1
    <3>2. new.at = "record" /\ Tells(new.pending, g)
      BY <1>6, <1>8, <2>1
    <3>3. Holds(e, n, new.pending.val, g)
      BY <1>6, <1>7, <1>8, <2>1, TextIsThere DEF Holds
    <3> QED
      BY <1>4, <3>1, <3>2, <3>3 DEF Changed
  <2>3. SameFile(cycle[d], new)
    BY <1>8, <2>1
  <2>4. cycle[d] \in Cycle /\ cycle[d].at \in {"turn", "write", "rename"}
    BY <1>2 DEF TypeOK
  <2>5. Secure(d, e, held[d], agreed[d], copied[d], new, g)
    <3> HIDE DEF g
    <3> QED
      BY <1>0, <1>2, <2>2, <2>3, <2>4, PendingSecure
  <2>6. g \subseteq letGo' \cup inGap'
    BY <1>1, <1>2
  <2>7. Secure(d, e, held[d], agreed[d], copied[d], new, letGo' \cup inGap')
    <3> HIDE DEF g
    <3> QED
      BY <2>5, <2>6, MoreLetGo
  <2> QED
    BY <1>1, <2>1, <2>7
<1>10. Owned'
  <2>1. Owned
    BY DEF TextsSecure
  <2>2. \A x \in Devices, m \in Names : (x # d \/ m # n) =>
          held'[x][m] = held[x][m] /\ file'[x][m] = file[x][m]
    BY <1>1, <1>7
  <2>3. ASSUME NEW x \in Devices \ {d}, n \in CopyNamesOf(x), held[x][n] = {} PROVE FALSE
    BY <1>4, <2>1, <2>3 DEF Owned
  <2>4. /\ held[d][n] # {} => held'[d][n] # {}
        /\ n \in CopyNamesOf(d) =>
             /\ held'[d][n] # {} => file'[d][n] # NoText
             /\ file[d][n] # NoText => file'[d][n] # NoText
        /\ \A x \in Devices \ {d} : (n \in CopyNamesOf(x) /\ held[x][n] = {}) =>
             held'[d][n] = {} /\ file'[d][n] = NoText
    BY <1>1, <1>6, <1>7, <2>3, TextIsThere
  <2> QED
    BY <2>1, <2>2, <2>4, OwnedAgain
<1>11. NoTextLost'
  <2>1. \/ file[d][n] \in letGo \cup inGap' \cup {NoText}
        \/ \E m \in Names \ {n} : file[d][m] = file[d][n]
    BY <1>1, ReplacedIsLetGo
  <2>2. /\ one.val \in Values /\ written' \subseteq written \cup {one.val}
        /\ letGo \subseteq letGo' /\ written' \subseteq Texts
    BY <1>1, <1>6 DEF TypeOK, Values
  <2>3. letGo' = letGo
    BY <1>1
  <2>4. \/ file[d][n] \in letGo' \cup inGap' \cup {NoText}
        \/ \E m \in Names \ {n} : file[d][m] = file[d][n]
    BY <2>1, <2>3
  <2> QED
    BY <1>1, <1>2, <2>2, <2>4, TextsGoOn DEF TextsSecure
<1>12. OthersKeep(d)
  BY <1>1, <1>7, <1>8 DEF OthersKeep
<1>13. letGo \subseteq letGo' /\ left' = left
  BY <1>1
<1> QED
  BY <1>2, <1>9, <1>10, <1>11, <1>12, <1>13, OneSecure

LEMMA WriteSecure ==
  ASSUME TypeOK, TypeOK', StoreIsAhead, TextsSecure, NEW d \in Devices, NEW n \in Names,
         StartWrite(d, n) \/ Replace(d, n) \/ LastLook(d, n) \/ Rename(d, n) \/ Defer(d, n)
  PROVE  TextsSecure'
<1> USE DEF disk, store, ghosts
<1> DEFINE g == letGo \cup inGap
<1>0. /\ Secure(d, file[d], held[d], agreed[d], copied[d], cycle[d], g)
      /\ Relies(d, n, file[d], cycle[d], g)
      /\ ~cycle[d].stale
  BY SecureNow DEF SecureHere, Secured
<1>1. CASE StartWrite(d, n)
  <2>1. /\ GoesTo(d, "write") /\ StaysPut /\ UNCHANGED left
        /\ First(cycle[d], n) /\ cycle[d].at \in {"turn", "kept"}
    BY <1>0, <1>1 DEF StartWrite, Turn, At, First, StaysPut
  <2>2. /\ \A x \in Devices \ {d} : cycle'[x] = cycle[x]
        /\ cycle'[d].at = "write" /\ cycle'[d].relied = cycle[d].relied
        /\ SameFile(cycle[d], cycle'[d])
    <3>1. GoesTo(d, "write")
      BY <2>1
    <3> QED
      BY <3>1, GoesToIs
  <2>3. Relies(d, n, file[d], cycle'[d], g)
    <3>1. CASE cycle[d].at = "turn"
      <4>1. PlanOf(d, n).step \in Replacing /\ ~PlanOf(d, n).keep
        BY <1>1, <3>1 DEF StartWrite, At
      <4>2. cycle[d].relied = {}
        BY <1>0, <3>1 DEF Secure
      <4>3. Over(d, n, cycle'[d])
        BY <2>2, <4>1, <4>2 DEF Over, PlanOf, SameFile
      <4> QED
        BY <4>3 DEF Relies
    <3>2. CASE cycle[d].at = "kept"
      <4>1. PICK m \in CopyNamesOf(d) : Beside(n, m, file[d], cycle[d], g)
        BY <1>0, <2>1, <3>2 DEF Relies, Over
      <4>2. Beside(n, m, file[d], cycle'[d], g)
        BY <2>2, <4>1 DEF Beside, SameFile
      <4> QED
        BY <4>2 DEF Relies
    <3> QED
      BY <2>1, <3>1, <3>2
  <2> QED
    BY <2>1, <2>2, <2>3, GoesOnSecure
<1>2. CASE Replace(d, n) \/ Rename(d, n)
  BY <1>2, ReplacesSecure
<1>3. CASE LastLook(d, n)
  <2>1. /\ GoesTo(d, "rename") /\ StaysPut /\ Spend("gap") /\ Unchanged(d, n)
        /\ First(cycle[d], n) /\ cycle[d].at = "write"
    BY <1>3 DEF LastLook, At, First, StaysPut
  <2>2. /\ \A x \in Devices \ {d} : cycle'[x] = cycle[x]
        /\ cycle'[d].at = "rename" /\ cycle'[d].relied = cycle[d].relied
        /\ SameFile(cycle[d], cycle'[d])
    <3>1. GoesTo(d, "rename")
      BY <2>1
    <3> QED
      BY <3>1, GoesToIs
  <2>3. Relies(d, n, file[d], cycle'[d], g)
    <3>1. CASE Over(d, n, cycle[d])
      <4>1. Over(d, n, cycle'[d])
        BY <2>2, <3>1 DEF Over, SameFile
      <4> QED
        BY <4>1 DEF Relies
    <3>2. CASE ~Over(d, n, cycle[d])
      <4>1. PICK m \in CopyNamesOf(d) : Beside(n, m, file[d], cycle[d], g)
        BY <1>0, <2>1, <3>2 DEF Relies
      <4>2. cycle[d].listed[n] = file[d][m]
        BY <2>1, <4>1 DEF Unchanged, Beside
      <4>3. Beside(n, m, file[d], cycle'[d], g)
        BY <2>2, <4>1, <4>2 DEF Beside, SameFile
      <4> QED
        BY <4>3 DEF Relies
    <3> QED
      BY <3>1, <3>2
  <2> QED
    BY <2>1, <2>2, <2>3, GoesOnSecure
<1>4. CASE Defer(d, n)
  BY <1>4, LeavesSecure DEF Defer, At, StaysPut
<1> QED
  BY <1>1, <1>2, <1>3, <1>4
-----------------------------------------------------------------------------
LEMMA InitSecure == OnlyWrites /\ Init => TextsSecure
<1> SUFFICES ASSUME OnlyWrites, Init PROVE TextsSecure
  OBVIOUS
<1>1. left \in [Rare -> Nat] /\ \A what \in Rare \ {"again", "gap"} : left[what] = 0
  BY SyncAssumption DEF Init, OnlyWrites
<1>2. Owned
  BY DEF Init, Owned, CopyNamesOf, Nothing
<1>3. NoTextLost
  BY DEF Init, NoTextLost
<1>4. ASSUME NEW d \in Devices
      PROVE  Secure(d, file[d], held[d], agreed[d], copied[d], cycle[d], letGo \cup inGap)
  <2>1. /\ Idle.at = "idle" /\ Idle.stale = FALSE /\ Idle.missing = FALSE /\ Idle.todo = {}
        /\ \A n \in Names : Idle.read[n] = {} /\ Idle.was[n] = NoRecord
    BY DEF Idle
  <2>2. cycle[d] = Idle
    BY DEF Init
  <2> SUFFICES ASSUME NEW n \in Names
               PROVE  Secured(d, n, file[d], held[d], agreed[d], copied[d], Idle, letGo \cup inGap)
    BY <2>1, <2>2 DEF Secure
  <2>3. held[d][n] = {} /\ agreed[d][n] = NoRecord /\ copied[d][n] = <<>>
    BY DEF Init
  <2>4. ~Recording(Idle, n) /\ ~Unsettled(Idle, n)
    BY <2>1 DEF Recording, Unsettled
  <2> QED
    BY <2>1, <2>3, <2>4 DEF Secured, Said, Has, Edited, Copies, Relies
<1> QED
  BY <1>1, <1>2, <1>3, <1>4 DEF TextsSecure, Init

LEMMA NextSecure ==
  ASSUME CopiesAreOwn
  PROVE  TypeOK /\ StoreIsAhead /\ TextsSecure /\ [Next]_vars => TextsSecure'
<1> SUFFICES ASSUME TypeOK, StoreIsAhead, TextsSecure, [Next]_vars PROVE TextsSecure'
  OBVIOUS
<1>1. TypeOK'
  BY NextTyped
<1>2. CASE UNCHANGED vars
  <2>1. Owned' /\ NoTextLost'
    BY <1>2, OwnedStill, TextsStay DEF vars, TextsSecure
  <2>2. \A d \in Devices :
          /\ mapped'[d] /\ here'[d]
          /\ Secure(d, file'[d], held'[d], agreed'[d], copied'[d], cycle'[d], letGo' \cup inGap')
    BY <1>2 DEF vars, TextsSecure
  <2>3. left' = left
    BY <1>2 DEF vars
  <2> QED
    BY <2>1, <2>2, <2>3 DEF TextsSecure
<1>3. CASE Next
  <2> PICK d \in Devices :
        \/ \E n \in Names, text \in Texts : Write(d, n, text)
        \/ \E n \in Names : Remove(d, n)
        \/ FolderGoes(d) \/ FolderBack(d) \/ ListAsItGoes(d)
        \/ Arrives(d) \/ Crash(d) \/ OtherCommand(d) \/ Unmap(d) \/ Map(d)
        \/ CycleStep(d)
    BY <1>3 DEF Next
  <2>1. CASE \/ \E n \in Names, text \in Texts : Write(d, n, text)
             \/ \E n \in Names : Remove(d, n)
             \/ FolderGoes(d) \/ FolderBack(d) \/ ListAsItGoes(d)
    BY <2>1, AgentSecure
  <2>2. CASE Arrives(d) \/ Crash(d) \/ OtherCommand(d) \/ Unmap(d) \/ Map(d)
    BY <2>2, NodeSecure
  <2>3. CASE CycleStep(d)
    <3>1. CASE List(d) \/ ReadGone(d) \/ ReadChannel(d) \/ Stop(d)
      BY <3>1, BeginSecure
    <3>2. ASSUME NEW n \in Names, Apply(d, n) PROVE TextsSecure'
      <4>1. CASE PublishText(d, n) \/ LookForDelete(d, n) \/ PublishDelete(d, n)
        BY <4>1, PublishSecure
      <4>2. CASE FindCopy(d, n) \/ ClaimCopy(d, n) \/ NoName(d, n) \/ WriteCopy(d, n)
        BY <4>2, KeepSecure
      <4>3. CASE \/ StartWrite(d, n) \/ Replace(d, n) \/ LastLook(d, n) \/ Rename(d, n)
                 \/ Defer(d, n)
        BY <1>1, <4>3, WriteSecure
      <4>4. CASE Record(d, n) \/ RecordAlone(d, n)
        BY <4>4, RecordSecure
      <4> QED
        BY <3>2, <4>1, <4>2, <4>3, <4>4 DEF Apply
    <3> QED
      BY <2>3, <3>1, <3>2 DEF CycleStep
  <2> QED
    BY <2>1, <2>2, <2>3
<1> QED
  BY <1>2, <1>3

\* No text that an agent wrote is in no file of any device, unless an agent
\* wrote over it, or a rename came upon it in its gap.  The agents write as
\* they please, in any file, as often as they please, and any text again;
\* every device's cycle runs in pieces with what arrives in between.  They
\* remove nothing here, and no node stops, no settings change and no folder
\* goes: the runs check those.  A conflict copy's name has in it the tag of
\* the device that makes it, the start of its key (names.rs, conflict_name;
\* claude.rs, device_tag), and the tags of two devices are taken to differ.
THEOREM NothingIsLost ==
  ASSUME CopiesAreOwn, OnlyWrites
  PROVE  Spec => []NoTextLost
<1>1. Init => TypeOK /\ StoreIsAhead /\ TextsSecure
  <2>1. Init => StoreIsAhead
    BY DEF Init, StoreIsAhead, ReadIsBacked, PendingIsBacked, AgreedIsBacked, At, Idle
  <2> QED
    BY <2>1, InitTyped, InitSecure
<1>2. TypeOK /\ StoreIsAhead /\ TextsSecure /\ [Next]_vars
      => TypeOK' /\ StoreIsAhead' /\ TextsSecure'
  BY NextTyped, NextAhead, NextSecure
<1>3. TextsSecure => NoTextLost
  BY DEF TextsSecure
<1> QED
  BY <1>1, <1>2, <1>3, PTL DEF Spec
=============================================================================
