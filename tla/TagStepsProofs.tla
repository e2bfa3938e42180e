--------------------------- MODULE TagStepsProofs ---------------------------
(***************************************************************************)
(* What a step of TagProcessor may do to a tag.  First to its times: none  *)
(* goes back while the service runs, and with the adjustment by origin no  *)
(* report makes a tag look read in the future.  Then to its location: the  *)
(* two properties of the weighted slope, for every profile, every window   *)
(* and every history of readings.  Last to what the event stream's         *)
(* follower knows of it: the inventory implements TagLifecycle.            *)
(***************************************************************************)
EXTENDS TagProcessorProofs

(***************************************************************************)
(* The adjustment.  What remains of a report under way names no time later *)
(* than now, once the offset that ProcessReport computed is added.         *)
(***************************************************************************)
NotAhead(reads, offset, latest) ==
  \A i \in 1..Len(reads) :
     reads[i].lastSeen # Missing => reads[i].lastSeen + offset <= latest

AdjustedPast ==
  report.busy /\ config.adjust =>
    NotAhead(report.reads, report.offset, now * MicrosPerMilli)

\* A time in microseconds that is not after an instant is, in milliseconds
\* and however it is rounded, not after it either.
LEMMA TruncDivBound ==
  ASSUME NEW a \in Int, NEW n \in Nat, a <= n * MicrosPerMilli
  PROVE  TruncDiv(a, MicrosPerMilli) <= n
<1> DEFINE m == MicrosPerMilli
<1>1. m \in Nat \ {0} /\ a <= n * m
  BY TagProcessorAssumption
<1> HIDE DEF m
<1>2. CASE a >= 0
  <2> DEFINE q == a \div m
  <2>1. q \in Int /\ q * m <= a
    BY <1>1
  <2>2. q * m <= n * m
    <3> HIDE DEF q
    <3>1. q * m \in Int /\ n * m \in Int
      BY <1>1, <2>1
    <3> QED BY <1>1, <2>1, <3>1
  <2>3. q <= n
    <3> HIDE DEF q
    <3> QED BY <1>1, <2>1, <2>2
  <2> QED BY <1>2, <2>3 DEF TruncDiv, m
<1>3. CASE ~(a >= 0)
  <2>1. (-a) \div m >= 0
    BY <1>1, <1>3
  <2>2. (-a) \div m \in Int
    BY <1>1
  <2>3. TruncDiv(a, m) = -((-a) \div m)
    BY <1>3 DEF TruncDiv
  <2> QED BY <2>1, <2>2, <2>3 DEF m
<1> QED BY <1>2, <1>3

\* What a read does to a tag's three times: last read is what NewLastRead
\* says, which is when the tag arrived if it was not present, and the time of
\* its departure stays.
LEMMA ReadTimes ==
  ASSUME NEW tag, KnownTag(tag), NEW read \in Read, NEW rep \in ReportInProgress, NEW cfg
  PROVE  LET new  == Settled(tag, Located(tag, read, rep, cfg))
             last == NewLastRead(tag, read, rep.offset)
         IN /\ new.lastRead = last
            /\ new.lastArrived = IF tag.state = "Present" THEN tag.lastArrived ELSE last
            /\ new.lastDeparted = tag.lastDeparted
<1> DEFINE last == NewLastRead(tag, read, rep.offset)
           mid  == Located(tag, read, rep, cfg)
<1>1. tag = [state |-> tag.state, loc |-> tag.loc, lastRead |-> tag.lastRead,
             lastArrived |-> tag.lastArrived, lastDeparted |-> tag.lastDeparted,
             stats |-> tag.stats]
  BY DEF KnownTag, Tag
<1> HIDE DEF last
<1>2. mid = [state |-> mid.state, loc |-> mid.loc, lastRead |-> last,
             lastArrived |-> tag.lastArrived, lastDeparted |-> tag.lastDeparted,
             stats |-> mid.stats]
  <2> DEFINE noted == [tag EXCEPT !.lastRead = last]
             loc   == <<rep.device, read.antenna>>
             stats == [tag.stats EXCEPT ![loc] = Updated(@, read, rep.offset)]
             where == IF MovesTo(tag.loc, loc, stats, cfg, rep.reference)
                      THEN loc ELSE tag.loc
  <2>1. noted = [state |-> tag.state, loc |-> tag.loc, lastRead |-> last,
                 lastArrived |-> tag.lastArrived, lastDeparted |-> tag.lastDeparted,
                 stats |-> tag.stats]
    BY <1>1
  <2>2. mid = IF read.antenna = Missing THEN noted
              ELSE [noted EXCEPT !.stats = stats, !.loc = where]
    BY <2>1 DEF Located, last
  <2> HIDE DEF noted, stats, where
  <2>3. CASE read.antenna = Missing
    BY <2>1, <2>2, <2>3
  <2>4. CASE read.antenna # Missing
    <3>1. mid = [state |-> tag.state, loc |-> where, lastRead |-> last,
                 lastArrived |-> tag.lastArrived, lastDeparted |-> tag.lastDeparted,
                 stats |-> stats]
      BY <2>1, <2>2, <2>4
    <3> HIDE DEF mid
    <3> QED BY <3>1
  <2> QED BY <2>3, <2>4
<1> HIDE DEF mid
<1>3. tag.state \in {"Unknown", "Present", "Departed"}
  BY DEF KnownTag, Tag, TagState
<1>4. CASE tag.state = "Present"
  BY <1>2, <1>4 DEF Settled, mid, last
<1>5. CASE tag.state \in {"Unknown", "Departed"}
  <2> DEFINE new == Settled(tag, mid)
  <2>1. new = [state |-> "Present", loc |-> mid.loc, lastRead |-> last,
               lastArrived |-> last, lastDeparted |-> tag.lastDeparted,
               stats |-> mid.stats]
    <3>1. {last, tag.lastArrived, tag.lastDeparted} \subseteq Int
      <4>1. tag \in Tag /\ rep.offset \in Int
        BY DEF KnownTag, ReportInProgress
      <4>2. last \in Int
        BY <4>1, NewLastReadBounds DEF last
      <4> QED BY <4>1, <4>2 DEF Tag
    <3>2. mid.lastRead = last /\ mid.lastDeparted = tag.lastDeparted
      BY <1>2
    <3> QED BY <1>2, <1>5, <3>1, <3>2 DEF Settled, SetStateAt
  <2> HIDE DEF new
  <2>2. new.lastRead = last /\ new.lastArrived = last /\ new.lastDeparted = tag.lastDeparted
    BY <2>1
  <2> QED BY <1>5, <2>2 DEF new, mid, last
<1> QED BY <1>3, <1>4, <1>5

\* A read names a time, or none.
LEMMA ReadTime ==
  ASSUME NEW reads \in Seq(Read), NEW i \in 1..Len(reads)
  PROVE  reads[i].lastSeen \in Nat \cup {Missing}
<1>1. reads[i] \in Read
  OBVIOUS
<1> QED BY <1>1 DEF Read

\* No report is under way in the idle processor.
LEMMA IdleQuiet == ~Idle.busy
<1>1. Idle.busy = FALSE
  BY DEF Idle
<1> QED BY <1>1

\* The offset of a report that arrives brings its latest time to the origin.
LEMMA BeginReportAdjusted == IInv /\ BeginReport => AdjustedPast'
<1> SUFFICES ASSUME IInv, BeginReport, report'.busy, config'.adjust
             PROVE  NotAhead(report'.reads, report'.offset, now' * MicrosPerMilli)
  BY DEF AdjustedPast
<1>a. PICK reads \in Reports, d \in Device, origin \in 0 .. now * MicrosPerMilli :
        \E lastSeen \in Seen(reads) :
          /\ \A s \in Seen(reads) : s <= lastSeen
          /\ report' = [reads |-> reads, busy |-> TRUE, dirty |-> FALSE,
                        device |-> d, offset |-> OffsetMicros(lastSeen, origin),
                        reference |-> origin \div MicrosPerMilli, batch |-> told]
  BY DEF BeginReport
<1>1. PICK lastSeen \in Seen(reads) :
        /\ \A s \in Seen(reads) : s <= lastSeen
        /\ report' = [reads |-> reads, busy |-> TRUE, dirty |-> FALSE,
                      device |-> d, offset |-> OffsetMicros(lastSeen, origin),
                      reference |-> origin \div MicrosPerMilli, batch |-> told]
        /\ UNCHANGED <<now, config>>
  BY <1>a DEF BeginReport
<1>2. /\ now \in Nat /\ MicrosPerMilli \in Nat /\ reads \in Seq(Read)
      /\ now * MicrosPerMilli \in Nat
  BY TagProcessorAssumption, InputAssumption DEF IInv, TypeOK
<1> DEFINE latest == now * MicrosPerMilli
<1>3. /\ report'.reads = reads /\ report'.offset = OffsetMicros(lastSeen, origin)
      /\ now' * MicrosPerMilli = latest /\ config.adjust
      /\ origin \in Int /\ origin <= latest /\ latest \in Nat
  BY <1>1, <1>2
<1> HIDE DEF latest
<1>4. \A i \in 1..Len(reads) : reads[i].lastSeen \in Nat \cup {Missing}
  BY <1>2, ReadTime
<1>5. lastSeen \in Nat
  BY <1>4 DEF Seen
<1>6. ASSUME NEW i \in 1..Len(reads), reads[i].lastSeen # Missing
      PROVE  reads[i].lastSeen + OffsetMicros(lastSeen, origin) <= latest
  <2>1. reads[i].lastSeen \in Nat /\ reads[i].lastSeen <= lastSeen
    BY <1>1, <1>4, <1>6 DEF Seen
  <2>2. OffsetMicros(lastSeen, origin) = IF lastSeen > 0 THEN origin - lastSeen ELSE 0
    BY <1>3 DEF OffsetMicros
  <2> QED BY <1>3, <1>5, <2>1, <2>2
<1> QED BY <1>3, <1>6 DEF NotAhead

\* The reads that remain are a part of those there were.
LEMMA ProcessDataAdjusted == IInv /\ AdjustedPast /\ ProcessData => AdjustedPast'
<1> SUFFICES ASSUME IInv, AdjustedPast, ProcessData PROVE AdjustedPast'
  OBVIOUS
<1>1. /\ report.busy /\ report.reads # <<>>
      /\ UNCHANGED <<now, config>>
  BY DEF ProcessData
<1>2. report \in ReportInProgress /\ report.reads \in Seq(Read)
  BY DEF IInv, TypeOK, ReportInProgress
<1>3. report'.reads = Tail(report.reads) /\ report'.offset = report.offset
  BY <1>2 DEF ProcessData, ReportInProgress
<1>4. \A i \in 1..Len(Tail(report.reads)) :
        i + 1 \in 1..Len(report.reads) /\ Tail(report.reads)[i] = report.reads[i + 1]
  BY <1>1, <1>2
<1> QED BY <1>1, <1>3, <1>4 DEF AdjustedPast, NotAhead

\* Every other step leaves the report alone, or ends it.
LEMMA OthersAdjusted ==
  IInv /\ AdjustedPast /\ [Next]_vars /\ ~BeginReport /\ ~ProcessData => AdjustedPast'
<1> SUFFICES ASSUME IInv, AdjustedPast, [Next]_vars, ~BeginReport, ~ProcessData
             PROVE  AdjustedPast'
  OBVIOUS
<1>1. CASE Tick
  <2>1. /\ now \in Nat /\ MicrosPerMilli \in Nat /\ now' = now + 1
        /\ UNCHANGED <<report, config>>
    BY <1>1, TagProcessorAssumption DEF IInv, TypeOK, Tick
  <2>2. SUFFICES ASSUME report.busy, config.adjust,
                        NotAhead(report.reads, report.offset, now * MicrosPerMilli)
                 PROVE  NotAhead(report.reads, report.offset, now' * MicrosPerMilli)
    BY <2>1 DEF AdjustedPast
  <2> DEFINE old == now * MicrosPerMilli
             new == now' * MicrosPerMilli
  <2>3. old \in Int /\ new \in Int /\ old <= new
    BY <2>1
  <2> HIDE DEF old, new
  <2>4. report.reads \in Seq(Read) /\ report.offset \in Int
    BY DEF IInv, TypeOK, ReportInProgress
  <2>5. \A i \in 1..Len(report.reads) :
          report.reads[i].lastSeen # Missing => report.reads[i].lastSeen + report.offset \in Int
    BY <2>4, ReadTime
  <2> QED BY <2>2, <2>3, <2>5 DEF NotAhead, old, new
<1>2. CASE UpdateConfig \/ EndReport \/ AggregateDeparted \/ AgeOut \/ StopAndStart
           \/ CrashAndStart
  <2>1. ~report'.busy
    BY <1>2, IdleQuiet DEF UpdateConfig, EndReport, AggregateDeparted, AgeOut,
                           StopAndStart, CrashAndStart, Load
  <2> QED BY <2>1 DEF AdjustedPast
<1>3. CASE UNCHANGED vars
  BY <1>3 DEF AdjustedPast, NotAhead, vars
<1> QED BY <1>1, <1>2, <1>3 DEF Next

\* It holds in every reachable state.
LEMMA AlwaysAdjusted == Spec => [](IInv /\ AdjustedPast)
<1>1. Init => IInv /\ AdjustedPast
  BY InitInv, IdleQuiet DEF Init, AdjustedPast
<1>2. IInv /\ AdjustedPast /\ [Next]_vars => (IInv /\ AdjustedPast)'
  BY NextInv, BeginReportAdjusted, ProcessDataAdjusted, OthersAdjusted
<1> QED BY <1>1, <1>2, PTL DEF Spec

\* With the adjustment by origin configured, no read makes a tag look read in
\* the future, however far ahead its reader's clock and in whatever order a
\* report names its times (tagprocessor.go 76-96, 212-223).
THEOREM CorrectedNeverAhead == Spec => NeverReadAhead
<1> DEFINE Kept == ProcessData /\ config.adjust =>
                     LET e == Head(report.reads).epc
                     IN \/ inventory'[e].lastRead <= now
                        \/ /\ e \in DOMAIN inventory
                           /\ inventory'[e].lastRead = inventory[e].lastRead
<1>1. IInv /\ AdjustedPast => Kept
  <2> SUFFICES ASSUME IInv, AdjustedPast, ProcessData, config.adjust
               PROVE  LET e == Head(report.reads).epc
                      IN \/ inventory'[e].lastRead <= now
                         \/ /\ e \in DOMAIN inventory
                            /\ inventory'[e].lastRead = inventory[e].lastRead
    OBVIOUS
  <2> DEFINE read == Head(report.reads)
             e    == read.epc
             prev == IF e \in DOMAIN inventory THEN inventory[e] ELSE NewTag
             last == NewLastRead(prev, read, report.offset)
  <2>1. /\ report.busy /\ report.reads # <<>> /\ report.reads \in Seq(Read)
        /\ report \in ReportInProgress /\ report.device \in Device
        /\ report.offset \in Int /\ now \in Nat
    BY DEF ProcessData, IInv, TypeOK, ReportInProgress
  <2>2. read \in Read /\ 1 \in 1..Len(report.reads) /\ read = report.reads[1]
    BY <2>1
  <2>3. KnownTag(prev)
    BY NewTagKnown DEF IInv, TablesGood, GoodTag
  <2>4. inventory'[e].lastRead = last
    BY <2>1, <2>2, <2>3, ReadTimes DEF ProcessData
  <2>5. read.lastSeen # Missing => Stamp(read, report.offset) <= now
    <3> SUFFICES ASSUME read.lastSeen # Missing PROVE Stamp(read, report.offset) <= now
      OBVIOUS
    <3>1. read.lastSeen + report.offset <= now * MicrosPerMilli
      BY <2>1, <2>2 DEF AdjustedPast, NotAhead
    <3>2. read.lastSeen + report.offset \in Int
      BY <2>1, <2>2 DEF Read
    <3> QED BY <2>1, <3>1, <3>2, TruncDivBound DEF Stamp
  <2>6. last <= now \/ last = prev.lastRead
    BY <2>5 DEF NewLastRead
  <2>7. e \notin DOMAIN inventory => prev.lastRead = 0
    BY DEF NewTag
  <2> HIDE DEF last
  <2> QED BY <2>1, <2>4, <2>6, <2>7
<1> QED BY <1>1, AlwaysAdjusted, PTL DEF NeverReadAhead

(***************************************************************************)
(* No time goes back.  For the time of departure, which is this service's  *)
(* own clock, that takes an invariant: no tag departed in the future, in   *)
(* any of the three tables it may come back from.                          *)
(***************************************************************************)
LeftBefore(table, at) == \A e \in DOMAIN table : table[e].lastDeparted <= at

NoneLeftAhead ==
  /\ LeftBefore(inventory, now)
  /\ LeftBefore(snapshot, now)
  /\ LeftBefore(saved, now)

Advances(old, new) ==
  /\ new.lastRead >= old.lastRead
  /\ new.lastArrived >= old.lastArrived
  /\ new.lastDeparted >= old.lastDeparted

AllAdvance ==
  \A e \in DOMAIN inventory \cap DOMAIN inventory' : Advances(inventory[e], inventory'[e])

\* A snapshot, and a restored inventory, keep the times of departure.
LEMMA TablesKeepLeft ==
  ASSUME NEW table, NEW cfg, NEW at, LeftBefore(table, at)
  PROVE  LeftBefore(Snapshot(table, cfg), at) /\ LeftBefore(Restored(table), at)
BY DEF LeftBefore, Snapshot, StaticTag, Restored, AsTag

\* Nothing but the times matters for what follows.
LEMMA TimesTyped ==
  ASSUME IInv, NEW e \in DOMAIN inventory
  PROVE  {inventory[e].lastRead, inventory[e].lastArrived, inventory[e].lastDeparted}
            \subseteq Int
BY DEF IInv, TypeOK, IsMap, Tag

\* A read moves the times of the tag it is of forward, and of no other.
LEMMA ProcessDataAdvances ==
  IInv /\ NoneLeftAhead /\ ProcessData => AllAdvance /\ NoneLeftAhead'
<1> SUFFICES ASSUME IInv, NoneLeftAhead, ProcessData
             PROVE  AllAdvance /\ NoneLeftAhead'
  OBVIOUS
<1> DEFINE read == Head(report.reads)
           e    == read.epc
           prev == IF e \in DOMAIN inventory THEN inventory[e] ELSE NewTag
           tag  == Settled(prev, Located(prev, read, report, config))
           last == NewLastRead(prev, read, report.offset)
<1>1. /\ report.reads # <<>> /\ report.reads \in Seq(Read)
      /\ report \in ReportInProgress /\ report.offset \in Int /\ now \in Nat
  BY DEF ProcessData, IInv, TypeOK, ReportInProgress
<1>2. read \in Read
  BY <1>1
<1>3. KnownTag(prev)
  BY NewTagKnown DEF IInv, TablesGood, GoodTag
<1>4. /\ inventory' = [x \in DOMAIN inventory \cup {e} |->
                         IF x = e THEN tag ELSE inventory[x]]
      /\ UNCHANGED <<now, snapshot, saved>>
  BY DEF ProcessData
<1>5. /\ tag.lastRead = last /\ tag.lastDeparted = prev.lastDeparted
      /\ tag.lastArrived = IF prev.state = "Present" THEN prev.lastArrived ELSE last
  BY <1>1, <1>2, <1>3, ReadTimes
<1>6. /\ last \in Int /\ last >= prev.lastRead
      /\ prev.lastRead >= prev.lastArrived
      /\ {prev.lastRead, prev.lastArrived, prev.lastDeparted} \subseteq Int
  <2>1. prev \in Tag /\ prev.lastArrived <= prev.lastRead
    BY <1>3 DEF KnownTag, InOrder
  <2> QED BY <1>1, <1>2, <2>1, NewLastReadBounds DEF Tag
<1>7. prev.lastDeparted <= now
  BY <1>1 DEF NoneLeftAhead, LeftBefore, NewTag
<1> HIDE DEF tag, last, prev, read
<1>8. Advances(prev, tag)
  BY <1>5, <1>6 DEF Advances
<1>9. AllAdvance
  <2> SUFFICES ASSUME NEW x \in DOMAIN inventory
               PROVE  Advances(inventory[x], inventory'[x])
    BY DEF AllAdvance
  <2>1. CASE x = e
    BY <1>4, <1>8, <2>1 DEF prev
  <2>2. CASE x # e
    BY <1>4, <2>2, TimesTyped DEF Advances
  <2> QED BY <2>1, <2>2
<1>10. NoneLeftAhead'
  BY <1>4, <1>5, <1>7 DEF NoneLeftAhead, LeftBefore
<1> QED BY <1>9, <1>10

\* A tag departs now, which is not before it departed last.
LEMMA AggregateDepartedAdvances ==
  IInv /\ NoneLeftAhead /\ AggregateDeparted => AllAdvance /\ NoneLeftAhead'
<1> SUFFICES ASSUME IInv, NoneLeftAhead, AggregateDeparted
             PROVE  AllAdvance /\ NoneLeftAhead'
  OBVIOUS
<1> DEFINE left(e) == [SetStateAt(inventory[e], "Departed", now) EXCEPT !.stats = EmptyStats]
<1>1. /\ inventory' = [e \in DOMAIN inventory |->
                         IF e \in ToDepart THEN left(e) ELSE inventory[e]]
      /\ snapshot' = Snapshot(inventory', config) /\ saved' = snapshot'
      /\ UNCHANGED now /\ now \in Nat
  BY DEF AggregateDeparted, IInv, TypeOK
<1>2. ASSUME NEW e \in DOMAIN inventory
      PROVE  /\ left(e).lastRead = inventory[e].lastRead
             /\ left(e).lastArrived = inventory[e].lastArrived
             /\ left(e).lastDeparted = now
  <2> DEFINE tag == inventory[e]
  <2>1. tag = [state |-> tag.state, loc |-> tag.loc, lastRead |-> tag.lastRead,
               lastArrived |-> tag.lastArrived, lastDeparted |-> tag.lastDeparted,
               stats |-> tag.stats]
    BY DEF IInv, TypeOK, IsMap, Tag
  <2>2. {tag.lastRead, tag.lastArrived, tag.lastDeparted, now} \subseteq Int
    BY <1>1, TimesTyped
  <2> HIDE DEF tag
  <2>3. SetStateAt(tag, "Departed", now) = [tag EXCEPT !.state = "Departed", !.lastDeparted = now]
    <3>1. [tag EXCEPT !.lastArrived = tag.lastArrived] = tag
      BY <2>1
    <3> QED BY <2>1, <2>2, <3>1 DEF SetStateAt
  <2>4. SetStateAt(tag, "Departed", now)
          = [state |-> "Departed", loc |-> tag.loc, lastRead |-> tag.lastRead,
             lastArrived |-> tag.lastArrived, lastDeparted |-> now, stats |-> tag.stats]
    BY <2>1, <2>2, <2>3
  <2> QED BY <2>4 DEF tag
<1> HIDE DEF left
<1>3. \A e \in DOMAIN inventory : inventory[e].lastDeparted <= now
  BY DEF NoneLeftAhead, LeftBefore
<1>4. AllAdvance
  BY <1>1, <1>2, <1>3, TimesTyped DEF AllAdvance, Advances
<1>5. LeftBefore(inventory', now)
  BY <1>1, <1>2, <1>3 DEF LeftBefore
<1>6. LeftBefore(snapshot', now)
  BY <1>1, <1>5, TablesKeepLeft
<1> QED BY <1>1, <1>4, <1>5, <1>6 DEF NoneLeftAhead

\* Every other step leaves the times of the tags it keeps as they are; the
\* clock does not go back.
LEMMA OthersAdvance ==
  IInv /\ NoneLeftAhead /\ [Next]_vars /\ ~ProcessData /\ ~AggregateDeparted
    => (~Restart => AllAdvance) /\ NoneLeftAhead'
<1> SUFFICES ASSUME IInv, NoneLeftAhead, [Next]_vars, ~ProcessData, ~AggregateDeparted
             PROVE  (~Restart => AllAdvance) /\ NoneLeftAhead'
  OBVIOUS
<1>1. /\ LeftBefore(inventory, now) /\ LeftBefore(snapshot, now)
      /\ LeftBefore(saved, now) /\ now \in Nat
  BY DEF NoneLeftAhead, IInv, TypeOK
<1>2. \A e \in DOMAIN inventory :
        inventory'[e] = inventory[e] => Advances(inventory[e], inventory'[e])
  BY TimesTyped DEF Advances
<1>3. CASE Tick
  <2>1. now' = now + 1 /\ UNCHANGED <<inventory, snapshot, saved>>
    BY <1>3 DEF Tick
  <2>2. AllAdvance
    BY <1>2, <2>1 DEF AllAdvance
  <2>3. ASSUME NEW table, LeftBefore(table, now), NEW e \in DOMAIN table,
               table[e].lastDeparted \in Int
        PROVE  table[e].lastDeparted <= now'
    BY <1>1, <2>1, <2>3 DEF LeftBefore
  <2>4. \A table \in {inventory, snapshot, saved} : \A e \in DOMAIN table :
          table[e].lastDeparted \in Int
    BY TimesTyped DEF IInv, TypeOK, IsSnapshot, IsStaticTag
  <2> QED BY <1>1, <2>1, <2>2, <2>3, <2>4 DEF NoneLeftAhead, LeftBefore
<1>4. CASE UpdateConfig \/ BeginReport \/ UNCHANGED vars
  <2>1. UNCHANGED <<now, inventory, snapshot, saved>>
    BY <1>4 DEF UpdateConfig, BeginReport, vars
  <2> QED BY <1>1, <1>2, <2>1 DEF AllAdvance, NoneLeftAhead
<1>5. CASE EndReport
  <2>1. /\ UNCHANGED <<now, inventory>> /\ snapshot' = Snapshot(inventory, config)
        /\ saved' = snapshot' \/ saved' = saved
    BY <1>5 DEF EndReport
  <2>2. LeftBefore(snapshot', now)
    BY <1>1, <2>1, TablesKeepLeft
  <2> QED BY <1>1, <1>2, <2>1, <2>2 DEF AllAdvance, NoneLeftAhead
<1>6. CASE AgeOut
  <2>1. /\ UNCHANGED now /\ snapshot' = Snapshot(inventory', config) /\ saved' = snapshot'
        /\ inventory' = [e \in DOMAIN inventory \ ToAgeOut |-> inventory[e]]
    BY <1>6 DEF AgeOut
  <2>2. LeftBefore(inventory', now)
    BY <1>1, <2>1 DEF LeftBefore
  <2>3. LeftBefore(snapshot', now)
    BY <2>1, <2>2, TablesKeepLeft
  <2> QED BY <1>2, <2>1, <2>2, <2>3 DEF AllAdvance, NoneLeftAhead
<1>7. CASE StopAndStart \/ CrashAndStart
  <2>1. PICK file \in {snapshot, saved} : Load(file)
    BY <1>7 DEF StopAndStart, CrashAndStart
  <2>2. /\ UNCHANGED now /\ inventory' = Restored(file)
        /\ snapshot' = file /\ saved' = file
    BY <2>1 DEF Load
  <2>3. LeftBefore(file, now) /\ LeftBefore(inventory', now)
    BY <1>1, <2>1, <2>2, TablesKeepLeft
  <2> QED BY <1>7, <2>2, <2>3 DEF NoneLeftAhead, Restart
<1> QED BY <1>3, <1>4, <1>5, <1>6, <1>7 DEF Next

\* While the service runs, the times it keeps of a tag never go back, in
\* whatever order reports come and however far apart readers' clocks are
\* (tagprocessor.go 220-223, tag.go 64-78).
THEOREM TimesNeverGoBack == Spec => TimesOnlyAdvance
<1>1. Init => NoneLeftAhead
  BY DEF Init, NoneLeftAhead, LeftBefore, NoTags
<1>2. IInv /\ NoneLeftAhead /\ [Next]_vars => (~Restart => AllAdvance) /\ NoneLeftAhead'
  BY ProcessDataAdvances, AggregateDepartedAdvances, OthersAdvance
<1>3. AllAdvance => \A e \in DOMAIN inventory \cap DOMAIN inventory' :
                      /\ inventory'[e].lastRead >= inventory[e].lastRead
                      /\ inventory'[e].lastArrived >= inventory[e].lastArrived
                      /\ inventory'[e].lastDeparted >= inventory[e].lastDeparted
  BY DEF AllAdvance, Advances
<1> QED BY <1>1, <1>2, <1>3, Invariant, PTL DEF Spec, TimesOnlyAdvance

(***************************************************************************)
(* Moves between antennas.                                                 *)
(***************************************************************************)
\* A larger product of what is larger.
LEMMA Scaled ==
  ASSUME NEW x \in Int, NEW y \in Int, x <= y, NEW n \in Nat
  PROVE  x * n <= y * n
OBVIOUS

\* To be better by more is to be better by less.
LEMMA ExceedsLess ==
  ASSUME NEW a, NEW b, GoodBuffer(a), GoodBuffer(b),
         NEW x \in Int, NEW y \in Int, x <= y, MeanExceeds(a, b, y)
  PROVE  MeanExceeds(a, b, x)
<1> DEFINE n == BufLen(a)
           m == BufLen(b)
<1>1. n \in Nat /\ m \in Nat /\ a.total \in Int /\ b.total \in Int
  BY DEF GoodBuffer, Buffer, BufLen
<1>2. a.total * m > b.total * n + y * n * m
  BY DEF MeanExceeds
<1>3. x * n * m <= y * n * m
  <2> HIDE DEF n, m
  <2>1. x * n <= y * n /\ x * n \in Int /\ y * n \in Int
    BY <1>1, Scaled
  <2> QED BY <1>1, <2>1, Scaled
<1>4. /\ a.total * m \in Int /\ b.total * n \in Int
      /\ x * n * m \in Int /\ y * n * m \in Int
  <2> HIDE DEF n, m
  <2> QED BY <1>1
<1>5. a.total * m > b.total * n + x * n * m
  <2> DEFINE p == a.total * m
             q == b.total * n
             u == x * n * m
             w == y * n * m
  <2>1. p \in Int /\ q \in Int /\ u \in Int /\ w \in Int /\ u <= w /\ p > q + w
    BY <1>2, <1>3, <1>4
  <2> HIDE DEF p, q, u, w
  <2>2. p > q + u
    BY <2>1
  <2> QED BY <2>2 DEF p, q, u
<1> QED BY <1>5 DEF MeanExceeds

\* The offset has a ceiling (mobilityprofile.go 38-41).
LEMMA OffsetCapped ==
  ASSUME NEW p \in Profile, NEW reference \in Int, NEW lastRead \in Int
  PROVE  /\ ComputeOffset(p, reference, lastRead) \in Int
         /\ ComputeOffset(p, reference, lastRead) <= p.threshold
<1>1. p.slope \in Int /\ p.threshold \in Int /\ p.yIntercept \in Int
  BY DEF Profile
<1>2. p.slope * (reference - lastRead) + p.yIntercept \in Int
  BY <1>1
<1> QED BY <1>1, <1>2 DEF ComputeOffset

\* Until the holdoff is over it is at the ceiling.
LEMMA OffsetHeld ==
  ASSUME NEW slope \in Int, NEW threshold \in Int, NEW holdoff \in Int, slope <= 0,
         NEW since \in Int, since <= holdoff
  PROVE  /\ slope * since + (threshold - slope * holdoff) \in Int
         /\ slope * since + (threshold - slope * holdoff) >= threshold
<1>1. slope * since >= slope * holdoff /\ slope * since \in Int /\ slope * holdoff \in Int
  <2>1. since \in Int /\ -slope \in Nat /\ since <= holdoff
    OBVIOUS
  <2>2. since * (-slope) <= holdoff * (-slope)
    BY <2>1, Scaled
  <2>3. since * (-slope) = -(slope * since) /\ holdoff * (-slope) = -(slope * holdoff)
    BY <2>1
  <2>4. slope * since \in Int /\ slope * holdoff \in Int
    BY <2>1
  <2> QED BY <2>2, <2>3, <2>4
<1> DEFINE u == slope * since
           w == slope * holdoff
<1>2. u \in Int /\ w \in Int /\ u >= w
  BY <1>1
<1> HIDE DEF u, w
<1>3. u + (threshold - w) \in Int /\ u + (threshold - w) >= threshold
  BY <1>2
<1> QED BY <1>3 DEF u, w

\* What a read at an antenna does to the tag.
LEMMA ReadAt ==
  ASSUME NEW tag \in Tag, GoodStats(tag.stats), NEW read \in Read, read.antenna # Missing,
         NEW rep \in ReportInProgress, rep.device \in Device, NEW cfg
  PROVE  LET to    == <<rep.device, read.antenna>>
             stats == [tag.stats EXCEPT ![to] = Updated(@, read, rep.offset)]
             new   == Settled(tag, Located(tag, read, rep, cfg))
         IN /\ to \in Location
            /\ new.stats = stats
            /\ GoodStats(stats)
            /\ \A l \in Location \ {to} : stats[l] = tag.stats[l]
            /\ new.loc = IF MovesTo(tag.loc, to, stats, cfg, rep.reference)
                         THEN to ELSE tag.loc
<1> DEFINE to    == <<rep.device, read.antenna>>
           noted == [tag EXCEPT !.lastRead = NewLastRead(tag, read, rep.offset)]
           stats == [tag.stats EXCEPT ![to] = Updated(@, read, rep.offset)]
           where == IF MovesTo(tag.loc, to, stats, cfg, rep.reference) THEN to ELSE tag.loc
           mid   == Located(tag, read, rep, cfg)
           new   == Settled(tag, mid)
<1>1. /\ noted = [state |-> tag.state, loc |-> tag.loc,
                  lastRead |-> NewLastRead(tag, read, rep.offset),
                  lastArrived |-> tag.lastArrived,
                  lastDeparted |-> tag.lastDeparted, stats |-> tag.stats]
  BY DEF Tag
<1>2. ASSUME mid = [state |-> mid.state, loc |-> mid.loc, lastRead |-> mid.lastRead,
                    lastArrived |-> mid.lastArrived,
                    lastDeparted |-> mid.lastDeparted, stats |-> mid.stats]
      PROVE  new.loc = mid.loc /\ new.stats = mid.stats
  <2> HIDE DEF mid
  <2> QED BY <1>2 DEF Settled, SetStateAt
<1>3. to \in Location
  BY DEF Location, Read
<1>4. mid = [noted EXCEPT !.stats = stats, !.loc = where]
  BY <1>1 DEF Located
<1>5. mid = [state |-> tag.state, loc |-> where,
             lastRead |-> NewLastRead(tag, read, rep.offset),
             lastArrived |-> tag.lastArrived,
             lastDeparted |-> tag.lastDeparted, stats |-> stats]
  <2> HIDE DEF mid, noted, stats, where
  <2> QED BY <1>1, <1>4
<1>6. new.loc = where /\ new.stats = stats
  <2> HIDE DEF mid, new, stats, where
  <2> QED BY <1>2, <1>5
<1>7. /\ GoodStats(stats)
      /\ \A l \in Location \ {to} : stats[l] = tag.stats[l]
  <2>1. tag.stats[to] \in TagStats /\ GoodBuffer(tag.stats[to].rssi) /\ rep.offset \in Int
    BY <1>3 DEF GoodStats, ReportInProgress
  <2> DEFINE upd == Updated(tag.stats[to], read, rep.offset)
  <2>2. upd \in TagStats /\ GoodBuffer(upd.rssi)
    BY <2>1, UpdatedGood
  <2>3. stats = [tag.stats EXCEPT ![to] = upd]
    OBVIOUS
  <2> HIDE DEF upd, stats
  <2> QED BY <1>3, <2>2, <2>3 DEF GoodStats
<1> HIDE DEF new, stats, where
<1>8. /\ to \in Location /\ new.stats = stats /\ GoodStats(stats)
      /\ \A l \in Location \ {to} : stats[l] = tag.stats[l]
      /\ new.loc = where
  BY <1>3, <1>6, <1>7
<1> QED BY <1>8 DEF new, stats, where

\* A read, as one step of the inventory.
LEMMA ReadStep ==
  ASSUME IInv, ProcessData
  PROVE  LET read == Head(report.reads)
             prev == IF read.epc \in DOMAIN inventory THEN inventory[read.epc] ELSE NewTag
         IN /\ read \in Read /\ prev \in Tag /\ GoodStats(prev.stats)
            /\ report \in ReportInProgress /\ report.device \in Device
            /\ config.profile \in Profile
            /\ UNCHANGED config
            /\ inventory'[read.epc] = Settled(prev, Located(prev, read, report, config))
<1> DEFINE read == Head(report.reads)
           prev == IF read.epc \in DOMAIN inventory THEN inventory[read.epc] ELSE NewTag
<1>1. /\ report.busy /\ report.reads # <<>> /\ UNCHANGED config
      /\ inventory' = [x \in DOMAIN inventory \cup {read.epc} |->
                         IF x = read.epc THEN Settled(prev, Located(prev, read, report, config))
                         ELSE inventory[x]]
  BY DEF ProcessData
<1>2. /\ report \in ReportInProgress /\ report.device \in Device
      /\ config \in ProcessorConfig
      /\ \A x \in DOMAIN inventory : GoodTag(inventory[x])
  BY <1>1 DEF IInv, TypeOK, TablesGood
<1>3. report.reads \in Seq(Read) /\ config.profile \in Profile
  BY <1>2 DEF ReportInProgress, ProcessorConfig
<1>4. read \in Read
  BY <1>1, <1>3
<1>5. prev \in Tag /\ GoodStats(prev.stats)
  BY <1>2, NewTagKnown DEF GoodTag, KnownTag
<1>6. inventory'[read.epc] = Settled(prev, Located(prev, read, report, config))
  <2> HIDE DEF prev, read
  <2> QED BY <1>1
<1> QED BY <1>1, <1>2, <1>3, <1>4, <1>5, <1>6

LEMMA BetterAntennaStep ==
  ASSUME IInv, ProcessData, NEW read, read = Head(report.reads), read.antenna # Missing
  PROVE  ~HeardBetter(inventory'[read.epc], <<report.device, read.antenna>>)
<1> DEFINE prev  == IF read.epc \in DOMAIN inventory THEN inventory[read.epc] ELSE NewTag
           to    == <<report.device, read.antenna>>
           stats == [prev.stats EXCEPT ![to] = Updated(@, read, report.offset)]
           new   == inventory'[read.epc]
           offset == ComputeOffset(config.profile, report.reference,
                                   stats[prev.loc].lastRead)
<1>1. /\ read \in Read /\ prev \in Tag /\ GoodStats(prev.stats)
      /\ report \in ReportInProgress /\ report.device \in Device
      /\ config.profile \in Profile
      /\ new = Settled(prev, Located(prev, read, report, config))
  BY ReadStep
<1> HIDE DEF prev
<1>2. /\ to \in Location /\ new.stats = stats /\ GoodStats(stats)
      /\ new.loc = IF MovesTo(prev.loc, to, stats, config, report.reference)
                   THEN to ELSE prev.loc
  <2> HIDE DEF new
  <2> QED BY <1>1, ReadAt
<1> SUFFICES ASSUME HeardBetter(new, to) PROVE FALSE
  OBVIOUS
<1> HIDE DEF new, stats
<1>3. /\ new.loc # to /\ new.loc # NoLocation /\ BufLen(stats[to].rssi) >= 2
      /\ MeanExceeds(stats[to].rssi, stats[new.loc].rssi, config.profile.threshold)
  BY <1>2 DEF HeardBetter
<1>4. /\ new.loc = prev.loc /\ prev.loc \in Location
      /\ ~MeanExceeds(stats[to].rssi, stats[prev.loc].rssi, offset)
  BY <1>1, <1>2, <1>3 DEF MovesTo, Tag, Place
<1>5. /\ GoodBuffer(stats[to].rssi) /\ GoodBuffer(stats[prev.loc].rssi)
      /\ stats[prev.loc].lastRead \in Int
  BY <1>2, <1>4 DEF GoodStats, TagStats
<1>6. config.profile.threshold \in Int /\ report.reference \in Int
  BY <1>1 DEF Profile, ReportInProgress
<1>7. offset \in Int /\ offset <= config.profile.threshold
  BY <1>1, <1>5, <1>6, OffsetCapped
<1> HIDE DEF offset
<1> QED BY <1>3, <1>4, <1>5, <1>6, <1>7, ExceedsLess

\* After a read no antenna hears the tag better than the one it is at by more
\* than the threshold, if it has two readings and heard it last: the offset may
\* fall with time, but never rises above the threshold (tagprocessor.go 254-272,
\* mobilityprofile.go 34-43).
THEOREM BetterAntenna == Spec => BetterAntennaWins
<1>1. IInv /\ [Next]_vars =>
        [ProcessData => LET read == Head(report.reads)
                        IN read.antenna # Missing =>
                             ~HeardBetter(inventory'[read.epc],
                                          <<report.device, read.antenna>>)]_vars
  BY BetterAntennaStep
<1> QED BY <1>1, Invariant, PTL DEF Spec, BetterAntennaWins

\* The configuration in use is made from one that an operator may set.
ConfigMade == \E c \in Configs : config = NewConfig(c)

LEMMA ConfigStaysMade == Spec => []ConfigMade
<1>1. Init => ConfigMade
  BY DEF Init, ConfigMade
<1>2. ConfigMade /\ [Next]_vars => ConfigMade'
  BY DEF ConfigMade, Next, vars, Tick, UpdateConfig, BeginReport, ProcessData, EndReport,
         AggregateDeparted, AgeOut, StopAndStart, CrashAndStart, Load
<1> QED BY <1>1, <1>2, PTL DEF Spec

\* A read that names no antenna moves no tag.
LEMMA ReadNowhere ==
  ASSUME NEW tag \in Tag, NEW read, read.antenna = Missing, NEW rep, NEW cfg
  PROVE  Settled(tag, Located(tag, read, rep, cfg)).loc = tag.loc
<1> DEFINE last == NewLastRead(tag, read, rep.offset)
<1>1. Located(tag, read, rep, cfg) = [tag EXCEPT !.lastRead = last]
  BY DEF Located
<1> HIDE DEF last
<1>2. [tag EXCEPT !.lastRead = last] =
        [state |-> tag.state, loc |-> tag.loc, lastRead |-> last,
         lastArrived |-> tag.lastArrived, lastDeparted |-> tag.lastDeparted,
         stats |-> tag.stats]
  BY DEF Tag
<1> QED BY <1>1, <1>2 DEF Settled, SetStateAt

\* Whoever leaves an antenna with readings was heard better by the offset.
LEMMA LeavesForBetter ==
  ASSUME NEW tag \in Tag, GoodStats(tag.stats), NEW read \in Read,
         NEW rep \in ReportInProgress, rep.device \in Device, NEW cfg,
         NEW new, new = Settled(tag, Located(tag, read, rep, cfg)),
         tag.loc # NoLocation, tag.loc # new.loc, BufLen(tag.stats[tag.loc].rssi) # 0
  PROVE  /\ tag.loc \in Location /\ tag.stats[tag.loc].lastRead \in Int
         /\ MeanExceeds(new.stats[new.loc].rssi, tag.stats[tag.loc].rssi,
              ComputeOffset(cfg.profile, rep.reference, tag.stats[tag.loc].lastRead))
<1> DEFINE to    == <<rep.device, read.antenna>>
           stats == [tag.stats EXCEPT ![to] = Updated(@, read, rep.offset)]
           moves == MovesTo(tag.loc, to, stats, cfg, rep.reference)
<1>1. read.antenna # Missing
  BY ReadNowhere
<1>2. /\ to \in Location /\ new.stats = stats
      /\ \A l \in Location \ {to} : stats[l] = tag.stats[l]
      /\ new.loc = IF moves THEN to ELSE tag.loc
  BY <1>1, ReadAt
<1> HIDE DEF stats, moves
<1>3. new.loc = to /\ moves
  BY <1>2
<1>4. tag.loc \in Location \ {to} /\ stats[tag.loc] = tag.stats[tag.loc]
  BY <1>2, <1>3 DEF Tag, Place
<1>5. tag.stats[tag.loc].lastRead \in Int
  BY <1>4 DEF GoodStats, TagStats
<1>6. BufLen(stats[tag.loc].rssi) # 0
  BY <1>4
<1>7. MeanExceeds(stats[to].rssi, stats[tag.loc].rssi,
                  ComputeOffset(cfg.profile, rep.reference, stats[tag.loc].lastRead))
  BY <1>3, <1>4, <1>6 DEF moves, MovesTo, IsEmpty
<1> QED BY <1>2, <1>3, <1>4, <1>5, <1>7

\* The offset of a configuration that an operator may set.
LEMMA HeldByConfig ==
  ASSUME NEW c \in Configs, NEW cfg, cfg = NewConfig(c), cfg.profile.slope <= 0,
         NEW reference \in Int, NEW lastRead \in Int,
         reference - lastRead <= cfg.profile.holdoff
  PROVE  ComputeOffset(cfg.profile, reference, lastRead) = cfg.profile.threshold
<1> DEFINE slope     == c.slope
           threshold == c.threshold
           holdoff   == c.holdoff
<1>1. /\ slope \in Int /\ threshold \in Int /\ holdoff \in Int
      /\ cfg.profile = NewMobilityProfile(slope, threshold, holdoff)
  BY InputAssumption DEF Setting, NewConfig
<1> HIDE DEF slope, threshold, holdoff
<1>2. /\ cfg.profile.slope = slope /\ cfg.profile.holdoff = holdoff
      /\ cfg.profile.threshold = threshold
  BY <1>1 DEF NewMobilityProfile
<1>3. slope <= 0 /\ reference - lastRead <= holdoff
  BY <1>2
<1> DEFINE since  == reference - lastRead
           offset == slope * since + (threshold - slope * holdoff)
<1>4. ComputeOffset(cfg.profile, reference, lastRead)
        = IF offset > threshold THEN threshold ELSE offset
  BY <1>1 DEF ComputeOffset, NewMobilityProfile
<1>5. offset \in Int /\ offset >= threshold
  <2>1. since \in Int /\ since <= holdoff
    BY <1>3
  <2> HIDE DEF since
  <2> QED BY <1>1, <1>3, <2>1, OffsetHeld
<1> HIDE DEF offset
<1> QED BY <1>1, <1>2, <1>4, <1>5

LEMMA HoldoffStep ==
  ASSUME IInv, ConfigMade, ProcessData, NEW read, read = Head(report.reads),
         read.epc \in DOMAIN inventory,
         NEW old, old = inventory[read.epc], NEW new, new = inventory'[read.epc],
         old.loc \notin {NoLocation, new.loc}, BufLen(old.stats[old.loc].rssi) > 0,
         config.profile.slope <= 0,
         report.reference - old.stats[old.loc].lastRead <= config.profile.holdoff
  PROVE  MeanExceeds(new.stats[new.loc].rssi, old.stats[old.loc].rssi,
                     config.profile.threshold)
<1>1. /\ read \in Read /\ old \in Tag /\ GoodStats(old.stats)
      /\ report \in ReportInProgress /\ report.device \in Device
      /\ new = Settled(old, Located(old, read, report, config))
  BY ReadStep
<1>2. old.loc # NoLocation /\ old.loc # new.loc /\ BufLen(old.stats[old.loc].rssi) # 0
  OBVIOUS
<1> DEFINE last   == old.stats[old.loc].lastRead
           offset == ComputeOffset(config.profile, report.reference, last)
<1>3. last \in Int /\ MeanExceeds(new.stats[new.loc].rssi, old.stats[old.loc].rssi, offset)
  BY ONLY <1>1, <1>2, LeavesForBetter
<1>4. PICK c \in Configs : config = NewConfig(c)
  BY DEF ConfigMade
<1>5. report.reference \in Int
  BY <1>1 DEF ReportInProgress
<1>6. offset = config.profile.threshold
  BY <1>3, <1>4, <1>5, HeldByConfig
<1> HIDE DEF offset
<1> QED BY <1>3, <1>6

\* Within the holdoff after its antenna last heard it, only the threshold counts
\* (mobilityprofile.go 11-43): the y-intercept is what makes the offset reach the
\* threshold exactly at the holdoff, for every slope that is not positive.
THEOREM HoldoffRespected == Spec => HoldoffHolds
<1>1. IInv /\ ConfigMade /\ [Next]_vars =>
        [ProcessData =>
           LET e    == Head(report.reads).epc
               old  == inventory[e]
               new  == inventory'[e]
           IN (/\ e \in DOMAIN inventory
               /\ old.loc \notin {NoLocation, new.loc}
               /\ BufLen(old.stats[old.loc].rssi) > 0
               /\ config.profile.slope <= 0
               /\ report.reference - old.stats[old.loc].lastRead <= config.profile.holdoff)
              => MeanExceeds(new.stats[new.loc].rssi, old.stats[old.loc].rssi,
                             config.profile.threshold)]_vars
  BY HoldoffStep
<1> QED BY <1>1, Invariant, ConfigStaysMade, PTL DEF Spec, HoldoffHolds
-----------------------------------------------------------------------------
(***************************************************************************)
(* The promise.  Each step, seen through the event stream, is one that the *)
(* stream's follower was promised.  Where a step needs to know what the    *)
(* tags, the snapshot and the cache file can be, the inductive invariant   *)
(* of TagProcessorProofs says it.                                          *)
(***************************************************************************)

\* The parts of a view.
LEMMA ViewParts ==
  ASSUME NEW s, NEW l, NEW b \in BOOLEAN
  PROVE  LET v == [state |-> s, label |-> l, located |-> b]
         IN v.state = s /\ v.label = l /\ v.located = b
OBVIOUS

\* A tag at a known location gets another label.
LEMMA Relabelled ==
  ASSUME NEW l, NEW m, NEW b
  PROVE  [[state |-> "Present", label |-> l, located |-> b] EXCEPT !.label = m]
           = Lifecycle!Here(m, b)
BY DEF Lifecycle!Here

\* Those of a tag that is present or departed are a view.
LEMMA ViewIn ==
  ASSUME NEW s \in {"Present", "Departed"}, NEW l \in Label, NEW b \in BOOLEAN
  PROVE  [state |-> s, label |-> l, located |-> b] \in Lifecycle!View
<1>1. CASE s = "Present"
  <2>1. [state |-> s, label |-> l, located |-> b] = Lifecycle!Here(l, b)
    BY <1>1 DEF Lifecycle!Here
  <2> QED BY <2>1 DEF Lifecycle!View
<1>2. CASE s = "Departed"
  <2>1. [state |-> s, label |-> l, located |-> b] = Lifecycle!Gone(l, b)
    BY <1>2 DEF Lifecycle!Gone
  <2> QED BY <2>1 DEF Lifecycle!View
<1> QED BY <1>1, <1>2

\* What the follower sees of a good inventory is a view.
LEMMA ViewsTyped ==
  ASSUME NEW table, DOMAIN table \subseteq EPC, \A e \in DOMAIN table : GoodTag(table[e]),
         NEW cfg \in ProcessorConfig
  PROVE  /\ [e \in EPC |-> ViewOf(table, cfg, e)] \in [EPC -> Lifecycle!View]
         /\ PresentIn(table) = {e \in EPC : ViewOf(table, cfg, e).state = "Present"}
<1>1. ASSUME NEW e \in EPC, e \in DOMAIN table
      PROVE  /\ GetAlias(cfg, table[e].loc) \in Label
             /\ table[e].state \in {"Present", "Departed"}
             /\ (~IsEmpty(table[e].loc)) \in BOOLEAN
  <2>1. table[e] \in Tag /\ table[e].state # "Unknown"
    BY <1>1 DEF GoodTag, KnownTag
  <2>2. table[e].loc \in Place /\ table[e].state \in TagState
    BY <2>1 DEF Tag
  <2>3. (~IsEmpty(table[e].loc)) \in BOOLEAN
    BY DEF IsEmpty
  <2> QED BY <2>1, <2>2, <2>3, GetAliasLabel DEF TagState
<1>2. ASSUME NEW e \in EPC PROVE ViewOf(table, cfg, e) \in Lifecycle!View
  <2>1. CASE e \notin DOMAIN table
    BY <2>1 DEF ViewOf, Lifecycle!View, Lifecycle!Absent
  <2>2. CASE e \in DOMAIN table
    <3> DEFINE v == [state |-> table[e].state, label |-> GetAlias(cfg, table[e].loc),
                     located |-> ~IsEmpty(table[e].loc)]
    <3>1. v \in Lifecycle!View
      BY <1>1, <2>2, ViewIn
    <3>2. ViewOf(table, cfg, e) = v
      BY <2>2 DEF ViewOf
    <3> HIDE DEF v
    <3> QED BY <3>1, <3>2
  <2> QED BY <2>1, <2>2
<1>3. PresentIn(table) = {e \in EPC : ViewOf(table, cfg, e).state = "Present"}
  BY DEF PresentIn, ViewOf
<1> QED BY <1>2, <1>3

\* The tags that the stream shows as present are those in the inventory.
LEMMA PresentShown ==
  ASSUME IInv
  PROVE  /\ Views \in [EPC -> Lifecycle!View]
         /\ Lifecycle!PresentTags = PresentIn(inventory)
         /\ \A e \in EPC : Views[e] = ViewOf(inventory, config, e)
<1>1. DOMAIN inventory \subseteq EPC /\ (\A e \in DOMAIN inventory : GoodTag(inventory[e]))
      /\ config \in ProcessorConfig
  BY DEF IInv, TypeOK, IsMap, TablesGood
<1>2. \A e \in EPC : Views[e] = ViewOf(inventory, config, e)
  BY DEF Views
<1>3. /\ Views \in [EPC -> Lifecycle!View]
      /\ PresentIn(inventory) = {e \in EPC : ViewOf(inventory, config, e).state = "Present"}
  BY <1>1, ViewsTyped DEF Views
<1> QED BY <1>2, <1>3 DEF Lifecycle!PresentTags

\* Steps of which the stream shows nothing.
LEMMA QuietShown ==
  ASSUME UNCHANGED <<inventory, config, told>>, events' = {}
  PROVE  Lifecycle!Quiet
BY DEF Lifecycle!Quiet, Views, ShownEvents, ViewOf, GetAlias, IsEmpty

LEMMA EndReportShown ==
  ASSUME IInv, EndReport
  PROVE  Lifecycle!HandOver
<1>1. PresentIn(inventory) = report.batch
  BY DEF IInv, ToldRight, InventoryAsTold, EndReport
<1>2. told' = report.batch /\ events' = {} /\ UNCHANGED <<inventory, config>>
  BY DEF EndReport
<1>3. Views' = Views
  BY <1>2 DEF Views, ViewOf, GetAlias, IsEmpty
<1>4. ShownEvents' = {}
  BY <1>2 DEF ShownEvents
<1> QED BY <1>1, <1>2, <1>3, <1>4, PresentShown DEF Lifecycle!HandOver

\* A configuration renames locations.
LEMMA UpdateConfigShown ==
  ASSUME IInv, UpdateConfig
  PROVE  Lifecycle!Rename
<1>1. config' \in ProcessorConfig /\ events' = {} /\ UNCHANGED <<inventory, told>>
  BY NewConfigType DEF UpdateConfig
<1>2. DOMAIN inventory \subseteq EPC /\ \A e \in DOMAIN inventory : GoodTag(inventory[e])
  BY DEF IInv, TypeOK, IsMap, TablesGood
<1>3. Views' = [e \in EPC |-> ViewOf(inventory, config', e)]
  BY <1>1 DEF Views, ViewOf, GetAlias, IsEmpty
<1>4. Views' \in [EPC -> Lifecycle!View]
  BY <1>1, <1>2, <1>3, ViewsTyped
<1>5. \A e \in EPC : /\ Views'[e].state = Views[e].state
                     /\ Views[e] # Lifecycle!Absent => Views'[e].located = Views[e].located
  BY <1>3 DEF Views, ViewOf, Lifecycle!Absent
<1>6. ShownEvents' = {}
  BY <1>1 DEF ShownEvents
<1> QED BY <1>1, <1>4, <1>5, <1>6 DEF Lifecycle!Rename

\* A restart from a snapshot in which those are present that were told to be.
LEMMA LoadShown ==
  ASSUME NEW file, IsSnapshot(file), \A e \in DOMAIN file : GoodStatic(file[e]),
         PresentIn(file) = told, Load(file)
  PROVE  Lifecycle!Recover
<1>1. /\ inventory' = [e \in DOMAIN file |-> AsTag(file[e])]
      /\ events' = {} /\ UNCHANGED told
  BY DEF Load, Restored
<1>2. config' \in ProcessorConfig
  BY NewConfigType DEF Load
<1>3. /\ DOMAIN inventory' \subseteq EPC
      /\ \A e \in DOMAIN inventory' : GoodTag(inventory'[e])
      /\ PresentIn(inventory') = told
  BY <1>1 DEF IsSnapshot, GoodStatic, PresentIn, AsTag
<1>4. Views' = [e \in EPC |-> ViewOf(inventory', config', e)]
  BY DEF Views, ViewOf, GetAlias, IsEmpty
<1>5. /\ Views' \in [EPC -> Lifecycle!View]
      /\ PresentIn(inventory') = {e \in EPC : ViewOf(inventory', config', e).state = "Present"}
  BY <1>2, <1>3, <1>4, ViewsTyped
<1>6. {e \in EPC : Views'[e].state = "Present"} = told
  BY <1>3, <1>4, <1>5
<1>7. ShownEvents' = {}
  BY <1>1 DEF ShownEvents
<1> QED BY <1>1, <1>5, <1>6, <1>7 DEF Lifecycle!Recover

LEMMA RestartShown ==
  ASSUME IInv, Restart
  PROVE  Lifecycle!Recover
<1>1. /\ IsSnapshot(snapshot) /\ \A e \in DOMAIN snapshot : GoodStatic(snapshot[e])
      /\ IsSnapshot(saved) /\ \A e \in DOMAIN saved : GoodStatic(saved[e])
      /\ PresentIn(snapshot) = told /\ PresentIn(saved) = told
  BY DEF IInv, TypeOK, TablesGood, ToldRight, SavedAsTold
<1>2. CASE StopAndStart
  BY <1>1, <1>2, LoadShown DEF StopAndStart
<1>3. CASE CrashAndStart
  BY <1>1, <1>3, LoadShown DEF CrashAndStart
<1> QED BY <1>2, <1>3 DEF Restart

\* Departures: one event for each, of tags the stream has as present.
LEMMA AggregateDepartedShown ==
  ASSUME IInv, AggregateDeparted
  PROVE  Lifecycle!Depart(ToDepart)
<1> DEFINE left(e) == [SetStateAt(inventory[e], "Departed", now) EXCEPT !.stats = EmptyStats]
<1>1. /\ ~report.busy /\ ToDepart # {}
      /\ inventory' = [e \in DOMAIN inventory |->
                         IF e \in ToDepart THEN left(e) ELSE inventory[e]]
      /\ events' = {DepartedEvent(e, inventory[e], now, config) : e \in ToDepart}
      /\ told' = told \ ToDepart
      /\ UNCHANGED config
  BY DEF AggregateDeparted
<1>2. /\ DOMAIN inventory \subseteq EPC /\ \A e \in DOMAIN inventory : inventory[e] \in Tag
      /\ PresentIn(inventory) = told
  BY <1>1 DEF IInv, TypeOK, IsMap, TablesGood, GoodTag, KnownTag, ToldRight, InventoryAsTold
<1>3. told = Lifecycle!PresentTags /\ \A e \in EPC : Views[e] = ViewOf(inventory, config, e)
  BY <1>2, PresentShown
<1>4. ToDepart \subseteq PresentIn(inventory) /\ ToDepart \subseteq DOMAIN inventory
  BY DEF ToDepart, PresentIn
<1>5. ASSUME NEW e \in ToDepart
      PROVE  /\ left(e).state = "Departed" /\ left(e).loc = inventory[e].loc
             /\ Views[e].label = GetAlias(config, inventory[e].loc)
             /\ Views[e].located = ~IsEmpty(inventory[e].loc)
             /\ Shown(DepartedEvent(e, inventory[e], now, config))
                  = Lifecycle!Departed(e, Views[e].label)
  <2>1. e \in EPC /\ e \in DOMAIN inventory /\ inventory[e] \in Tag
    BY <1>2, <1>4
  <2>2. left(e).state = "Departed" /\ left(e).loc = inventory[e].loc
    BY <2>1 DEF SetStateAt, Tag
  <2>3. Views[e] = [state |-> inventory[e].state, label |-> GetAlias(config, inventory[e].loc),
                    located |-> ~IsEmpty(inventory[e].loc)]
    BY <1>3, <2>1 DEF ViewOf
  <2>4. Views[e].label = GetAlias(config, inventory[e].loc)
        /\ Views[e].located = ~IsEmpty(inventory[e].loc)
    BY <2>3 DEF IsEmpty
  <2>5. Shown(DepartedEvent(e, inventory[e], now, config))
                  = Lifecycle!Departed(e, GetAlias(config, inventory[e].loc))
    BY DEF Shown, DepartedEvent, Lifecycle!Departed
  <2> QED BY <2>2, <2>4, <2>5
<1> HIDE DEF left
<1>6. Views' = [e \in EPC |-> IF e \in ToDepart
                              THEN Lifecycle!Gone(Views[e].label, Views[e].located) ELSE Views[e]]
  <2>1. Views' = [e \in EPC |-> ViewOf(inventory', config, e)]
    BY <1>1 DEF Views, ViewOf, GetAlias, IsEmpty
  <2>2. ASSUME NEW e \in EPC
        PROVE  ViewOf(inventory', config, e) =
                 IF e \in ToDepart
                 THEN Lifecycle!Gone(Views[e].label, Views[e].located) ELSE Views[e]
    <3>1. CASE e \in ToDepart
      <4>1. e \in DOMAIN inventory' /\ inventory'[e] = left(e)
        BY <1>1, <1>4, <3>1
      <4> QED BY <1>5, <3>1, <4>1 DEF ViewOf, Lifecycle!Gone
    <3>2. CASE e \notin ToDepart
      <4>1. /\ DOMAIN inventory' = DOMAIN inventory
            /\ e \in DOMAIN inventory => inventory'[e] = inventory[e]
        BY <1>1, <3>2
      <4> QED BY <1>3, <3>2, <4>1 DEF ViewOf
    <3> QED BY <3>1, <3>2
  <2> QED BY <2>1, <2>2
<1>7. ShownEvents' = {Lifecycle!Departed(e, Views[e].label) : e \in ToDepart}
  <2>1. ShownEvents' = {Shown(DepartedEvent(e, inventory[e], now, config)) : e \in ToDepart}
    BY <1>1 DEF ShownEvents
  <2> QED BY <1>5, <2>1
<1> QED BY <1>1, <1>2, <1>3, <1>4, <1>6, <1>7 DEF Lifecycle!Depart

\* What is forgotten had departed.
LEMMA AgeOutShown ==
  ASSUME IInv, AgeOut
  PROVE  Lifecycle!Forget(ToAgeOut)
<1>1. /\ ~report.busy /\ events' = {} /\ UNCHANGED <<config, told>>
      /\ inventory' = [e \in DOMAIN inventory \ ToAgeOut |-> inventory[e]]
  BY DEF AgeOut
<1>2. DOMAIN inventory \subseteq EPC /\ PresentIn(inventory) = told
  BY <1>1 DEF IInv, TypeOK, IsMap, ToldRight, InventoryAsTold
<1>3. \A e \in EPC : Views[e] = ViewOf(inventory, config, e)
  BY PresentShown
<1>4. \A e \in ToAgeOut : e \in DOMAIN inventory /\ inventory[e].state = "Departed"
  BY DEF ToAgeOut
<1>5. \A e \in ToAgeOut : Views[e].state = "Departed" /\ e \notin told
  <2> TAKE e \in ToAgeOut
  <2>1. e \in DOMAIN inventory /\ e \in EPC /\ inventory[e].state = "Departed"
    BY <1>2, <1>4
  <2>2. e \notin PresentIn(inventory)
    BY <2>1 DEF PresentIn
  <2>3. Views[e].state = "Departed"
    <3>1. Views[e] = [state |-> "Departed", label |-> GetAlias(config, inventory[e].loc),
                      located |-> ~IsEmpty(inventory[e].loc)]
      BY <1>3, <2>1 DEF ViewOf
    <3>2. (~IsEmpty(inventory[e].loc)) \in BOOLEAN
      BY DEF IsEmpty
    <3> QED BY <3>1, <3>2, ViewParts
  <2> QED BY <1>2, <2>2, <2>3
<1>6. Views' = [e \in EPC |-> IF e \in ToAgeOut THEN Lifecycle!Absent ELSE Views[e]]
  <2>1. Views' = [e \in EPC |-> ViewOf(inventory', config, e)]
    BY <1>1 DEF Views, ViewOf, GetAlias, IsEmpty
  <2>2. ASSUME NEW e \in EPC
        PROVE  ViewOf(inventory', config, e) =
                 IF e \in ToAgeOut THEN Lifecycle!Absent ELSE Views[e]
    BY <1>1, <1>3, <1>4 DEF ViewOf, Lifecycle!Absent
  <2> QED BY <2>1, <2>2
<1>7. ShownEvents' = {}
  BY <1>1 DEF ShownEvents
<1> QED BY <1>1, <1>5, <1>6, <1>7 DEF Lifecycle!Forget

\* Where a tag is after a read: where it was, or at the antenna.
LEMMA LocatedAt ==
  ASSUME NEW tag \in Tag, NEW read \in Read, NEW rep \in ReportInProgress,
         rep.device \in Device, NEW cfg
  PROVE  /\ Located(tag, read, rep, cfg).loc \in Location \cup {tag.loc}
         /\ Settled(tag, Located(tag, read, rep, cfg)).loc = Located(tag, read, rep, cfg).loc
<1> DEFINE loc   == <<rep.device, read.antenna>>
           noted == [tag EXCEPT !.lastRead = NewLastRead(tag, read, rep.offset)]
           stats == [tag.stats EXCEPT ![loc] = Updated(@, read, rep.offset)]
           where == IF MovesTo(tag.loc, loc, stats, cfg, rep.reference) THEN loc ELSE tag.loc
           mid   == Located(tag, read, rep, cfg)
<1>1. /\ noted = [state |-> tag.state, loc |-> tag.loc,
                  lastRead |-> NewLastRead(tag, read, rep.offset),
                  lastArrived |-> tag.lastArrived,
                  lastDeparted |-> tag.lastDeparted, stats |-> tag.stats]
  BY DEF Tag
<1>2. /\ mid.loc \in Location \cup {tag.loc}
      /\ mid = [state |-> mid.state, loc |-> mid.loc, lastRead |-> mid.lastRead,
                lastArrived |-> mid.lastArrived,
                lastDeparted |-> mid.lastDeparted, stats |-> mid.stats]
  <2>1. CASE read.antenna = Missing
    <3>1. mid = noted
      BY <2>1 DEF Located
    <3> HIDE DEF mid
    <3> QED BY <1>1, <3>1
  <2>2. CASE read.antenna # Missing
    <3>1. loc \in Location
      BY <2>2 DEF Location, Read
    <3>2. where \in Location \cup {tag.loc}
      BY <3>1
    <3>3. mid = [noted EXCEPT !.stats = stats, !.loc = where]
      BY <1>1, <2>2 DEF Located
    <3> HIDE DEF mid, noted, stats, where
    <3> QED BY <1>1, <3>2, <3>3
  <2> QED BY <2>1, <2>2
<1> HIDE DEF mid
<1>3. Settled(tag, mid).loc = mid.loc
  BY <1>2 DEF Settled, SetStateAt
<1> QED BY <1>2, <1>3 DEF mid

\* A read: the tag arrives, moves, is located, or nothing can be told of it.
LEMMA ProcessDataShown ==
  ASSUME IInv, ProcessData
  PROVE  Lifecycle!Next
<1> DEFINE read == Head(report.reads)
           e    == read.epc
           prev == IF e \in DOMAIN inventory THEN inventory[e] ELSE NewTag
           mid  == Located(prev, read, report, config)
           tag  == Settled(prev, mid)
           old  == GetAlias(config, prev.loc)
           new  == GetAlias(config, mid.loc)
<1>1. /\ report.busy /\ report.reads # <<>>
      /\ inventory' = [x \in DOMAIN inventory \cup {e} |->
                         IF x = e THEN tag ELSE inventory[x]]
      /\ events' = EventsOf(e, prev, mid, config)
      /\ UNCHANGED <<config, told>>
  BY DEF ProcessData
<1>2. /\ report \in ReportInProgress /\ report.device \in Device
      /\ DOMAIN inventory \subseteq EPC /\ config \in ProcessorConfig
      /\ \A x \in DOMAIN inventory : GoodTag(inventory[x])
  BY <1>1 DEF IInv, TypeOK, IsMap, TablesGood
<1>3. report.reads \in Seq(Read)
  BY <1>2 DEF ReportInProgress
<1>4. read \in Read
  BY <1>1, <1>3
<1>5. e \in EPC
  BY <1>4 DEF Read
<1> HIDE DEF read
<1>6. KnownTag(prev) /\ prev \in Tag
  BY <1>2, NewTagKnown DEF GoodTag, KnownTag
<1>7. /\ Views[e] = ViewOf(inventory, config, e)
      /\ Views \in [EPC -> Lifecycle!View]
      /\ Lifecycle!PresentTags = PresentIn(inventory)
  BY <1>5, PresentShown
<1>8. /\ e \in PresentIn(inventory) <=> prev.state = "Present"
      /\ prev.state = "Present" =>
           Views[e] = [state |-> "Present", label |-> old, located |-> ~IsEmpty(prev.loc)]
  BY <1>7 DEF PresentIn, NewTag, ViewOf
<1> HIDE DEF prev
<1>9. prev.state \in TagState /\ prev.loc \in Place
  BY <1>6 DEF Tag
<1>10. /\ GoodTag(tag) /\ tag.state = "Present"
       /\ mid.loc \in Location \cup {prev.loc} /\ tag.loc = mid.loc
  BY <1>2, <1>4, <1>6, SettledGood, LocatedAt
<1> HIDE DEF mid, tag
<1>11. new \in Label /\ (IsEmpty(mid.loc) => IsEmpty(prev.loc))
  <2>1. mid.loc \in Place
    BY <1>9, <1>10 DEF Place
  <2> QED BY <1>2, <1>10, <2>1, GetAliasLabel, TagProcessorAssumption DEF IsEmpty
<1> DEFINE located == ~IsEmpty(mid.loc)
<1>12. Views' = [Views EXCEPT ![e] = Lifecycle!Here(new, located)]
  <2>1. Views' = [x \in EPC |-> ViewOf(inventory', config, x)]
    BY <1>1 DEF Views, ViewOf, GetAlias, IsEmpty
  <2>2. ASSUME NEW x \in EPC
        PROVE  ViewOf(inventory', config, x) =
                 IF x = e THEN Lifecycle!Here(new, ~IsEmpty(mid.loc)) ELSE Views[x]
    <3> HIDE DEF e, new
    <3>1. CASE x = e
      <4>1. x \in DOMAIN inventory' /\ inventory'[x] = tag
        BY <1>1, <3>1
      <4> QED BY <1>10, <3>1, <4>1 DEF ViewOf, Lifecycle!Here, new
    <3>2. CASE x # e
      <4>1. /\ x \in DOMAIN inventory' <=> x \in DOMAIN inventory
            /\ x \in DOMAIN inventory => inventory'[x] = inventory[x]
        BY <1>1, <3>2
      <4> QED BY <3>2, <4>1 DEF ViewOf, Views
    <3> QED BY <3>1, <3>2
  <2> QED BY <1>7, <2>1, <2>2
<1>13. located \in BOOLEAN
  BY DEF IsEmpty
<1>14. CASE prev.state \in {"Unknown", "Departed"}
  <2>1. events' = {ArrivedEvent(e, mid, config)}
    BY <1>1, <1>14 DEF EventsOf
  <2>2. Shown(ArrivedEvent(e, mid, config)) = Lifecycle!Arrived(e, new)
    BY DEF Shown, ArrivedEvent, Lifecycle!Arrived
  <2>3. ShownEvents' = {Lifecycle!Arrived(e, new)}
    BY <2>1, <2>2 DEF ShownEvents
  <2>4. Lifecycle!Arrive(e)
    <3>1. e \notin Lifecycle!PresentTags
      BY <1>7, <1>8, <1>14
    <3> HIDE DEF e, new, located
    <3> QED BY <1>1, <1>11, <1>12, <1>13, <2>3, <3>1 DEF Lifecycle!Arrive, located
  <2> QED BY <1>5, <2>4 DEF Lifecycle!Next
<1>15. CASE prev.state = "Present" /\ IsEmpty(prev.loc)
  <2>1. ShownEvents' = {}
    BY <1>1, <1>15 DEF EventsOf, ShownEvents
  <2>2. CASE located
    <3>1. Lifecycle!Locate(e)
      <4>1. e \in Lifecycle!PresentTags
        BY <1>7, <1>8, <1>15
      <4>2. ~Views[e].located
        <5>1. Views[e] = [state |-> "Present", label |-> old, located |-> FALSE]
          BY <1>8, <1>15
        <5> QED BY <5>1, ViewParts
      <4> HIDE DEF e, new
      <4> QED BY <1>1, <1>11, <1>12, <2>1, <2>2, <4>1, <4>2 DEF Lifecycle!Locate, located
    <3> QED BY <1>5, <3>1 DEF Lifecycle!Next
  <2>3. CASE ~located
    <3>1. new = old /\ Views[e] = Lifecycle!Here(new, located)
      BY <1>8, <1>15, <2>3 DEF IsEmpty, Lifecycle!Here
    <3>2. Views' = Views
      BY <1>5, <1>7, <1>12, <3>1
    <3> QED BY <1>1, <2>1, <3>2 DEF Lifecycle!Next, Lifecycle!Quiet
  <2> QED BY <2>2, <2>3
<1>16. CASE prev.state = "Present" /\ ~IsEmpty(prev.loc) /\ (prev.loc = mid.loc \/ old = new)
  <2>1. ShownEvents' = {}
    BY <1>1, <1>16 DEF EventsOf, ShownEvents
  <2>2. Views[e] = Lifecycle!Here(new, located)
    BY <1>8, <1>11, <1>16 DEF Lifecycle!Here
  <2>3. Views' = Views
    BY <1>5, <1>7, <1>12, <2>2
  <2> QED BY <1>1, <2>1, <2>3 DEF Lifecycle!Next, Lifecycle!Quiet
<1>17. CASE prev.state = "Present" /\ ~IsEmpty(prev.loc) /\ prev.loc # mid.loc /\ old # new
  <2>1. events' = {MovedEvent(e, mid, old, new)}
    BY <1>1, <1>17 DEF EventsOf
  <2>2. Shown(MovedEvent(e, mid, old, new)) = Lifecycle!Moved(e, old, new)
    BY DEF Shown, MovedEvent, Lifecycle!Moved
  <2>3. ShownEvents' = {Lifecycle!Moved(e, old, new)}
    BY <2>1, <2>2 DEF ShownEvents
  <2>4. /\ e \in Lifecycle!PresentTags
        /\ Views[e] = [state |-> "Present", label |-> old, located |-> TRUE]
        /\ located
    BY <1>7, <1>8, <1>11, <1>17
  <2>5. Views' = [Views EXCEPT ![e] = [@ EXCEPT !.label = new]]
    <3> DEFINE b == Views[e].located
    <3>1. b = TRUE
      BY <2>4
    <3>2. Views[e] = [state |-> "Present", label |-> old, located |-> b]
      BY <2>4, <3>1
    <3> HIDE DEF e, new, old, b
    <3>3. [Views[e] EXCEPT !.label = new] = Lifecycle!Here(new, b)
      BY <3>2, Relabelled
    <3>4. located = b
      BY <2>4, <3>1
    <3> HIDE DEF located
    <3>5. Views' = [Views EXCEPT ![e] = Lifecycle!Here(new, b)]
      BY <1>12, <3>4
    <3> QED BY <3>3, <3>5
  <2>6. Lifecycle!Move(e)
    <3>1. Views[e].located /\ Views[e].label = old
      BY <2>4
    <3> HIDE DEF e, new, old
    <3> QED BY <1>1, <1>11, <1>17, <2>3, <2>4, <2>5, <3>1 DEF Lifecycle!Move
  <2> QED BY <1>5, <2>6 DEF Lifecycle!Next
<1> QED BY <1>9, <1>14, <1>15, <1>16, <1>17 DEF TagState

\* The first start: nothing is known, and nothing was told.
LEMMA InitShown == Init => Lifecycle!Init
BY DEF Init, NoTags, Lifecycle!Init, Lifecycle!Absent, Views, ShownEvents, ViewOf

\* Every step of the inventory is one of the promised ones.
LEMMA NextShown == IInv /\ [Next]_vars => [Lifecycle!Next]_(Lifecycle!vars)
<1> SUFFICES ASSUME IInv, [Next]_vars PROVE [Lifecycle!Next]_(Lifecycle!vars)
  OBVIOUS
<1>1. CASE Tick \/ BeginReport
  <2>1. UNCHANGED <<inventory, config, told>> /\ events' = {}
    BY <1>1 DEF Tick, BeginReport
  <2> QED BY <2>1, QuietShown DEF Lifecycle!Next
<1>2. CASE UpdateConfig
  BY <1>2, UpdateConfigShown DEF Lifecycle!Next
<1>3. CASE ProcessData
  BY <1>3, ProcessDataShown
<1>4. CASE EndReport
  BY <1>4, EndReportShown DEF Lifecycle!Next
<1>5. CASE AggregateDeparted
  <2>1. ToDepart \in SUBSET EPC
    BY DEF ToDepart, IInv, TypeOK, IsMap
  <2> QED BY <1>5, <2>1, AggregateDepartedShown DEF Lifecycle!Next
<1>6. CASE AgeOut
  <2>1. ToAgeOut \in SUBSET EPC
    BY DEF ToAgeOut, IInv, TypeOK, IsMap
  <2> QED BY <1>6, <2>1, AgeOutShown DEF Lifecycle!Next
<1>7. CASE StopAndStart \/ CrashAndStart
  BY <1>7, RestartShown DEF Lifecycle!Next, Restart
<1>8. CASE UNCHANGED vars
  BY <1>8 DEF vars, Lifecycle!vars, Views, ShownEvents, ViewOf, GetAlias, IsEmpty
<1> QED BY <1>1, <1>2, <1>3, <1>4, <1>5, <1>6, <1>7, <1>8 DEF Next

\* The inventory keeps TagLifecycle's promise to whoever follows its events:
\* which events a tag may have in which order, a Moved event names the place the
\* stream last gave, and a restart brings back those the stream has as present
\* (tagprocessor.go 169-203, 328-363; controller.go 171-248).
THEOREM PromiseKept == Spec => KeepsPromise
<1>1. Init => Lifecycle!Init
  BY InitShown
<1>2. IInv /\ [Next]_vars => [Lifecycle!Next]_(Lifecycle!vars)
  BY NextShown
<1> QED BY <1>1, <1>2, Invariant, PTL DEF Spec, KeepsPromise, Lifecycle!Spec
=============================================================================
