------------------------- MODULE TagProcessorProofs -------------------------
(***************************************************************************)
(* TagProcessor's type invariant and safety invariants, for every set of   *)
(* tags, readers, antennas, aliases, configurations and reports, every     *)
(* window size and every bound of the clock.                               *)
(***************************************************************************)
EXTENDS TagProcessor, TLAPS

(***************************************************************************)
(* Buffers: the overwritten slot is always in the window.                  *)
(***************************************************************************)
GoodBuffer(b) ==
  /\ b \in Buffer
  /\ BufLen(b) <= WindowSize
  /\ b.index < WindowSize

\* A new buffer is well formed.
LEMMA NewBufferGood == GoodBuffer(NewCircularBuffer)
BY WindowSizeAssumption DEF GoodBuffer, NewCircularBuffer, Buffer, BufLen

\* Adding a reading to a well formed buffer leaves it well formed and not
\* empty, and never shortens it.
LEMMA AddValueGood ==
  ASSUME NEW b, GoodBuffer(b), NEW v \in Int
  PROVE  /\ GoodBuffer(AddValue(b, v))
         /\ BufLen(AddValue(b, v)) > 0
<1>1. /\ b.values \in Seq(Int) /\ b.total \in Int /\ b.index \in Nat
      /\ b = [values |-> b.values, total |-> b.total, index |-> b.index]
      /\ Len(b.values) <= WindowSize /\ b.index < WindowSize
      /\ WindowSize \in Nat \ {0}
  BY WindowSizeAssumption DEF GoodBuffer, Buffer, BufLen
<1>2. CASE Len(b.values) < WindowSize
  <2>1. AddValue(b, v) = [values |-> Append(b.values, v), total |-> b.total + v,
                          index |-> b.index]
    BY <1>1, <1>2 DEF AddValue, BufLen
  <2>2. Append(b.values, v) \in Seq(Int) /\ Len(Append(b.values, v)) = Len(b.values) + 1
    BY <1>1
  <2> QED BY <1>1, <1>2, <2>1, <2>2 DEF GoodBuffer, Buffer, BufLen
<1>3. CASE ~(Len(b.values) < WindowSize)
  <2> DEFINE slot == b.index + 1
             vals == [b.values EXCEPT ![slot] = v]
  <2>1. slot \in 1..Len(b.values)
    BY <1>1, <1>3
  <2>2. vals \in Seq(Int) /\ Len(vals) = Len(b.values)
    BY <1>1, <2>1
  <2>3. b.values[slot] \in Int
    BY <1>1, <2>1
  <2>4. AddValue(b, v) = [values |-> vals, total |-> b.total - b.values[slot] + v,
                          index |-> IF slot >= WindowSize THEN 0 ELSE slot]
    BY <1>1, <1>3 DEF AddValue, BufLen
  <2> HIDE DEF vals
  <2> QED BY <1>1, <1>3, <2>1, <2>2, <2>3, <2>4 DEF GoodBuffer, Buffer, BufLen
<1> QED BY <1>2, <1>3

(***************************************************************************)
(* Tags.  KnownTag says what holds of any tag that a read may find, a tag  *)
(* just created included; GoodTag what holds of a tag in the inventory.    *)
(***************************************************************************)
GoodStats(stats) ==
  /\ stats \in [Location -> TagStats]
  /\ \A l \in Location : GoodBuffer(stats[l].rssi)

InOrder(tag) ==
  /\ tag.lastArrived <= tag.lastRead
  /\ tag.state = "Departed" => tag.lastRead < tag.lastDeparted
  /\ \A l \in Location : tag.stats[l].lastRead <= tag.lastRead

KnownTag(tag) ==
  /\ tag \in Tag
  /\ GoodStats(tag.stats)
  /\ InOrder(tag)
  /\ tag.lastRead >= 0
  /\ tag.state = "Departed" => tag.stats = EmptyStats

GoodTag(tag) == KnownTag(tag) /\ tag.state # "Unknown"

\* No statistics at all are well formed.
LEMMA EmptyStatsGood == GoodStats(EmptyStats) /\ EmptyStats \in [Location -> TagStats]
BY NewBufferGood DEF GoodStats, EmptyStats, NewTagStats, TagStats, GoodBuffer

\* A new tag is typed and its times are in order.
LEMMA NewTagKnown == KnownTag(NewTag)
BY EmptyStatsGood
   DEF KnownTag, NewTag, Tag, TagState, Place, InOrder, EmptyStats, NewTagStats

\* The time a read is stamped with is an integer, whichever way it is rounded.
LEMMA StampInt ==
  ASSUME NEW read \in Read, read.lastSeen # Missing, NEW offset \in Int
  PROVE  Stamp(read, offset) \in Int
<1>1. read.lastSeen + offset \in Int
  BY DEF Read
<1>2. \A a \in Int : TruncDiv(a, MicrosPerMilli) \in Int
  BY TagProcessorAssumption DEF TruncDiv
<1> QED BY <1>1, <1>2 DEF Stamp

\* A tag's time of last read is at least what it was, and at least the time
\* of this read.
LEMMA NewLastReadBounds ==
  ASSUME NEW tag \in Tag, NEW read \in Read, NEW offset \in Int
  PROVE  /\ NewLastRead(tag, read, offset) \in Int
         /\ NewLastRead(tag, read, offset) >= tag.lastRead
         /\ read.lastSeen # Missing => NewLastRead(tag, read, offset) >= Stamp(read, offset)
<1>1. tag.lastRead \in Int
  BY DEF Tag
<1> QED BY <1>1, StampInt DEF NewLastRead

\* An antenna's statistics stay well formed, and no later than the tag's own
\* time of last read if they were.
LEMMA UpdatedGood ==
  ASSUME NEW stats \in TagStats, GoodBuffer(stats.rssi),
         NEW read \in Read, NEW offset \in Int
  PROVE  /\ Updated(stats, read, offset) \in TagStats
         /\ GoodBuffer(Updated(stats, read, offset).rssi)
         /\ \/ Updated(stats, read, offset).lastRead = stats.lastRead
            \/ /\ read.lastSeen # Missing
               /\ Updated(stats, read, offset).lastRead = Stamp(read, offset)
<1> DEFINE heard == IF read.rssi = Missing THEN stats.rssi
                    ELSE AddValue(stats.rssi, read.rssi)
           kept  == [stats EXCEPT !.rssi = heard]
<1>1. GoodBuffer(heard)
  <2>1. read.rssi = Missing \/ read.rssi \in Int
    BY DEF Read
  <2> QED BY <2>1, AddValueGood
<1>2. heard \in Buffer
  BY <1>1 DEF GoodBuffer
<1> HIDE DEF heard
<1>3. kept = [lastRead |-> stats.lastRead, rssi |-> heard] /\ stats.lastRead \in Int
  BY DEF TagStats
<1>4. kept \in TagStats
  BY <1>2, <1>3 DEF TagStats
<1>5. CASE read.lastSeen = Missing
  <2>1. Updated(stats, read, offset) = kept
    BY <1>5 DEF Updated, heard
  <2> QED BY <1>1, <1>3, <1>4, <2>1
<1>6. CASE read.lastSeen # Missing
  <2>1. Updated(stats, read, offset) = UpdateLastRead(kept, Stamp(read, offset))
    BY <1>6 DEF Updated, heard
  <2>2. Stamp(read, offset) \in Int
    BY <1>6, StampInt
  <2>3. UpdateLastRead(kept, Stamp(read, offset)) \in
          {kept, [lastRead |-> Stamp(read, offset), rssi |-> heard]}
    BY <1>3 DEF UpdateLastRead
  <2> QED BY <1>1, <1>2, <1>3, <1>4, <1>6, <2>1, <2>2, <2>3 DEF TagStats
<1> QED BY <1>5, <1>6

\* A read changes a tag's time of last read, its statistics and its location
\* only, and leaves it typed and in order (a departed tag may have statistics
\* again: it is about to arrive).
LEMMA LocatedGood ==
  ASSUME NEW tag, KnownTag(tag), NEW read \in Read, NEW rep \in ReportInProgress,
         rep.device \in Device, NEW cfg
  PROVE  LET new == Located(tag, read, rep, cfg)
         IN /\ new \in Tag
            /\ GoodStats(new.stats)
            /\ new.state = tag.state
            /\ new.lastArrived = tag.lastArrived
            /\ new.lastDeparted = tag.lastDeparted
            /\ new.lastRead >= tag.lastRead
            /\ \A l \in Location : new.stats[l].lastRead <= new.lastRead
<1> DEFINE loc   == <<rep.device, read.antenna>>
           last  == NewLastRead(tag, read, rep.offset)
           noted == [tag EXCEPT !.lastRead = last]
           stats == [tag.stats EXCEPT ![loc] = Updated(@, read, rep.offset)]
           where == IF MovesTo(tag.loc, loc, stats, cfg, rep.reference)
                    THEN loc ELSE tag.loc
           moved == [state |-> tag.state, loc |-> where, lastRead |-> last,
                     lastArrived |-> tag.lastArrived,
                     lastDeparted |-> tag.lastDeparted, stats |-> stats]
<1>1. /\ tag \in Tag
      /\ GoodStats(tag.stats)
      /\ \A l \in Location : tag.stats[l].lastRead <= tag.lastRead
      /\ rep.offset \in Int
  BY DEF KnownTag, InOrder, ReportInProgress
<1>2. /\ last \in Int
      /\ last >= tag.lastRead
      /\ read.lastSeen # Missing => last >= Stamp(read, rep.offset)
  BY <1>1, NewLastReadBounds
<1>3. noted = [state |-> tag.state, loc |-> tag.loc, lastRead |-> last,
               lastArrived |-> tag.lastArrived,
               lastDeparted |-> tag.lastDeparted, stats |-> tag.stats]
  BY <1>1 DEF Tag
<1>4. \A l \in Location : tag.stats[l].lastRead \in Int /\ tag.lastRead \in Int
  BY <1>1 DEF GoodStats, TagStats, Tag
<1>5. CASE read.antenna = Missing
  <2>1. Located(tag, read, rep, cfg) = noted
    BY <1>5 DEF Located
  <2>2. \A l \in Location : tag.stats[l].lastRead <= last
    BY <1>1, <1>2, <1>4
  <2> HIDE DEF last, noted
  <2> QED BY <1>1, <1>2, <1>3, <2>1, <2>2 DEF Tag
<1>6. CASE read.antenna # Missing
  <2>1. loc \in Location
    BY <1>6 DEF Location, Read
  <2>2. /\ tag.stats[loc] \in TagStats
        /\ GoodBuffer(tag.stats[loc].rssi)
    BY <1>1, <2>1 DEF GoodStats
  <2> DEFINE upd == Updated(tag.stats[loc], read, rep.offset)
  <2>a. /\ upd \in TagStats
        /\ GoodBuffer(upd.rssi)
        /\ \/ upd.lastRead = tag.stats[loc].lastRead
           \/ /\ read.lastSeen # Missing
              /\ upd.lastRead = Stamp(read, rep.offset)
    BY <1>1, <2>2, UpdatedGood
  <2>b. tag.stats[loc].lastRead <= last
    BY <1>1, <1>2, <1>4, <2>1
  <2>3. /\ upd \in TagStats
        /\ GoodBuffer(upd.rssi)
        /\ upd.lastRead <= last
    <3> HIDE DEF last, upd
    <3> QED BY <1>2, <2>a, <2>b
  <2>4. /\ GoodStats(stats)
        /\ \A l \in Location : stats[l].lastRead <= last
    BY <1>1, <1>2, <1>4, <2>1, <2>3 DEF GoodStats
  <2>5. stats \in [Location -> TagStats] /\ where \in Place /\ tag.state \in TagState
        /\ tag.lastArrived \in Int /\ tag.lastDeparted \in Int
    BY <1>1, <2>1, <2>4 DEF GoodStats, Tag, Place
  <2>6. Located(tag, read, rep, cfg) = [noted EXCEPT !.stats = stats, !.loc = where]
    BY <1>3, <1>6 DEF Located
  <2> HIDE DEF last, stats, where, noted
  <2>7. Located(tag, read, rep, cfg) = moved
    BY <1>3, <2>6
  <2> QED BY <1>2, <2>4, <2>5, <2>7 DEF Tag
<1> QED BY <1>5, <1>6

\* After the deferred state change the tag is in the inventory for good.
LEMMA SettledGood ==
  ASSUME NEW tag, KnownTag(tag), NEW read \in Read, NEW rep \in ReportInProgress,
         rep.device \in Device, NEW cfg
  PROVE  LET new == Settled(tag, Located(tag, read, rep, cfg))
         IN GoodTag(new) /\ new.state = "Present"
<1> DEFINE mid == Located(tag, read, rep, cfg)
           new == Settled(tag, mid)
<1> SUFFICES GoodTag(new) /\ new.state = "Present"
  OBVIOUS
<1>1. /\ mid \in Tag
      /\ GoodStats(mid.stats)
      /\ mid.state = tag.state
      /\ mid.lastArrived = tag.lastArrived
      /\ mid.lastRead >= tag.lastRead
      /\ \A l \in Location : mid.stats[l].lastRead <= mid.lastRead
  BY LocatedGood
<1>2. tag \in Tag /\ tag.lastArrived <= tag.lastRead /\ tag.lastRead >= 0
  BY DEF KnownTag, InOrder
<1>3. /\ tag.state \in TagState
      /\ {tag.lastArrived, tag.lastRead, mid.lastRead, mid.lastDeparted, mid.lastArrived}
           \subseteq Int
      /\ mid.loc \in Place
      /\ mid.stats \in [Location -> TagStats]
      /\ mid = [state |-> mid.state, loc |-> mid.loc, lastRead |-> mid.lastRead,
                lastArrived |-> mid.lastArrived,
                lastDeparted |-> mid.lastDeparted, stats |-> mid.stats]
  BY <1>1, <1>2 DEF Tag
<1> HIDE DEF mid
<1>4. CASE tag.state \in {"Unknown", "Departed"}
  <2>1. new = [state |-> "Present", loc |-> mid.loc, lastRead |-> mid.lastRead,
               lastArrived |-> mid.lastRead, lastDeparted |-> mid.lastDeparted,
               stats |-> mid.stats]
    BY <1>3, <1>4 DEF Settled, SetStateAt
  <2> HIDE DEF new
  <2> QED BY <1>1, <1>3, <2>1 DEF GoodTag, KnownTag, InOrder, Tag, TagState
<1>5. CASE tag.state \notin {"Unknown", "Departed"}
  <2>1. new = mid /\ mid.state = "Present"
    BY <1>1, <1>3, <1>5 DEF Settled, TagState
  <2> HIDE DEF new
  <2> QED BY <1>1, <1>2, <1>3, <2>1 DEF GoodTag, KnownTag, InOrder
<1> QED BY <1>4, <1>5

(***************************************************************************)
(* Snapshots: what a good tag is saved as restores a good tag, and saving  *)
(* what was restored gives back what was saved, but for the alias.         *)
(***************************************************************************)
GoodStatic(s) == IsStaticTag(s) /\ GoodTag(AsTag(s))

\* An alias is a label.
LEMMA GetAliasLabel ==
  ASSUME NEW cfg \in ProcessorConfig, NEW loc \in Place
  PROVE  GetAlias(cfg, loc) \in Label
<1>1. PICK S \in SUBSET Place : cfg.aliases \in [S -> Label \cup {EmptyAlias}]
  BY DEF ProcessorConfig
<1> QED BY <1>1 DEF GetAlias, Label

\* A new buffer holds no reading.
LEMMA NewBufferEmpty == BufLen(NewCircularBuffer) = 0
BY DEF NewCircularBuffer, BufLen

\* The statistics a snapshot keeps are typed.
LEMMA StaticStatsType ==
  ASSUME NEW stats, GoodStats(stats)
  PROVE  IsMap(StaticStats(stats), Location, StaticTagStats)
<1> DEFINE kept == {l \in Location : BufLen(stats[l].rssi) > 0}
           mean(l) == stats[l].rssi.total \div BufLen(stats[l].rssi)
<1>1. \A l \in kept : stats[l].lastRead \in Int /\ mean(l) \in Int
  <2> TAKE l \in kept
  <2>1. stats[l] \in TagStats /\ GoodBuffer(stats[l].rssi) /\ BufLen(stats[l].rssi) > 0
    BY DEF GoodStats
  <2>2. stats[l].rssi.total \in Int /\ BufLen(stats[l].rssi) \in Nat
    BY <2>1 DEF GoodBuffer, Buffer, BufLen
  <2>3. \A t \in Int, n \in Nat : n > 0 => t \div n \in Int
    OBVIOUS
  <2> QED BY <2>1, <2>2, <2>3 DEF TagStats
<1>2. StaticStats(stats) = [l \in kept |-> [lastRead |-> stats[l].lastRead,
                                            mean |-> mean(l)]]
  BY DEF StaticStats
<1>3. kept \subseteq Location
  OBVIOUS
<1> HIDE DEF kept, mean
<1> QED BY <1>1, <1>2, <1>3 DEF IsMap, StaticTagStats

\* Statistics restored from a snapshot are well formed, as old as they were,
\* and each has one reading.
LEMMA AsTagStats ==
  ASSUME NEW s, IsMap(s.stats, Location, StaticTagStats)
  PROVE  /\ GoodStats(AsTag(s).stats)
         /\ \A l \in Location :
              AsTag(s).stats[l].lastRead = IF l \in DOMAIN s.stats
                                           THEN s.stats[l].lastRead ELSE 0
         /\ \A l \in Location :
              IF l \in DOMAIN s.stats
              THEN AsTag(s).stats[l].rssi =
                     [values |-> <<s.stats[l].mean>>, total |-> s.stats[l].mean,
                      index |-> 0]
              ELSE AsTag(s).stats[l] = NewTagStats
<1> DEFINE restored(l) ==
             IF l \in DOMAIN s.stats
             THEN [lastRead |-> s.stats[l].lastRead,
                   rssi |-> AddValue(NewCircularBuffer, s.stats[l].mean)]
             ELSE NewTagStats
<1>1. AsTag(s).stats = [l \in Location |-> restored(l)]
  BY DEF AsTag
<1>2. \A l \in DOMAIN s.stats : s.stats[l].lastRead \in Int /\ s.stats[l].mean \in Int
  BY DEF IsMap, StaticTagStats
<1>3. \A v \in Int : AddValue(NewCircularBuffer, v) =
                       [values |-> <<v>>, total |-> v, index |-> 0]
  BY WindowSizeAssumption DEF AddValue, NewCircularBuffer, BufLen
<1>4. \A v \in Int : GoodBuffer(AddValue(NewCircularBuffer, v))
  BY NewBufferGood, AddValueGood
<1>5. NewTagStats \in TagStats /\ GoodBuffer(NewTagStats.rssi) /\ NewTagStats.lastRead = 0
  BY NewBufferGood DEF NewTagStats, TagStats, GoodBuffer
<1>6. \A l \in Location : restored(l) \in TagStats /\ GoodBuffer(restored(l).rssi)
  BY <1>2, <1>4, <1>5 DEF TagStats, GoodBuffer
<1>7. GoodStats(AsTag(s).stats)
  BY <1>1, <1>6 DEF GoodStats
<1> QED BY <1>1, <1>2, <1>3, <1>5, <1>7

\* A good tag is saved as a good snapshot of it.
LEMMA StaticTagGood ==
  ASSUME NEW tag, GoodTag(tag), NEW cfg \in ProcessorConfig
  PROVE  /\ GoodStatic(StaticTag(tag, cfg))
         /\ StaticTag(tag, cfg).state = tag.state
<1> DEFINE st == StaticTag(tag, cfg)
           back == AsTag(st)
<1>1. /\ tag \in Tag /\ GoodStats(tag.stats) /\ InOrder(tag)
      /\ tag.lastRead >= 0 /\ tag.state # "Unknown"
      /\ tag.state = "Departed" => tag.stats = EmptyStats
  BY DEF GoodTag, KnownTag
<1>2. /\ tag.loc \in Place /\ tag.state \in TagState
      /\ tag.lastRead \in Int /\ tag.lastArrived \in Int /\ tag.lastDeparted \in Int
  BY <1>1 DEF Tag
<1>3. st = [loc |-> tag.loc, alias |-> GetAlias(cfg, tag.loc), lastRead |-> tag.lastRead,
            lastArrived |-> tag.lastArrived, lastDeparted |-> tag.lastDeparted,
            state |-> tag.state, stats |-> StaticStats(tag.stats)]
  BY DEF StaticTag
<1> HIDE DEF st
<1>4. IsMap(st.stats, Location, StaticTagStats)
  BY <1>1, <1>3, StaticStatsType
<1>5. IsStaticTag(st)
  BY <1>2, <1>3, <1>4, GetAliasLabel DEF IsStaticTag
<1>6. back = [state |-> tag.state, loc |-> tag.loc, lastRead |-> tag.lastRead,
              lastArrived |-> tag.lastArrived, lastDeparted |-> tag.lastDeparted,
              stats |-> back.stats]
  BY <1>3 DEF AsTag
<1>7. /\ GoodStats(back.stats)
      /\ \A l \in Location : back.stats[l].lastRead = IF l \in DOMAIN st.stats
                                                     THEN st.stats[l].lastRead ELSE 0
      /\ \A l \in Location : l \notin DOMAIN st.stats => back.stats[l] = NewTagStats
  BY <1>4, AsTagStats
<1>8. \A l \in DOMAIN st.stats : /\ l \in Location
                                 /\ BufLen(tag.stats[l].rssi) > 0
                                 /\ st.stats[l].lastRead = tag.stats[l].lastRead
  BY <1>3 DEF StaticStats
<1> HIDE DEF back
<1>9. \A l \in Location : back.stats[l].lastRead <= tag.lastRead
  BY <1>1, <1>7, <1>8 DEF InOrder
<1>10. back.stats \in [Location -> TagStats]
  BY <1>7 DEF GoodStats
<1>11. back \in Tag /\ InOrder(back)
  BY <1>1, <1>2, <1>6, <1>9, <1>10 DEF Tag, InOrder
<1>12. tag.state = "Departed" => back.stats = EmptyStats
  <2> SUFFICES ASSUME tag.state = "Departed" PROVE back.stats = EmptyStats
    OBVIOUS
  <2>1. \A l \in Location : tag.stats[l].rssi = NewCircularBuffer
    BY <1>1 DEF EmptyStats, NewTagStats
  <2>2. \A l \in Location : l \notin DOMAIN st.stats
    BY <1>8, <2>1, NewBufferEmpty
  <2>3. \A l \in Location : back.stats[l] = NewTagStats
    BY <1>7, <2>2
  <2> QED BY <1>10, <2>3 DEF EmptyStats
<1>13. GoodTag(back)
  BY <1>1, <1>6, <1>7, <1>11, <1>12 DEF GoodTag, KnownTag
<1>14. st.state = tag.state
  BY <1>3
<1> QED BY <1>5, <1>13, <1>14 DEF GoodStatic, st, back

\* A buffer that was given its first reading holds one.
LEMMA OneReading ==
  ASSUME NEW m \in Int
  PROVE  BufLen([values |-> <<m>>, total |-> m, index |-> 0]) = 1
BY DEF BufLen

\* Saving a tag that was restored from a snapshot gives the snapshot back:
\* the mean of the one restored reading is that reading.
LEMMA RoundTrip ==
  ASSUME NEW s, IsStaticTag(s), NEW cfg
  PROVE  s = [StaticTag(AsTag(s), cfg) EXCEPT !.alias = s.alias]
<1> DEFINE tag  == AsTag(s)
           kept == {l \in Location : BufLen(tag.stats[l].rssi) > 0}
<1>1. IsMap(s.stats, Location, StaticTagStats)
  BY DEF IsStaticTag
<1>a. \A l \in DOMAIN s.stats : s.stats[l].mean \in Int
  BY <1>1 DEF IsMap, StaticTagStats
<1>2. \A l \in Location :
        /\ tag.stats[l].lastRead = IF l \in DOMAIN s.stats
                                   THEN s.stats[l].lastRead ELSE 0
        /\ IF l \in DOMAIN s.stats
           THEN tag.stats[l].rssi = [values |-> <<s.stats[l].mean>>,
                                     total |-> s.stats[l].mean, index |-> 0]
           ELSE tag.stats[l] = NewTagStats
  BY <1>1, AsTagStats
<1>3. /\ tag.loc = s.loc /\ tag.lastRead = s.lastRead /\ tag.state = s.state
      /\ tag.lastArrived = s.lastArrived /\ tag.lastDeparted = s.lastDeparted
  BY DEF AsTag
<1> HIDE DEF tag
<1>4. \A l \in Location : l \in DOMAIN s.stats <=> BufLen(tag.stats[l].rssi) > 0
  <2> TAKE l \in Location
  <2>1. CASE l \in DOMAIN s.stats
    <3>1. tag.stats[l].rssi = [values |-> <<s.stats[l].mean>>,
                               total |-> s.stats[l].mean, index |-> 0]
      BY <1>2, <2>1
    <3> QED BY <1>a, <2>1, <3>1, OneReading
  <2>2. CASE l \notin DOMAIN s.stats
    <3>0. tag.stats[l] = NewTagStats
      BY <1>2, <2>2
    <3>1. tag.stats[l].rssi = NewCircularBuffer
      BY <3>0 DEF NewTagStats
    <3>2. BufLen(tag.stats[l].rssi) = 0
      BY <3>1, NewBufferEmpty
    <3> QED BY <2>2, <3>2
  <2> QED BY <2>1, <2>2
<1>5. kept = DOMAIN s.stats
  BY <1>1, <1>4 DEF IsMap
<1>6. \A l \in DOMAIN s.stats :
        s.stats[l] = [lastRead |-> tag.stats[l].lastRead,
                      mean |-> tag.stats[l].rssi.total \div BufLen(tag.stats[l].rssi)]
  <2> TAKE l \in DOMAIN s.stats
  <2>1. l \in Location /\ s.stats[l] \in StaticTagStats
    BY <1>1 DEF IsMap
  <2>2. /\ tag.stats[l].lastRead = s.stats[l].lastRead
        /\ tag.stats[l].rssi = [values |-> <<s.stats[l].mean>>,
                                total |-> s.stats[l].mean, index |-> 0]
    BY <1>2, <2>1
  <2>4. /\ tag.stats[l].rssi.total = s.stats[l].mean
        /\ BufLen(tag.stats[l].rssi) = 1
    BY <1>a, <2>2, OneReading
  <2>3. s.stats[l].mean \div 1 = s.stats[l].mean
    BY <2>1 DEF StaticTagStats
  <2> QED BY <2>1, <2>2, <2>3, <2>4 DEF StaticTagStats
<1>7. StaticStats(tag.stats) =
        [l \in kept |-> [lastRead |-> tag.stats[l].lastRead,
                         mean |-> tag.stats[l].rssi.total \div BufLen(tag.stats[l].rssi)]]
  BY DEF StaticStats
<1>8. s.stats = [l \in DOMAIN s.stats |-> s.stats[l]]
  BY <1>1 DEF IsMap
<1>9. StaticStats(tag.stats) = s.stats
  <2> HIDE DEF kept
  <2> QED BY <1>5, <1>6, <1>7, <1>8
<1>10. StaticTag(tag, cfg) =
         [loc |-> s.loc, alias |-> GetAlias(cfg, tag.loc), lastRead |-> s.lastRead,
          lastArrived |-> s.lastArrived, lastDeparted |-> s.lastDeparted,
          state |-> s.state, stats |-> s.stats]
  BY <1>3, <1>9 DEF StaticTag
<1>11. s = [loc |-> s.loc, alias |-> s.alias, lastRead |-> s.lastRead,
            lastArrived |-> s.lastArrived, lastDeparted |-> s.lastDeparted,
            state |-> s.state, stats |-> s.stats]
  BY DEF IsStaticTag
<1> QED BY <1>10, <1>11 DEF tag

(***************************************************************************)
(* The inductive invariant.  The properties of TagProcessor speak of the   *)
(* inventory and the cache file; a step may put the snapshot in the place  *)
(* of either, so all three tables must be good and agree with what was     *)
(* told, and a report that has generated no event must have changed nobody.*)
(***************************************************************************)
TablesGood ==
  /\ \A e \in DOMAIN inventory : GoodTag(inventory[e])
  /\ \A e \in DOMAIN snapshot : GoodStatic(snapshot[e])
  /\ \A e \in DOMAIN saved : GoodStatic(saved[e])

ToldRight ==
  /\ InventoryAsTold
  /\ SavedAsTold
  /\ PresentIn(snapshot) = told
  /\ report.busy /\ ~report.dirty => report.batch = told

IInv == TypeOK /\ TablesGood /\ ToldRight /\ SnapshotCurrent

\* A valid configuration is taken over as a typed one.
LEMMA NewConfigType ==
  ASSUME NEW c \in Configs
  PROVE  NewConfig(c) \in ProcessorConfig
<1>1. c \in Setting
  BY InputAssumption
<1>2. /\ c.slope \in Int /\ c.threshold \in Int /\ c.holdoff \in Int
      /\ c.departedThreshold \in Nat /\ c.ageOut \in Nat /\ c.adjust \in BOOLEAN
      /\ c.aliases \in UNION {[S -> Label \cup {EmptyAlias}] : S \in SUBSET Place}
  BY <1>1 DEF Setting
<1>3. NewMobilityProfile(c.slope, c.threshold, c.holdoff) \in Profile
  <2>1. c.threshold - c.slope * c.holdoff \in Int
    BY <1>2
  <2> QED BY <1>2, <2>1 DEF NewMobilityProfile, Profile
<1> QED BY <1>2, <1>3 DEF NewConfig, ProcessorConfig

\* Between reports the report in progress is typed.
LEMMA IdleType == Idle \in ReportInProgress
BY DEF Idle, ReportInProgress

\* The invariant holds of the empty inventory a first start makes.
LEMMA InitInv == Init => IInv
<1> SUFFICES ASSUME Init PROVE IInv
  OBVIOUS
<1>1. config \in ProcessorConfig
  BY NewConfigType DEF Init
<1>2. /\ DOMAIN NoTags = {}
      /\ NoTags \in [DOMAIN NoTags -> Tag]
      /\ NoTags = [e \in DOMAIN NoTags |-> NoTags[e]]
  BY DEF NoTags
<1>3. TypeOK
  <2>1. now \in Nat /\ report \in ReportInProgress /\ ~report.busy
        /\ told \in SUBSET EPC /\ events = {}
    BY IdleType DEF Init, Idle
  <2>2. IsMap(inventory, EPC, Tag) /\ IsSnapshot(snapshot) /\ IsSnapshot(saved)
    BY <1>2 DEF Init, IsMap, IsSnapshot
  <2> QED BY <1>1, <2>1, <2>2 DEF TypeOK
<1>4. TablesGood
  BY <1>2 DEF Init, TablesGood
<1>5. ToldRight
  <2>1. PresentIn(NoTags) = {}
    BY <1>2 DEF PresentIn
  <2> QED BY <2>1 DEF Init, ToldRight, InventoryAsTold, SavedAsTold, Idle
<1>6. SnapshotCurrent
  BY <1>2 DEF Init, SnapshotCurrent
<1> QED BY <1>3, <1>4, <1>5, <1>6 DEF IInv

\* What a table of good tags is saved as.
LEMMA SnapshotGood ==
  ASSUME NEW inv, IsMap(inv, EPC, Tag), \A e \in DOMAIN inv : GoodTag(inv[e]),
         NEW cfg \in ProcessorConfig
  PROVE  /\ IsSnapshot(Snapshot(inv, cfg))
         /\ DOMAIN Snapshot(inv, cfg) = DOMAIN inv
         /\ \A e \in DOMAIN inv : Snapshot(inv, cfg)[e] = StaticTag(inv[e], cfg)
         /\ \A e \in DOMAIN inv : GoodStatic(Snapshot(inv, cfg)[e])
         /\ PresentIn(Snapshot(inv, cfg)) = PresentIn(inv)
<1> DEFINE snap == Snapshot(inv, cfg)
<1>1. snap = [e \in DOMAIN inv |-> StaticTag(inv[e], cfg)]
  BY DEF Snapshot
<1>2. DOMAIN inv \subseteq EPC
  BY DEF IsMap
<1>3. \A e \in DOMAIN inv : GoodStatic(snap[e]) /\ snap[e].state = inv[e].state
  BY <1>1, StaticTagGood
<1> HIDE DEF snap
<1>4. IsSnapshot(snap)
  BY <1>1, <1>2, <1>3 DEF IsSnapshot, GoodStatic
<1>5. PresentIn(snap) = PresentIn(inv)
  BY <1>1, <1>3 DEF PresentIn
<1> QED BY <1>1, <1>3, <1>4, <1>5 DEF snap

\* A snapshot is current right after it is taken.
LEMMA TakenCurrent ==
  ASSUME NEW tag, NEW cfg
  PROVE  StaticTag(tag, cfg) = [StaticTag(tag, cfg) EXCEPT !.alias = StaticTag(tag, cfg).alias]
BY DEF StaticTag

\* Steps that leave tables, report and history alone, whatever they do to
\* clock and configuration.
LEMMA QuietStep ==
  ASSUME IInv, UNCHANGED <<inventory, report, snapshot, saved, told>>,
         now' \in Nat, config' \in ProcessorConfig,
         events' = {} \/ UNCHANGED events
  PROVE  IInv'
<1>1. TypeOK'
  BY DEF IInv, TypeOK, IsMap, IsSnapshot
<1>2. TablesGood'
  BY DEF IInv, TablesGood
<1>3. ToldRight'
  BY DEF IInv, ToldRight, InventoryAsTold, SavedAsTold, PresentIn
<1>4. SnapshotCurrent'
  <2> SUFFICES ASSUME ~report.busy
               PROVE  /\ DOMAIN snapshot = DOMAIN inventory
                      /\ \A e \in DOMAIN inventory :
                           snapshot[e] = [StaticTag(inventory[e], config')
                                            EXCEPT !.alias = snapshot[e].alias]
    BY DEF SnapshotCurrent
  <2>1. /\ DOMAIN snapshot = DOMAIN inventory
        /\ \A e \in DOMAIN inventory :
             snapshot[e] = [StaticTag(inventory[e], config)
                              EXCEPT !.alias = snapshot[e].alias]
    BY DEF IInv, SnapshotCurrent
  <2>2. \A tag, a : [StaticTag(tag, config) EXCEPT !.alias = a] =
                   [StaticTag(tag, config') EXCEPT !.alias = a]
    BY DEF StaticTag
  <2> QED BY <2>1, <2>2
<1> QED BY <1>1, <1>2, <1>3, <1>4 DEF IInv

\* Time passes.
LEMMA TickInv == IInv /\ Tick => IInv'
<1> SUFFICES ASSUME IInv, Tick PROVE IInv'
  OBVIOUS
<1>1. now' \in Nat /\ config' \in ProcessorConfig
  BY DEF IInv, TypeOK, Tick
<1> QED BY <1>1, QuietStep DEF Tick

\* The operator changes the configuration.
LEMMA UpdateConfigInv == IInv /\ UpdateConfig => IInv'
<1> SUFFICES ASSUME IInv, UpdateConfig PROVE IInv'
  OBVIOUS
<1>1. now' \in Nat /\ config' \in ProcessorConfig
  BY NewConfigType DEF IInv, TypeOK, UpdateConfig
<1> QED BY <1>1, QuietStep DEF UpdateConfig

\* A report arrives: its reads are typed, its batch starts as what was told.
LEMMA BeginReportInv == IInv /\ BeginReport => IInv'
<1> SUFFICES ASSUME IInv, BeginReport PROVE IInv'
  OBVIOUS
<1>1. /\ ~report.busy
      /\ UNCHANGED <<now, config, inventory, snapshot, saved, told>>
      /\ events' = {}
  BY DEF BeginReport
<1>2. PICK reads \in Reports, d \in Device, origin \in 0 .. now * MicrosPerMilli :
        \E lastSeen \in Seen(reads) :
          report' = [reads |-> reads, busy |-> TRUE, dirty |-> FALSE,
                     device |-> d, offset |-> OffsetMicros(lastSeen, origin),
                     reference |-> origin \div MicrosPerMilli, batch |-> told]
  BY DEF BeginReport
<1>3. PICK lastSeen \in Seen(reads) :
        report' = [reads |-> reads, busy |-> TRUE, dirty |-> FALSE,
                   device |-> d, offset |-> OffsetMicros(lastSeen, origin),
                   reference |-> origin \div MicrosPerMilli, batch |-> told]
  BY <1>2
<1>4. reads \in Seq(Read)
  BY InputAssumption
<1>5. lastSeen \in Int
  <2>1. CASE lastSeen = 0
    BY <2>1
  <2>2. CASE lastSeen # 0
    <3>1. PICK i \in 1..Len(reads) : lastSeen = reads[i].lastSeen
      BY <2>2 DEF Seen
    <3>2. lastSeen # Missing
      BY <2>2 DEF Seen
    <3>3. reads[i] \in Read
      BY <1>4
    <3> QED BY <3>1, <3>2, <3>3 DEF Read
  <2> QED BY <2>1, <2>2
<1>6. now \in Nat /\ told \in SUBSET EPC
  BY DEF IInv, TypeOK
<1>7. origin \in Int /\ origin \div MicrosPerMilli \in Int
  BY <1>6, TagProcessorAssumption
<1>8. OffsetMicros(lastSeen, origin) \in Int
  BY <1>5, <1>7 DEF OffsetMicros
<1>9. report' \in ReportInProgress /\ report'.device \in Device
  BY <1>3, <1>4, <1>6, <1>7, <1>8 DEF ReportInProgress
<1>10. TypeOK'
  BY <1>1, <1>9 DEF IInv, TypeOK, IsMap, IsSnapshot
<1>11. TablesGood'
  BY <1>1 DEF IInv, TablesGood
<1>12. ToldRight'
  BY <1>1, <1>3 DEF IInv, ToldRight, InventoryAsTold, SavedAsTold, PresentIn
<1>13. SnapshotCurrent'
  BY <1>3 DEF SnapshotCurrent
<1> QED BY <1>10, <1>11, <1>12, <1>13 DEF IInv

\* A read is processed: its tag is good and present, and the batch says so.
LEMMA ProcessDataInv == IInv /\ ProcessData => IInv'
<1> SUFFICES ASSUME IInv, ProcessData PROVE IInv'
  OBVIOUS
<1> DEFINE read == Head(report.reads)
           e    == read.epc
           prev == IF e \in DOMAIN inventory THEN inventory[e] ELSE NewTag
           mid  == Located(prev, read, report, config)
           tag  == Settled(prev, mid)
<1>1. /\ report.busy /\ report.reads # <<>>
      /\ inventory' = [x \in DOMAIN inventory \cup {e} |->
                         IF x = e THEN tag ELSE inventory[x]]
      /\ events' = EventsOf(e, prev, mid, config)
      /\ report' = [report EXCEPT !.reads = Tail(@),
                                  !.dirty = @ \/ events' # {},
                                  !.batch = IF events' = {} THEN @ ELSE @ \cup {e}]
      /\ UNCHANGED <<now, config, snapshot, saved, told>>
  BY DEF ProcessData
<1>2. /\ report \in ReportInProgress /\ report.device \in Device
      /\ IsMap(inventory, EPC, Tag)
      /\ \A x \in DOMAIN inventory : GoodTag(inventory[x])
  BY <1>1 DEF IInv, TypeOK, TablesGood
<1>3. report = [reads |-> report.reads, busy |-> report.busy, dirty |-> report.dirty,
                device |-> report.device, offset |-> report.offset,
                reference |-> report.reference, batch |-> report.batch]
  BY <1>2 DEF ReportInProgress
<1>4. /\ report.reads \in Seq(Read) /\ report.dirty \in BOOLEAN
      /\ report.offset \in Int /\ report.reference \in Int
      /\ report.batch \in SUBSET EPC
  BY <1>2 DEF ReportInProgress
<1>5. read \in Read /\ Tail(report.reads) \in Seq(Read)
  BY <1>1, <1>4
<1>6. e \in EPC
  BY <1>5 DEF Read
<1> HIDE DEF read
<1>7. KnownTag(prev)
  BY <1>2, NewTagKnown DEF GoodTag
<1>8. prev.state \in TagState
  BY <1>7 DEF KnownTag, Tag
<1> HIDE DEF prev
<1>9. GoodTag(tag) /\ tag.state = "Present"
  BY <1>2, <1>5, <1>7, SettledGood
<1>10. /\ prev.state # "Present" => events' # {}
       /\ \A event \in events' : /\ event.type \in {"Arrived", "Moved", "Departed"}
                                 /\ event.epc = e
  <2> HIDE DEF mid, e
  <2>1. CASE prev.state \in {"Unknown", "Departed"}
    <3>1. events' = {ArrivedEvent(e, mid, config)}
      BY <1>1, <2>1 DEF EventsOf
    <3> QED BY <3>1 DEF ArrivedEvent
  <2>2. CASE prev.state = "Present"
    <3> DEFINE moved == MovedEvent(e, mid, GetAlias(config, prev.loc),
                                   GetAlias(config, mid.loc))
    <3>1. events' \subseteq {moved}
      BY <1>1, <2>2 DEF EventsOf
    <3>2. moved.type = "Moved" /\ moved.epc = e
      BY DEF MovedEvent
    <3> QED BY <2>2, <3>1, <3>2
  <2> QED BY <1>8, <2>1, <2>2 DEF TagState
<1> HIDE DEF mid, tag
<1>11. report' = [reads |-> Tail(report.reads), busy |-> report.busy,
                  dirty |-> report.dirty \/ events' # {},
                  device |-> report.device, offset |-> report.offset,
                  reference |-> report.reference,
                  batch |-> IF events' = {} THEN report.batch
                            ELSE report.batch \cup {e}]
  BY <1>1, <1>3
<1>12. TypeOK'
  <2>1. report' \in ReportInProgress /\ report'.device \in Device
    BY <1>2, <1>3, <1>4, <1>5, <1>6, <1>11 DEF ReportInProgress
  <2>2. IsMap(inventory, EPC, Tag)'
    BY <1>1, <1>2, <1>6, <1>9 DEF IsMap, GoodTag, KnownTag
  <2>3. IsSnapshot(snapshot)' /\ IsSnapshot(saved)'
    BY <1>1 DEF IInv, TypeOK, IsSnapshot
  <2> QED BY <1>1, <1>6, <1>10, <2>1, <2>2, <2>3 DEF IInv, TypeOK
<1>13. TablesGood'
  BY <1>1, <1>2, <1>9 DEF IInv, TablesGood
<1>14. ToldRight'
  <2>1. /\ PresentIn(inventory) = report.batch
        /\ PresentIn(saved) = told /\ PresentIn(snapshot) = told
        /\ ~report.dirty => report.batch = told
    BY <1>1 DEF IInv, ToldRight, InventoryAsTold, SavedAsTold
  <2>2. PresentIn(inventory)' = PresentIn(inventory) \cup {e}
    BY <1>1, <1>9 DEF PresentIn
  <2>3. prev.state = "Present" => e \in PresentIn(inventory)
    BY DEF prev, PresentIn, NewTag
  <2>4. PresentIn(inventory)' = report'.batch
    BY <1>10, <1>11, <2>1, <2>2, <2>3
  <2>5. ~report'.dirty => report'.batch = told
    BY <1>4, <1>11, <2>1
  <2>6. report'.busy
    BY <1>1, <1>11
  <2>7. PresentIn(saved)' = told /\ PresentIn(snapshot)' = told
    BY <1>1, <2>1 DEF PresentIn
  <2> QED BY <1>1, <2>4, <2>5, <2>6, <2>7 DEF ToldRight, InventoryAsTold, SavedAsTold
<1>15. SnapshotCurrent'
  BY <1>1, <1>11 DEF SnapshotCurrent
<1> QED BY <1>12, <1>13, <1>14, <1>15 DEF IInv

\* The report ends: what the batch says is what the snapshot shows.
LEMMA EndReportInv == IInv /\ EndReport => IInv'
<1> SUFFICES ASSUME IInv, EndReport PROVE IInv'
  OBVIOUS
<1>1. /\ report.busy
      /\ snapshot' = Snapshot(inventory, config)
      /\ saved' = IF report.dirty THEN snapshot' ELSE saved
      /\ told' = report.batch
      /\ report' = Idle
      /\ events' = {}
      /\ UNCHANGED <<now, config, inventory>>
  BY DEF EndReport
<1>2. /\ IsMap(inventory, EPC, Tag) /\ config \in ProcessorConfig
      /\ \A e \in DOMAIN inventory : GoodTag(inventory[e])
      /\ report \in ReportInProgress
  BY DEF IInv, TypeOK, TablesGood
<1>3. /\ IsSnapshot(snapshot')
      /\ DOMAIN snapshot' = DOMAIN inventory
      /\ \A e \in DOMAIN inventory : snapshot'[e] = StaticTag(inventory[e], config)
      /\ \A e \in DOMAIN inventory : GoodStatic(snapshot'[e])
      /\ PresentIn(snapshot') = PresentIn(inventory)
  BY <1>1, <1>2, SnapshotGood
<1>4. ~report'.busy /\ report' \in ReportInProgress
  BY <1>1, IdleType DEF Idle
<1>5. TypeOK'
  <2>1. IsSnapshot(saved')
    BY <1>1, <1>3 DEF IInv, TypeOK
  <2>2. told' \in SUBSET EPC
    BY <1>1, <1>2 DEF ReportInProgress
  <2> QED BY <1>1, <1>3, <1>4, <2>1, <2>2 DEF IInv, TypeOK, IsMap, IsSnapshot
<1>6. TablesGood'
  BY <1>1, <1>2, <1>3 DEF IInv, TablesGood
<1>7. ToldRight'
  <2>1. /\ PresentIn(inventory) = report.batch
        /\ PresentIn(saved) = told
        /\ ~report.dirty => report.batch = told
    BY <1>1 DEF IInv, ToldRight, InventoryAsTold, SavedAsTold
  <2>2. PresentIn(inventory)' = told' /\ PresentIn(snapshot)' = told'
    BY <1>1, <1>3, <2>1 DEF PresentIn
  <2>3. PresentIn(saved)' = told'
    BY <1>1, <2>1, <2>2 DEF PresentIn
  <2> QED BY <1>4, <2>2, <2>3 DEF ToldRight, InventoryAsTold, SavedAsTold
<1>8. SnapshotCurrent'
  BY <1>1, <1>3, TakenCurrent DEF SnapshotCurrent
<1> QED BY <1>5, <1>6, <1>7, <1>8 DEF IInv

\* The sweeps put a new table of good tags in place and save it at once.
LEMMA SweepStep ==
  ASSUME IInv, ~report.busy,
         IsMap(inventory', EPC, Tag),
         \A e \in DOMAIN inventory' : GoodTag(inventory'[e]),
         PresentIn(inventory') = told', told' \in SUBSET EPC,
         snapshot' = Snapshot(inventory', config), saved' = snapshot',
         UNCHANGED <<now, config, report>>,
         \A event \in events' : /\ event.type \in {"Arrived", "Moved", "Departed"}
                                /\ event.epc \in EPC
  PROVE  IInv'
<1>1. config \in ProcessorConfig
  BY DEF IInv, TypeOK
<1>2. /\ IsSnapshot(snapshot')
      /\ DOMAIN snapshot' = DOMAIN inventory'
      /\ \A e \in DOMAIN inventory' : snapshot'[e] = StaticTag(inventory'[e], config)
      /\ \A e \in DOMAIN inventory' : GoodStatic(snapshot'[e])
      /\ PresentIn(snapshot') = PresentIn(inventory')
  BY <1>1, SnapshotGood
<1>3. TypeOK'
  BY <1>2 DEF IInv, TypeOK
<1>4. TablesGood'
  BY <1>2 DEF TablesGood
<1>5. ToldRight'
  BY <1>2 DEF ToldRight, InventoryAsTold, SavedAsTold, PresentIn
<1>6. SnapshotCurrent'
  BY <1>2, TakenCurrent DEF SnapshotCurrent
<1> QED BY <1>3, <1>4, <1>5, <1>6 DEF IInv

\* A tag whose last read is past departs as a good tag without statistics.
LEMMA DepartedGood ==
  ASSUME NEW tag, GoodTag(tag), NEW at \in Nat, tag.lastRead < at
  PROVE  LET new == [SetStateAt(tag, "Departed", at) EXCEPT !.stats = EmptyStats]
         IN GoodTag(new) /\ new.state = "Departed"
<1> DEFINE new == [SetStateAt(tag, "Departed", at) EXCEPT !.stats = EmptyStats]
           gone == [state |-> "Departed", loc |-> tag.loc, lastRead |-> tag.lastRead,
                    lastArrived |-> tag.lastArrived, lastDeparted |-> at,
                    stats |-> EmptyStats]
<1>1. tag \in Tag /\ tag.lastRead >= 0 /\ tag.lastArrived <= tag.lastRead
  BY DEF GoodTag, KnownTag, InOrder
<1>2. new = gone
  <2> DEFINE left == SetStateAt(tag, "Departed", at)
  <2>1. /\ tag = [state |-> tag.state, loc |-> tag.loc, lastRead |-> tag.lastRead,
                  lastArrived |-> tag.lastArrived, lastDeparted |-> tag.lastDeparted,
                  stats |-> tag.stats]
        /\ {tag.lastRead, tag.lastArrived, tag.lastDeparted, at} \subseteq Int
    BY <1>1 DEF Tag
  <2>2. left = [tag EXCEPT !.state = "Departed", !.lastDeparted = at]
    <3>1. [tag EXCEPT !.lastArrived = tag.lastArrived] = tag
      BY <2>1
    <3> QED BY <2>1, <3>1 DEF SetStateAt
  <2>3. left = [state |-> "Departed", loc |-> tag.loc, lastRead |-> tag.lastRead,
                lastArrived |-> tag.lastArrived, lastDeparted |-> at,
                stats |-> tag.stats]
    BY <2>1, <2>2
  <2> HIDE DEF left
  <2> QED BY <2>3 DEF left
<1>3. gone \in Tag
  BY <1>1, EmptyStatsGood DEF Tag, TagState
<1>4. \A l \in Location : EmptyStats[l].lastRead = 0
  BY DEF EmptyStats, NewTagStats
<1>5. GoodTag(gone)
  BY <1>1, <1>3, <1>4, EmptyStatsGood DEF GoodTag, KnownTag, InOrder, Tag
<1> QED BY <1>2, <1>5

\* The departed sweep: the tags that departed are no longer told present.
LEMMA AggregateDepartedInv == IInv /\ AggregateDeparted => IInv'
<1> SUFFICES ASSUME IInv, AggregateDeparted PROVE IInv'
  OBVIOUS
<1> DEFINE left(e) == [SetStateAt(inventory[e], "Departed", now) EXCEPT !.stats = EmptyStats]
<1>1. /\ ~report.busy
      /\ inventory' = [e \in DOMAIN inventory |->
                         IF e \in ToDepart THEN left(e) ELSE inventory[e]]
      /\ events' = {DepartedEvent(e, inventory[e], now, config) : e \in ToDepart}
      /\ snapshot' = Snapshot(inventory', config) /\ saved' = snapshot'
      /\ told' = told \ ToDepart
      /\ UNCHANGED <<now, config, report>>
  BY DEF AggregateDeparted
<1>2. /\ IsMap(inventory, EPC, Tag) /\ now \in Nat /\ told \in SUBSET EPC
      /\ config.departedThreshold \in Nat
      /\ \A e \in DOMAIN inventory : GoodTag(inventory[e])
      /\ PresentIn(inventory) = told
  BY <1>1 DEF IInv, TypeOK, ProcessorConfig, TablesGood, ToldRight, InventoryAsTold
<1>3. \A e \in ToDepart : GoodTag(left(e)) /\ left(e).state = "Departed"
  <2> TAKE e \in ToDepart
  <2>1. /\ e \in DOMAIN inventory
        /\ inventory[e].lastRead < now - config.departedThreshold
    BY DEF ToDepart
  <2>2. inventory[e].lastRead \in Int /\ GoodTag(inventory[e])
    BY <1>2, <2>1 DEF GoodTag, KnownTag, Tag
  <2>3. inventory[e].lastRead < now
    BY <1>2, <2>1, <2>2
  <2> QED BY <1>2, <2>2, <2>3, DepartedGood
<1> HIDE DEF left
<1>4. \A e \in DOMAIN inventory' : GoodTag(inventory'[e])
  BY <1>1, <1>2, <1>3
<1>5. IsMap(inventory', EPC, Tag)
  BY <1>1, <1>2, <1>4 DEF IsMap, GoodTag, KnownTag
<1>6. PresentIn(inventory') = told'
  <2>1. \A e \in DOMAIN inventory :
          inventory'[e].state = IF e \in ToDepart THEN "Departed" ELSE inventory[e].state
    BY <1>1, <1>3
  <2>2. DOMAIN inventory' = DOMAIN inventory
    BY <1>1
  <2> QED BY <1>1, <1>2, <2>1, <2>2 DEF PresentIn
<1>7. \A event \in events' : /\ event.type \in {"Arrived", "Moved", "Departed"}
                             /\ event.epc \in EPC
  <2>1. ToDepart \subseteq EPC
    BY <1>2 DEF ToDepart, IsMap
  <2> QED BY <1>1, <2>1 DEF DepartedEvent
<1> QED BY <1>1, <1>2, <1>4, <1>5, <1>6, <1>7, SweepStep

\* The age-out sweep: only departed tags go, so none that was told present.
LEMMA AgeOutInv == IInv /\ AgeOut => IInv'
<1> SUFFICES ASSUME IInv, AgeOut PROVE IInv'
  OBVIOUS
<1>1. /\ ~report.busy
      /\ inventory' = [e \in DOMAIN inventory \ ToAgeOut |-> inventory[e]]
      /\ snapshot' = Snapshot(inventory', config) /\ saved' = snapshot'
      /\ events' = {}
      /\ UNCHANGED <<now, config, report, told>>
  BY DEF AgeOut
<1>2. /\ IsMap(inventory, EPC, Tag) /\ told \in SUBSET EPC
      /\ \A e \in DOMAIN inventory : GoodTag(inventory[e])
      /\ PresentIn(inventory) = told
  BY <1>1 DEF IInv, TypeOK, TablesGood, ToldRight, InventoryAsTold
<1>3. IsMap(inventory', EPC, Tag) /\ \A e \in DOMAIN inventory' : GoodTag(inventory'[e])
  BY <1>1, <1>2 DEF IsMap
<1>4. PresentIn(inventory') = told'
  BY <1>1, <1>2 DEF PresentIn, ToAgeOut
<1> QED BY <1>1, <1>2, <1>3, <1>4, SweepStep

\* Restarting from a snapshot in which exactly the tags told to be present
\* are present.
LEMMA LoadStep ==
  ASSUME IInv, NEW file, IsSnapshot(file),
         \A e \in DOMAIN file : GoodStatic(file[e]),
         PresentIn(file) = told, Load(file)
  PROVE  IInv'
<1>1. /\ inventory' = [e \in DOMAIN file |-> AsTag(file[e])]
      /\ snapshot' = file /\ saved' = file /\ report' = Idle /\ events' = {}
      /\ UNCHANGED <<now, told>>
  BY DEF Load, Restored
<1>2. config' \in ProcessorConfig
  BY NewConfigType DEF Load
<1>3. DOMAIN file \subseteq EPC
  BY DEF IsSnapshot
<1>4. \A e \in DOMAIN file : /\ IsStaticTag(file[e])
                             /\ GoodTag(AsTag(file[e]))
                             /\ AsTag(file[e]).state = file[e].state
  BY DEF GoodStatic, AsTag
<1>5. report' \in ReportInProgress /\ ~report'.busy
  BY <1>1, IdleType DEF Idle
<1>6. TypeOK'
  <2>1. IsMap(inventory, EPC, Tag)'
    BY <1>1, <1>3, <1>4 DEF IsMap, GoodTag, KnownTag
  <2> QED BY <1>1, <1>2, <1>5, <2>1 DEF IInv, TypeOK, IsSnapshot
<1>7. TablesGood'
  BY <1>1, <1>4 DEF TablesGood
<1>8. ToldRight'
  <2>1. PresentIn(inventory)' = told' /\ PresentIn(snapshot)' = told' /\ PresentIn(saved)' = told'
    BY <1>1, <1>4 DEF PresentIn
  <2> QED BY <1>5, <2>1 DEF ToldRight, InventoryAsTold, SavedAsTold
<1>9. SnapshotCurrent'
  <2>1. \A e \in DOMAIN file :
          file[e] = [StaticTag(AsTag(file[e]), config') EXCEPT !.alias = file[e].alias]
    BY <1>4, RoundTrip
  <2> QED BY <1>1, <2>1 DEF SnapshotCurrent
<1> QED BY <1>6, <1>7, <1>8, <1>9 DEF IInv

\* The service stops or crashes, and starts from its file.
LEMMA RestartInv == IInv /\ Restart => IInv'
<1> SUFFICES ASSUME IInv, Restart PROVE IInv'
  OBVIOUS
<1>1. /\ IsSnapshot(snapshot) /\ \A e \in DOMAIN snapshot : GoodStatic(snapshot[e])
      /\ IsSnapshot(saved) /\ \A e \in DOMAIN saved : GoodStatic(saved[e])
      /\ PresentIn(snapshot) = told /\ PresentIn(saved) = told
  BY DEF IInv, TypeOK, TablesGood, ToldRight, SavedAsTold
<1>2. CASE StopAndStart
  BY <1>1, <1>2, LoadStep DEF StopAndStart
<1>3. CASE CrashAndStart
  BY <1>1, <1>3, LoadStep DEF CrashAndStart
<1> QED BY <1>2, <1>3 DEF Restart

\* Nothing happens.
LEMMA StutterInv == IInv /\ UNCHANGED vars => IInv'
<1> SUFFICES ASSUME IInv, UNCHANGED vars PROVE IInv'
  OBVIOUS
<1>1. now' \in Nat /\ config' \in ProcessorConfig
  BY DEF IInv, TypeOK, vars
<1>2. UNCHANGED <<inventory, report, snapshot, saved, told, events>>
  BY DEF vars
<1>3. TypeOK'
  BY DEF IInv, TypeOK, vars, IsMap, IsSnapshot
<1>4. TablesGood' /\ ToldRight' /\ SnapshotCurrent'
  BY DEF IInv, TablesGood, ToldRight, InventoryAsTold, SavedAsTold, PresentIn,
         SnapshotCurrent, vars
<1> QED BY <1>3, <1>4 DEF IInv

\* Every step preserves the invariant.
LEMMA NextInv == IInv /\ [Next]_vars => IInv'
BY TickInv, UpdateConfigInv, BeginReportInv, ProcessDataInv, EndReportInv,
   AggregateDepartedInv, AgeOutInv, RestartInv, StutterInv DEF Next, Restart

\* The inductive invariant holds in every reachable state: the tables hold good
\* tags, the history agrees with them, and the snapshot with the inventory.
THEOREM Invariant == Spec => []IInv
<1>1. Init => IInv
  BY InitInv
<1>2. IInv /\ [Next]_vars => IInv'
  BY NextInv
<1> QED BY <1>1, <1>2, PTL DEF Spec

(***************************************************************************)
(* The properties the runs check on small instances.                       *)
(***************************************************************************)

\* Every variable keeps its type, the window of every antenna of every tag
\* included.
THEOREM TypeCorrect == Spec => []TypeOK
<1>1. IInv => TypeOK
  BY DEF IInv
<1> QED BY <1>1, Invariant, PTL

\* The event stream and the inventory agree on which tags are present.
THEOREM EventsTellInventory == Spec => []InventoryAsTold
<1>1. IInv => InventoryAsTold
  BY DEF IInv, ToldRight
<1> QED BY <1>1, Invariant, PTL

\* So do the event stream and the cache file: a restart at any moment brings
\* back the tags that were announced, although the file is written only when
\* there are events.
THEOREM CrashForgetsNothingTold == Spec => []SavedAsTold
<1>1. IInv => SavedAsTold
  BY DEF IInv, ToldRight
<1> QED BY <1>1, Invariant, PTL

NoTagUnknown ==
  \A table \in {inventory, saved} :
     \A e \in DOMAIN table : table[e].state # "Unknown"

\* No path through processData leaves a tag in the state Unknown it was created
\* with (the deferred switch runs on every early return), and no cache file has
\* such a tag.
THEOREM NobodyUnknown == Spec => []NoTagUnknown
<1>1. \A s : GoodStatic(s) => s.state # "Unknown"
  BY DEF GoodStatic, GoodTag, AsTag
<1>2. IInv => NoTagUnknown
  BY <1>1 DEF IInv, TablesGood, GoodTag, NoTagUnknown
<1> QED BY <1>2, Invariant, PTL

\* What a tag's times say of each other, restarts included.
THEOREM TimesStayOrdered == Spec => []TimesOrdered
<1>1. IInv => TimesOrdered
  BY DEF IInv, TablesGood, GoodTag, KnownTag, InOrder, TimesOrdered
<1> QED BY <1>1, Invariant, PTL

\* A tag departs with its statistics, and no snapshot brings them back.
THEOREM DepartedForgotten == Spec => []DepartedStartsFresh
<1>1. IInv => DepartedStartsFresh
  BY DEF IInv, TablesGood, GoodTag, KnownTag, DepartedStartsFresh
<1> QED BY <1>1, Invariant, PTL

\* The snapshot served and saved is the inventory, but for aliases.
THEOREM SnapshotStaysCurrent == Spec => []SnapshotCurrent
<1>1. IInv => SnapshotCurrent
  BY DEF IInv
<1> QED BY <1>1, Invariant, PTL
=============================================================================
