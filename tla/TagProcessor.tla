---------------------------- MODULE TagProcessor ----------------------------
(***************************************************************************)
(* The inventory: internal/inventory/tagprocessor.go with the types it     *)
(* keeps (tag.go, tagstats.go, statictag.go, location.go), driven as the   *)
(* task loop of internal/inventory/app/controller.go drives it.            *)
(*                                                                         *)
(* One thread, the task loop, owns the inventory.  A report is processed   *)
(* read by read (ProcessReport's loop), so a report in progress is kept in *)
(* `report'; everything else waits for its end, except a crash.            *)
(*                                                                         *)
(* Times are integer milliseconds, except what a reader stamps on a read   *)
(* (LastSeenUTC) and a report's origin, which are in microseconds, with    *)
(* MicrosPerMilli of them to the millisecond.                              *)
(***************************************************************************)
EXTENDS CircularBuffer, MobilityProfile, FiniteSets

CONSTANTS
  EPC,              \* the tags
  Device, Antenna,  \* reader names; antenna ports
  Alias,            \* names an operator gives to locations
  Missing,          \* a nil field of a TagReportData
  Configs,          \* the configurations an operator may set
  Reports,          \* what a report may hold: sequences of reads
  MicrosPerMilli,   \* 1000 in the code
  MaxTime           \* bound: the last instant of the clock

VARIABLES
  now,              \* time.Now() of this service, in milliseconds
  config,           \* TagProcessor.config
  inventory,        \* TagProcessor.inventory: a map from EPC to Tag
  report,           \* the report being processed, Idle between reports
  events,           \* the events the last step generated
  snapshot,         \* the task loop's variable snapshot
  saved,            \* the cache file tags.json
  told              \* history: the tags that are present by the last event
                    \* about each that was handed over for publishing (what
                    \* becomes of a batch on eventCh is TaskLoop's subject)

vars == <<now, config, inventory, report, events, snapshot, saved, told>>

NoLocation == <<"", 0>>
Location   == Device \X Antenna
Place      == Location \cup {NoLocation}
Label      == Place \cup Alias
EmptyAlias == ""

ASSUME TagProcessorAssumption ==
  /\ MicrosPerMilli \in Nat \ {0}
  /\ MaxTime \in Nat
  /\ NoLocation \notin Location
  /\ Missing \notin Antenna
  /\ Missing \notin Int

Setting == [slope : Int, threshold : Int, holdoff : Int,
            departedThreshold : Nat, departedCheck : Nat, ageOut : Nat,
            adjust : BOOLEAN,
            aliases : UNION {[S -> Label \cup {EmptyAlias}] : S \in SUBSET Place}]

Read == [epc : EPC, antenna : Antenna \cup {Missing},
         lastSeen : Nat \cup {Missing}, rssi : Int \cup {Missing}]

ASSUME InputAssumption ==
  /\ Configs \subseteq Setting
  /\ Reports \subseteq Seq(Read)
-----------------------------------------------------------------------------
(* Values *)

TagState == {"Unknown", "Present", "Departed"}
TagStats == [lastRead : Int, rssi : Buffer]

\* The statistics getStats creates for a location it does not know.  A
\* missing entry of the map is represented by them: no operation of the code
\* tells the two apart.
NewTagStats == [lastRead |-> 0, rssi |-> NewCircularBuffer]
EmptyStats  == [l \in Location |-> NewTagStats]

Tag == [state : TagState, loc : Place, lastRead : Int, lastArrived : Int,
        lastDeparted : Int, stats : [Location -> TagStats]]

NewTag == [state |-> "Unknown", loc |-> NoLocation, lastRead |-> 0,
           lastArrived |-> 0, lastDeparted |-> 0, stats |-> EmptyStats]

IsEmpty(loc) == loc = NoLocation

GetAlias(cfg, loc) ==
  IF loc \in DOMAIN cfg.aliases /\ cfg.aliases[loc] # EmptyAlias
  THEN cfg.aliases[loc] ELSE loc

ArrivedEvent(e, tag, cfg) ==
  [type |-> "Arrived", epc |-> e, timestamp |-> tag.lastRead,
   location |-> GetAlias(cfg, tag.loc)]
MovedEvent(e, tag, old, new) ==
  [type |-> "Moved", epc |-> e, timestamp |-> tag.lastRead,
   oldLocation |-> old, newLocation |-> new]
DepartedEvent(e, tag, at, cfg) ==
  [type |-> "Departed", epc |-> e, timestamp |-> at,
   lastRead |-> tag.lastRead, lastKnownLocation |-> GetAlias(cfg, tag.loc)]

SetStateAt(tag, newState, timestamp) ==
  [tag EXCEPT !.state        = newState,
              !.lastArrived  = IF newState = "Present" THEN timestamp ELSE @,
              !.lastDeparted = IF newState = "Departed" THEN timestamp ELSE @]

UpdateLastRead(stats, lastRead) ==
  IF lastRead <= stats.lastRead THEN stats ELSE [stats EXCEPT !.lastRead = lastRead]

\* Go's integer division truncates towards zero.
TruncDiv(a, b) == IF a >= 0 THEN a \div b ELSE -((-a) \div b)
-----------------------------------------------------------------------------
(* processData: one read *)

Stamp(read, offset) == TruncDiv(read.lastSeen + offset, MicrosPerMilli)

\* Mutant of NewLastRead: the latest report wins, whatever time it names.
NewLastReadLatest(tag, read, offset) ==
  IF read.lastSeen # Missing THEN Stamp(read, offset) ELSE tag.lastRead

\* lines 212-223: the tag's own time only moves forward.
NewLastRead(tag, read, offset) ==
  IF read.lastSeen # Missing /\ Stamp(read, offset) > tag.lastRead
  THEN Stamp(read, offset) ELSE tag.lastRead

\* lines 230-239: the statistics of the antenna that read the tag.
Updated(stats, read, offset) ==
  LET heard == IF read.rssi = Missing THEN stats.rssi
               ELSE AddValue(stats.rssi, read.rssi)
  IN IF read.lastSeen = Missing THEN [stats EXCEPT !.rssi = heard]
     ELSE UpdateLastRead([stats EXCEPT !.rssi = heard], Stamp(read, offset))

\* lines 241-273: with the statistics updated, does a tag move to the
\* location it was just read at?
MovesTo(from, to, stats, cfg, reference) ==
  \/ IsEmpty(from)
  \/ from = to
  \/ BufLen(stats[from].rssi) = 0
  \/ /\ BufLen(stats[to].rssi) >= 2
     /\ MeanExceeds(stats[to].rssi, stats[from].rssi,
                    ComputeOffset(cfg.profile, reference, stats[from].lastRead))

\* Mutant of Located: no check for a read without an antenna.
LocatedAnyAntenna(tag, read, rep, cfg) ==
  LET loc   == <<rep.device, read.antenna>>
      stats == [tag.stats EXCEPT ![loc] = Updated(@, read, rep.offset)]
  IN [tag EXCEPT !.lastRead = NewLastRead(tag, read, rep.offset),
                 !.stats = stats,
                 !.loc = IF MovesTo(tag.loc, loc, stats, cfg, rep.reference)
                         THEN loc ELSE @]

\* lines 205-275: the tag after a read, before the deferred state change.  A
\* read without an antenna leaves location and statistics alone.
Located(tag, read, rep, cfg) ==
  LET loc   == <<rep.device, read.antenna>>
      noted == [tag EXCEPT !.lastRead = NewLastRead(tag, read, rep.offset)]
      stats == [tag.stats EXCEPT ![loc] = Updated(@, read, rep.offset)]
  IN IF read.antenna = Missing THEN noted
     ELSE [noted EXCEPT
             !.stats = stats,
             !.loc = IF MovesTo(tag.loc, loc, stats, cfg, rep.reference)
                     THEN loc ELSE @]

\* Mutants of Settled: only a new tag becomes present; only a departed one
\* does; or the arrival is stamped with the service's own clock.
SettledNew(prev, tag) ==
  IF prev.state = "Unknown" THEN SetStateAt(tag, "Present", tag.lastRead) ELSE tag
SettledReturning(prev, tag) ==
  IF prev.state = "Departed" THEN SetStateAt(tag, "Present", tag.lastRead) ELSE tag
SettledNow(prev, tag) ==
  IF prev.state # "Present" THEN SetStateAt(tag, "Present", now) ELSE tag

\* lines 169-203: the deferred state change, and the event it generates.
Settled(prev, tag) ==
  IF prev.state \in {"Unknown", "Departed"}
  THEN SetStateAt(tag, "Present", tag.lastRead) ELSE tag

\* Mutant of EventsOf: locations are compared, not their aliases.
EventsOfLocations(e, prev, tag, cfg) ==
  IF prev.state # "Present" THEN {ArrivedEvent(e, tag, cfg)}
  ELSE IF IsEmpty(prev.loc) \/ prev.loc = tag.loc THEN {}
       ELSE {MovedEvent(e, tag, GetAlias(cfg, prev.loc), GetAlias(cfg, tag.loc))}

EventsOf(e, prev, tag, cfg) ==
  LET old == GetAlias(cfg, prev.loc)
      new == GetAlias(cfg, tag.loc)
  IN CASE prev.state \in {"Unknown", "Departed"} -> {ArrivedEvent(e, tag, cfg)}
       [] prev.state = "Present" ->
            IF IsEmpty(prev.loc) \/ prev.loc = tag.loc \/ old = new
            THEN {} ELSE {MovedEvent(e, tag, old, new)}
-----------------------------------------------------------------------------
(* Snapshots *)

\* StaticTagStats: the mean is the only reading that survives.  The fixed
\* point unit is chosen so that the means that occur are integers.
StaticStats(stats) ==
  LET kept == {l \in Location : BufLen(stats[l].rssi) > 0}
  IN [l \in kept |-> [lastRead |-> stats[l].lastRead,
                      mean |-> stats[l].rssi.total \div BufLen(stats[l].rssi)]]

StaticTag(tag, cfg) ==
  [loc |-> tag.loc, alias |-> GetAlias(cfg, tag.loc), lastRead |-> tag.lastRead,
   lastArrived |-> tag.lastArrived, lastDeparted |-> tag.lastDeparted,
   state |-> tag.state, stats |-> StaticStats(tag.stats)]

Snapshot(inv, cfg) == [e \in DOMAIN inv |-> StaticTag(inv[e], cfg)]

AsTag(s) ==
  [state |-> s.state, loc |-> s.loc, lastRead |-> s.lastRead,
   lastArrived |-> s.lastArrived, lastDeparted |-> s.lastDeparted,
   stats |-> [l \in Location |->
      IF l \in DOMAIN s.stats
      THEN [lastRead |-> s.stats[l].lastRead,
            rssi |-> AddValue(NewCircularBuffer, s.stats[l].mean)]
      ELSE NewTagStats]]

\* NewTagProcessor: the inventory is what the snapshot held.
Restored(snap) == [e \in DOMAIN snap |-> AsTag(snap[e])]
-----------------------------------------------------------------------------
(* Actions *)

NewConfig(c) ==
  [profile |-> NewMobilityProfile(c.slope, c.threshold, c.holdoff),
   aliases |-> c.aliases, departedThreshold |-> c.departedThreshold,
   ageOut |-> c.ageOut, adjust |-> c.adjust]

\* ApplicationSettings.Validate: the only values it refuses are zeros.
Valid(c) == c.departedThreshold # 0 /\ c.departedCheck # 0 /\ c.ageOut # 0

Idle == [reads |-> <<>>, busy |-> FALSE, dirty |-> FALSE,
         device |-> "", offset |-> 0, reference |-> 0, batch |-> {}]

PresentIn(table) == {e \in DOMAIN table : table[e].state = "Present"}

\* The map without entries: no inventory, and no cache file to load.
NoTags == [e \in {} |-> NewTag]

Init ==
  /\ now = 0
  /\ \E c \in Configs : Valid(c) /\ config = NewConfig(c)
  /\ inventory = NoTags
  /\ report = Idle
  /\ events = {}
  /\ snapshot = NoTags
  /\ saved = NoTags
  /\ told = {}

Tick ==
  /\ now < MaxTime
  /\ now' = now + 1
  /\ events' = {}
  /\ UNCHANGED <<config, inventory, report, snapshot, saved, told>>

UpdateConfig ==
  /\ ~report.busy
  /\ \E c \in Configs : Valid(c) /\ config' = NewConfig(c)
  /\ events' = {}
  /\ UNCHANGED <<now, inventory, report, snapshot, saved, told>>

\* Mutant of Seen: the first read speaks for the whole report.
SeenFirst(reads) ==
  {0} \cup (IF reads = <<>> THEN {} ELSE {Head(reads).lastSeen} \ {Missing})

\* ProcessReport, lines 76-96: how far the reader's clock is adjusted, given
\* the latest time the report names, which is 0 when it names none.
Seen(reads) == {0} \cup ({reads[i].lastSeen : i \in 1..Len(reads)} \ {Missing})

OffsetMicros(lastSeen, originMicros) ==
  IF config.adjust /\ lastSeen > 0 THEN originMicros - lastSeen ELSE 0

\* A report arrives with the origin the device service stamped on it, now or,
\* when it was delayed on its way, earlier.
BeginReport ==
  /\ ~report.busy
  /\ \E reads \in Reports, d \in Device, origin \in 0 .. now * MicrosPerMilli :
     \E lastSeen \in Seen(reads) :
       /\ \A s \in Seen(reads) : s <= lastSeen
       /\ report' = [reads |-> reads, busy |-> TRUE, dirty |-> FALSE,
                     device |-> d, offset |-> OffsetMicros(lastSeen, origin),
                     reference |-> origin \div MicrosPerMilli, batch |-> told]
  /\ events' = {}
  /\ UNCHANGED <<now, config, inventory, snapshot, saved, told>>

ProcessData ==
  /\ report.busy
  /\ report.reads # <<>>
  /\ LET read == Head(report.reads)
         e    == read.epc
         prev == IF e \in DOMAIN inventory THEN inventory[e] ELSE NewTag
         tag  == Settled(prev, Located(prev, read, report, config))
     IN /\ inventory' = [x \in DOMAIN inventory \cup {e} |->
                           IF x = e THEN tag ELSE inventory[x]]
        /\ events' = EventsOf(e, prev, Located(prev, read, report, config), config)
        /\ report' = [report EXCEPT !.reads = Tail(@),
                                    !.dirty = @ \/ events' # {},
                                    !.batch = IF events' = {} THEN @ ELSE @ \cup {e}]
  /\ UNCHANGED <<now, config, snapshot, saved, told>>

\* Mutant of EndReport: events are handed over and nothing is saved.
EndReportUnsaved ==
  /\ report.busy
  /\ report.reads = <<>>
  /\ snapshot' = Snapshot(inventory, config)
  /\ told' = report.batch
  /\ report' = Idle
  /\ events' = {}
  /\ UNCHANGED <<now, config, inventory, saved>>

\* The end of ProcessReport, and what the task loop does with its result
\* (controller.go 223-230): always a new snapshot, the cache file only when
\* there are events to hand over.
EndReport ==
  /\ report.busy
  /\ report.reads = <<>>
  /\ snapshot' = Snapshot(inventory, config)
  /\ saved' = IF report.dirty THEN snapshot' ELSE saved
  /\ told' = report.batch
  /\ report' = Idle
  /\ events' = {}
  /\ UNCHANGED <<now, config, inventory>>

ToDepart ==
  {e \in DOMAIN inventory :
     /\ inventory[e].state = "Present"
     /\ inventory[e].lastRead < now - config.departedThreshold}

\* Mutants of AggregateDeparted: the statistics are kept; or one event is
\* generated however many tags depart.
Departing(stats, reported) ==
  /\ ~report.busy
  /\ ToDepart # {}
  /\ inventory' = [e \in DOMAIN inventory |->
                     IF e \in ToDepart
                     THEN [SetStateAt(inventory[e], "Departed", now)
                             EXCEPT !.stats = stats[e]]
                     ELSE inventory[e]]
  /\ events' = {DepartedEvent(e, inventory[e], now, config) : e \in reported}
  /\ snapshot' = Snapshot(inventory', config)
  /\ saved' = snapshot'
  /\ told' = told \ ToDepart
  /\ UNCHANGED <<now, config, report>>

AggregateDepartedKeepsStats ==
  Departing([e \in DOMAIN inventory |-> inventory[e].stats], ToDepart)
AggregateDepartedTellsOne ==
  \E e \in ToDepart : Departing([x \in DOMAIN inventory |-> EmptyStats], {e})

AggregateDeparted ==
  /\ ~report.busy
  /\ ToDepart # {}
  /\ inventory' = [e \in DOMAIN inventory |->
                     IF e \in ToDepart
                     THEN [SetStateAt(inventory[e], "Departed", now)
                             EXCEPT !.stats = EmptyStats]
                     ELSE inventory[e]]
  /\ events' = {DepartedEvent(e, inventory[e], now, config) : e \in ToDepart}
  /\ snapshot' = Snapshot(inventory', config)
  /\ saved' = snapshot'
  /\ told' = told \ ToDepart
  /\ UNCHANGED <<now, config, report>>

\* Mutant of ToAgeOut: tags that have not departed are the ones removed.
ToAgeOutPresent ==
  {e \in DOMAIN inventory :
     /\ inventory[e].state # "Departed"
     /\ inventory[e].lastRead < now - config.ageOut}

ToAgeOut ==
  {e \in DOMAIN inventory :
     /\ inventory[e].state = "Departed"
     /\ inventory[e].lastRead < now - config.ageOut}

\* Mutant of AgeOut: the snapshot still has the removed tags.
AgeOutStaleSnapshot ==
  /\ ~report.busy
  /\ ToAgeOut # {}
  /\ inventory' = [e \in DOMAIN inventory \ ToAgeOut |-> inventory[e]]
  /\ events' = {}
  /\ UNCHANGED <<now, config, report, snapshot, saved, told>>

AgeOut ==
  /\ ~report.busy
  /\ ToAgeOut # {}
  /\ inventory' = [e \in DOMAIN inventory \ ToAgeOut |-> inventory[e]]
  /\ snapshot' = Snapshot(inventory', config)
  /\ saved' = snapshot'
  /\ events' = {}
  /\ UNCHANGED <<now, config, report, told>>

\* The service stops and a new process starts from the cache file.  An
\* orderly stop writes the task loop's snapshot first (controller.go 207); a
\* crash leaves the file as it was and drops the report in progress.
Load(file) ==
  /\ inventory' = Restored(file)
  /\ snapshot' = file
  /\ saved' = file
  /\ report' = Idle
  /\ events' = {}
  /\ \E c \in Configs : Valid(c) /\ config' = NewConfig(c)
  /\ UNCHANGED <<now, told>>

StopAndStart == ~report.busy /\ Load(snapshot)
CrashAndStart == Load(saved)

Next ==
  \/ Tick
  \/ UpdateConfig
  \/ BeginReport
  \/ ProcessData
  \/ EndReport
  \/ AggregateDeparted
  \/ AgeOut
  \/ StopAndStart
  \/ CrashAndStart

Spec == Init /\ [][Next]_vars
-----------------------------------------------------------------------------
(* Correctness *)

\* A map with keys and values of the given sets: a Go map, or the slice of
\* StaticTags, which names each tag once.
IsMap(f, keys, values) == DOMAIN f \subseteq keys /\ f \in [DOMAIN f -> values]

StaticTagStats == [lastRead : Int, mean : Int]

IsStaticTag(s) ==
  /\ s = [loc |-> s.loc, alias |-> s.alias, lastRead |-> s.lastRead,
          lastArrived |-> s.lastArrived, lastDeparted |-> s.lastDeparted,
          state |-> s.state, stats |-> s.stats]
  /\ s.loc \in Place
  /\ s.alias \in Label
  /\ {s.lastRead, s.lastArrived, s.lastDeparted} \subseteq Int
  /\ s.state \in TagState
  /\ IsMap(s.stats, Location, StaticTagStats)

IsSnapshot(snap) ==
  /\ DOMAIN snap \subseteq EPC
  /\ snap = [e \in DOMAIN snap |-> snap[e]]
  /\ \A e \in DOMAIN snap : IsStaticTag(snap[e])

ProcessorConfig ==
  [profile : Profile, departedThreshold : Nat, ageOut : Nat, adjust : BOOLEAN,
   aliases : UNION {[S -> Label \cup {EmptyAlias}] : S \in SUBSET Place}]

ReportInProgress ==
  [reads : Seq(Read), busy : BOOLEAN, dirty : BOOLEAN,
   device : Device \cup {""}, offset : Int, reference : Int, batch : SUBSET EPC]

\* Every variable has the type of the Go value it stands for.
TypeOK ==
  /\ now \in Nat
  /\ config \in ProcessorConfig
  /\ IsMap(inventory, EPC, Tag)
  /\ report \in ReportInProgress
  /\ report.busy => report.device \in Device
  /\ IsSnapshot(snapshot)
  /\ IsSnapshot(saved)
  /\ told \in SUBSET EPC
  /\ \A event \in events : /\ event.type \in {"Arrived", "Moved", "Departed"}
                           /\ event.epc \in EPC

\* Whoever follows the events handed to eventCh (an Arrived or Moved event:
\* the tag is here; a Departed event: it is not) has the inventory's own idea
\* of which tags are present: processData and AggregateDeparted never change a
\* tag's state without the event that says so, across configuration changes,
\* age-outs, restarts and crashes.
InventoryAsTold ==
  PresentIn(inventory) = IF report.busy THEN report.batch ELSE told

\* The cache file agrees with the events handed over too, although it is
\* written only when there are events (controller.go 227-228, 238, 247): a
\* crash at any moment restores a set of present tags that no event handed
\* over contradicts.
SavedAsTold == PresentIn(saved) = told

\* The transition times and read times of a tag tell one story: it arrived
\* no later than it was last read, a departed tag was last read before it
\* departed, and no antenna read it later than the tag itself was read.
TimesOrdered ==
  \A e \in DOMAIN inventory :
     LET tag == inventory[e]
     IN /\ tag.lastArrived <= tag.lastRead
        /\ tag.state = "Departed" => tag.lastRead < tag.lastDeparted
        /\ \A l \in Location : tag.stats[l].lastRead <= tag.lastRead

\* A departed tag has no statistics left, restored or not: when it arrives
\* again nothing it was read with before decides where it is.
DepartedStartsFresh ==
  \A e \in DOMAIN inventory :
     inventory[e].state = "Departed" => inventory[e].stats = EmptyStats

\* Between reports, the snapshot the REST API serves and an orderly stop
\* writes is the inventory, except that aliases may date from before the
\* last configuration change; also right after a restart, when the inventory
\* was itself made from the snapshot.
SnapshotCurrent ==
  ~report.busy =>
     /\ DOMAIN snapshot = DOMAIN inventory
     /\ \A e \in DOMAIN inventory :
          snapshot[e] = [StaticTag(inventory[e], config)
                           EXCEPT !.alias = snapshot[e].alias]

\* While the service runs, what it says of when a tag was read, arrived and
\* departed only moves forward, whatever order reports come in and however
\* readers' clocks disagree.
Restart == StopAndStart \/ CrashAndStart
TimesOnlyAdvance ==
  [][~Restart =>
       \A e \in DOMAIN inventory \cap DOMAIN inventory' :
          /\ inventory'[e].lastRead >= inventory[e].lastRead
          /\ inventory'[e].lastArrived >= inventory[e].lastArrived
          /\ inventory'[e].lastDeparted >= inventory[e].lastDeparted]_vars

\* With the adjustment by origin configured, no report makes a tag look read
\* in the future, however far ahead its reader's clock runs (tagprocessor.go
\* 82-84) and whichever of its reads comes first: such a tag would stay
\* present long after it is gone.
NeverReadAhead ==
  [][ProcessData /\ config.adjust =>
       LET e == Head(report.reads).epc
       IN \/ inventory'[e].lastRead <= now
          \/ e \in DOMAIN inventory /\ inventory'[e].lastRead = inventory[e].lastRead]_vars

\* After a read at an antenna that has at least two readings of the tag, the
\* tag is at that antenna unless the antenna it is at hears it at least as
\* well, less the threshold: however stale a location, it never takes more
\* than the threshold to leave it (computeOffset's ceiling).
HeardBetter(tag, loc) ==
  /\ BufLen(tag.stats[loc].rssi) >= 2
  /\ tag.loc # loc /\ tag.loc # NoLocation
  /\ MeanExceeds(tag.stats[loc].rssi, tag.stats[tag.loc].rssi,
                 config.profile.threshold)

BetterAntennaWins ==
  [][ProcessData =>
       LET read == Head(report.reads)
       IN read.antenna # Missing =>
            ~HeardBetter(inventory'[read.epc], <<report.device, read.antenna>>)]_vars

\* Within the holdoff after its antenna last heard it, a tag leaves that
\* antenna only for one that hears it better by more than the threshold
\* (mobilityprofile.go 16: the slope is not used), when the slope is not
\* positive and the antenna has readings to compare with.
HoldoffHolds ==
  [][ProcessData =>
       LET e    == Head(report.reads).epc
           old  == inventory[e]
           new  == inventory'[e]
       IN (/\ e \in DOMAIN inventory
           /\ old.loc \notin {NoLocation, new.loc}
           /\ BufLen(old.stats[old.loc].rssi) > 0
           /\ config.profile.slope <= 0
           /\ report.reference - old.stats[old.loc].lastRead <= config.profile.holdoff)
          => MeanExceeds(new.stats[new.loc].rssi, old.stats[old.loc].rssi,
                         config.profile.threshold)]_vars
-----------------------------------------------------------------------------
(* The promise of TagLifecycle, kept *)

\* What the stream's follower could know of a tag, and of an event.
ViewOf(table, cfg, e) ==
  IF e \notin DOMAIN table THEN [state |-> "Absent"]
  ELSE [state |-> table[e].state, label |-> GetAlias(cfg, table[e].loc),
        located |-> ~IsEmpty(table[e].loc)]

Shown(event) ==
  CASE event.type = "Arrived" ->
         [type |-> event.type, epc |-> event.epc, location |-> event.location]
    [] event.type = "Moved" ->
         [type |-> event.type, epc |-> event.epc,
          oldLocation |-> event.oldLocation, newLocation |-> event.newLocation]
    [] event.type = "Departed" ->
         [type |-> event.type, epc |-> event.epc,
          lastKnownLocation |-> event.lastKnownLocation]

Views == [e \in EPC |-> ViewOf(inventory, config, e)]
ShownEvents == {Shown(event) : event \in events}

Lifecycle == INSTANCE TagLifecycle WITH view <- Views, events <- ShownEvents

\* The detailed inventory implements the abstract one.
KeepsPromise == Lifecycle!Spec
-----------------------------------------------------------------------------
(* Progress *)

\* The ticker cases of the task loop's select compete with the reports;
\* Go picks among the ready cases at random, hence strong fairness.
Fairness ==
  /\ WF_vars(Tick)
  /\ WF_vars(ProcessData)
  /\ WF_vars(EndReport)
  /\ SF_vars(AggregateDeparted)
  /\ SF_vars(AgeOut)

LiveSpec == Spec /\ Fairness

ReadsTag(e) == ProcessData /\ Head(report.reads).epc = e

\* A tag that nobody reads any more is removed for good once this service's
\* clock is past its last read by the thresholds, whatever other tags keep the
\* service busy; provided that the service stops restarting, which may bring
\* back an older inventory.
Overdue(e) ==
  e \in DOMAIN inventory =>
    /\ inventory[e].lastRead < now - config.departedThreshold
    /\ inventory[e].lastRead < now - config.ageOut

UnseenTagLeaves ==
  \A e \in EPC :
     <>[][~Restart /\ ~ReadsTag(e)]_vars /\ <>[]Overdue(e)
       => <>[](e \notin DOMAIN inventory)
=============================================================================
