--------------------------- MODULE ROSpecGeneration ---------------------------
(***************************************************************************)
(* From what a reader can do and what an operator wants to the ROSpec that *)
(* is sent: internal/llrp/behavior.go.                                     *)
(*                                                                         *)
(* A reader connects and its capabilities are digested (NewBasicDevice,    *)
(* NewImpinjDevice); then it is asked for ROSpecs, as often as the group's *)
(* behavior changes.  Of a ROSpec only what the properties tell apart is   *)
(* kept: its triggers, the transmitter, the RF mode and what each of its   *)
(* AISpecs queries.  Tag population and transit times are left out.        *)
(***************************************************************************)
EXTENDS Integers, Sequences, SequencesExt, FiniteSetsExt

CONSTANTS
  Capabilities,         \* what connecting readers may report
  Behaviors,            \* what an operator may ask for
  Environments,         \* how many readers may be near; the group says 0
  BestRTcal, BestBDR,   \* 15625000 and 640000 in the code
  Nothing               \* no device yet, no answer yet, no GPI trigger

Level == [index : Nat, power : Int]
Mode  == [id : Nat, mask : 0..255, modulation : Nat, rtcal : Nat, bdr : Nat]
HopTable == [id : Nat, frequencies : Seq(Nat)]
Scan  == {"Fast", "Normal", "Deep"}

ASSUME GenerationAssumption ==
  /\ BestRTcal \in Nat \ {0} /\ BestBDR \in Nat \ {0}
  /\ Nothing \notin Nat /\ Environments \subseteq Nat
  /\ \A c \in Capabilities :
       /\ c.levels \in Seq(Level) /\ c.modes \in Seq(Mode)
       /\ c.hopTables \in Seq(HopTable) /\ c.fixed \in Seq(Nat)
       /\ c.nGPIs \in Nat /\ c.nSpecsPerRO \in Nat
       /\ c.hopping \in BOOLEAN /\ c.stateAware \in BOOLEAN /\ c.impinj \in BOOLEAN
  /\ \A b \in Behaviors :
       /\ b.power \in Int /\ b.frequencies \in Seq(Nat)
       /\ b.gpiPort \in Nat \cup {Nothing} /\ b.scan \in Scan

VARIABLES
  device,       \* the connected reader as the service knows it
  caps,         \* what it reported
  asked,        \* the last behavior and environment it was asked a ROSpec for
  answer        \* and what it answered

vars == <<device, caps, asked, answer>>

-----------------------------------------------------------------------------
(* Digesting the capabilities *)

Frequencies(c) == IF c.hopping THEN (IF c.hopTables = <<>> THEN <<>> ELSE c.hopTables[1].frequencies)
                               ELSE c.fixed

\* 143-160, 167-200: what a reader must have said.  A hop table may be empty.
Complete(c) ==
  /\ c.levels # <<>> /\ c.modes # <<>>
  /\ IF c.hopping THEN c.hopTables # <<>> ELSE c.fixed # <<>>

Ascending(levels) ==
  \A i, j \in DOMAIN levels : i < j => levels[i].power <= levels[j].power

\* Mutant of SortedLevels: the reader's own order.
SortedLevelsTrusted(levels) == {levels}

Orders(S) == {p \in [S -> S] : \A i \in S : \E j \in S : p[j] = i}

\* 216-234: sort.Slice leaves entries of equal power in any order.
SortedLevels(levels) ==
  IF Ascending(levels) THEN {levels}
  ELSE {s \in {[i \in DOMAIN levels |-> levels[p[i]]] : p \in Orders(DOMAIN levels)} :
          Ascending(s)}

BasicDevices(c) ==
  {[modes |-> c.modes, pwrMinToMax |-> levels, hopping |-> c.hopping,
    nFreqs |-> Len(Frequencies(c)), nGPIs |-> c.nGPIs,
    nSpecsPerRO |-> c.nSpecsPerRO, stateAware |-> c.stateAware, impinj |-> FALSE]
     : levels \in SortedLevels(c.levels)}

\* 261-270: Impinj's own modes choose among the others by themselves, and
\* what it reports of those others is a link frequency, not a data rate.
AutosetID == 1000
Shifted(x, n) == LET by[k \in 0..n] == IF k = 0 THEN x ELSE by[k-1] \div 2 IN by[n]
Corrected(mode) == [mode EXCEPT !.bdr = Shifted(@, mode.modulation)]

\* Mutant of Kept: the link frequencies are believed.
KeptUncorrected(fixed, m) == IF m.id < AutosetID THEN Append(fixed, m) ELSE fixed

Kept(fixed, m) == IF m.id < AutosetID THEN Append(fixed, Corrected(m)) ELSE fixed
ImpinjModes(modes) ==
  LET fixed[i \in 0..Len(modes)] == IF i = 0 THEN <<>> ELSE Kept(fixed[i-1], modes[i])
  IN fixed[Len(modes)]

Devices(c) ==
  IF c.impinj
  THEN {[d EXCEPT !.modes = ImpinjModes(@), !.impinj = TRUE] : d \in BasicDevices(c)}
  ELSE BasicDevices(c)
-----------------------------------------------------------------------------
(* Transmit *)

\* sort.Search: the first index that satisfies the predicate, or one past the
\* last.  The table is ascending, so a binary search finds it.
Search(levels, target) ==
  Min({i \in DOMAIN levels : levels[i].power >= target} \cup {Len(levels) + 1})

\* Mutant of FindPower: an inexact match is rounded up.
FindPowerUp(levels, target) ==
  levels[Min({Search(levels, target), Len(levels)})]

\* 516-541
FindPower(levels, target) ==
  LET i == Search(levels, target)
  IN IF i = 1 THEN levels[1]
     ELSE IF i <= Len(levels) /\ levels[i].power = target THEN levels[i]
     ELSE levels[i - 1]

Permitted(b, f) == \E i \in DOMAIN b.frequencies : b.frequencies[i] = f

\* Where in the table a frequency is first.
Offset(f, table) == Min({i \in DOMAIN table : table[i] = f})

\* Which of the permitted frequencies the table has.
Known(b, table) == {k \in DOMAIN b.frequencies : b.frequencies[k] \in ToSet(table)}

\* Mutant of ChannelIndex: offsets count from zero.
ChannelIndexFromZero(b, table) ==
  IF Known(b, table) = {} THEN 0
  ELSE Offset(b.frequencies[Min(Known(b, table))], table) - 1

\* 490-498: the first permitted frequency that the table has; 0 for none.
ChannelIndex(b, table) ==
  IF Known(b, table) = {} THEN 0
  ELSE Offset(b.frequencies[Min(Known(b, table))], table)

\* What a function returns besides its value, and how NewROSpec fails.
NoError          == "nil"
ErrUnsatisfiable == [error |-> "ErrUnsatisfiable"]
Panicked         == [error |-> "panic"]

Transmitter(hopTable, channel, power) ==
  [error |-> NoError, hopTable |-> hopTable, channel |-> channel, power |-> power]

\* 471-502.  Without hopping the power that was found is not used.
Transmit(d, c, b) ==
  LET level == FindPower(d.pwrMinToMax, b.power)
  IN IF level.power > b.power THEN ErrUnsatisfiable
     ELSE IF d.hopping THEN Transmitter(c.hopTables[1].id, 0, level.index)
     ELSE IF ChannelIndex(b, c.fixed) = 0 THEN ErrUnsatisfiable
     ELSE Transmitter(0, ChannelIndex(b, c.fixed), 0)
-----------------------------------------------------------------------------
(* The RF mode *)

\* Of a mode: its spectral mask, from 0 (unknown) to 3 (for dense crowds of
\* readers), its modulation, RTcal (Tari times the PIE ratio) and data rate.
Dense == 3

\* What both links contribute, as a fraction; lower is better, and a zero
\* makes it infinite.
Score(mode) ==
  [num |-> BestRTcal * mode.bdr + BestBDR * mode.rtcal, den |-> mode.rtcal * mode.bdr]
Less(a, b) == a.den # 0 /\ (b.den = 0 \/ a.num * b.den < b.num * a.den)

\* Mutant of Better: a later mode replaces the best when it is worse.
BetterIfSlow(modes, mask, best, i) ==
  IF modes[i].mask < mask THEN best
  ELSE IF best = 0 \/ Less(Score(modes[best]), Score(modes[i])) THEN i ELSE best

\* 623-641: what the i-th mode makes of the best so far; 0 for none.
Better(modes, mask, best, i) ==
  IF modes[i].mask < mask THEN best
  ELSE IF best = 0 \/ Less(Score(modes[i]), Score(modes[best])) THEN i ELSE best

\* 608-644: the index of the best mode at or above the mask; 0 for none.
FastestAt(modes, mask) ==
  LET best[i \in 0..Len(modes)] == IF i = 0 THEN 0 ELSE Better(modes, mask, best[i-1], i)
  IN best[Len(modes)]

\* 551-564: more than half as many readers as frequencies is a crowd.
MaskTarget(nReaders, nFreqs) ==
  IF nReaders <= 1 THEN nReaders
  ELSE IF nReaders >= nFreqs \/ 2 * nReaders > nFreqs THEN Dense ELSE Dense - 1

\* Mutant of FindBestMode: masks are tried from the least demanding up.
FindBestModeAny(d, nReaders) == FastestAt(d.modes, 0)

\* Mutant of FindBestMode: the mask is never lowered to unknown.
FindBestModeKnown(d, nReaders) ==
  LET tried == {m \in 1 .. MaskTarget(nReaders, d.nFreqs) : FastestAt(d.modes, m) # 0}
  IN IF tried = {} THEN 0 ELSE FastestAt(d.modes, Max(tried))

\* 570-585: the mask is lowered until a mode has it.  No mode at all is a panic.
FindBestMode(d, nReaders) ==
  LET tried == {m \in 0 .. MaskTarget(nReaders, d.nFreqs) : FastestAt(d.modes, m) # 0}
  IN IF tried = {} THEN 0 ELSE FastestAt(d.modes, Max(tried))
-----------------------------------------------------------------------------
(* NewROSpec *)

\* What an AISpec asks the tags: which session's flag, and in which state; all
\* tags selected first (filter); and whether it ends when no new tag shows up.
Query(session, state, filter, stops) ==
  [session |-> session, state |-> state, filter |-> filter, stops |-> stops]

\* Mutant of BasicQueries: the two queries of a deep scan never end.
BasicQueriesEndless(d, scan) ==
  CASE scan = "Fast"   -> <<Query(0, "A", FALSE, FALSE)>>
    [] scan = "Normal" -> <<Query(1, "A", FALSE, FALSE)>>
    [] scan = "Deep"   -> <<Query(2, "A", FALSE, FALSE), Query(2, "B", FALSE, FALSE)>>

\* 702-815.  A deep scan that gets neither keeps the query as it was made, all
\* zero, which is that of a fast one.
BasicQueries(d, scan) ==
  IF scan = "Deep" /\ d.stateAware /\ d.nSpecsPerRO >= 2
  THEN <<Query(2, "A", FALSE, TRUE), Query(2, "B", FALSE, TRUE)>>
  ELSE IF scan = "Deep" /\ (~d.stateAware \/ d.nSpecsPerRO = 1)
  THEN <<Query(2, "B", TRUE, FALSE)>>
  ELSE <<Query(IF scan = "Normal" THEN 1 ELSE 0, "A", FALSE, FALSE)>>

\* 861-895.  An Impinj reader has one AISpec; its search mode says whether one
\* state of the flag is inventoried or both, and the query names none.
ImpinjSession(b) ==
  CASE b.scan = "Fast"   -> IF b.suppressMonza THEN 1 ELSE 0
    [] b.scan = "Normal" -> 1
    [] b.scan = "Deep"   -> 2
ImpinjSearchMode(b) ==
  IF b.scan = "Deep" THEN "DualTargetWithReset"
  ELSE IF b.suppressMonza THEN "SingleTargetSuppressed" ELSE "DualTarget"

\* What a ROSpec queries, and Impinj's search mode, if that is the device.
Queries(d, b) ==
  IF d.impinj THEN <<Query(ImpinjSession(b), Nothing, FALSE, FALSE)>>
              ELSE BasicQueries(d, b.scan)
SearchMode(d, b) == IF d.impinj THEN ImpinjSearchMode(b) ELSE Nothing

\* 662-667: no GPI trigger, or one of the reader's ports.
ValidPort(d, b) == b.gpiPort = Nothing \/ b.gpiPort \in 1..d.nGPIs

NewROSpec(d, c, b, nReaders) ==
  LET transmit == Transmit(d, c, b)
      best     == FindBestMode(d, nReaders)
  IN IF ~ValidPort(d, b) \/ transmit.error # NoError THEN ErrUnsatisfiable
     ELSE IF best = 0 THEN Panicked
     ELSE [error |-> NoError, transmit |-> transmit, mode |-> d.modes[best],
           queries |-> Queries(d, b), search |-> SearchMode(d, b)]
-----------------------------------------------------------------------------
Init == device = Nothing /\ caps = Nothing /\ asked = Nothing /\ answer = Nothing

\* NewReader of a DSClient: a reader connects and tells what it can do.
Connect ==
  /\ device = Nothing
  /\ \E c \in Capabilities : Complete(c) /\ device' \in Devices(c) /\ caps' = c
  /\ UNCHANGED <<asked, answer>>

\* AddReader and SetBehavior ask for a ROSpec.
Ask ==
  /\ device # Nothing /\ asked = Nothing
  /\ \E b \in Behaviors, n \in Environments :
       /\ asked' = [behavior |-> b, nReaders |-> n]
       /\ answer' = NewROSpec(device, caps, b, n)
  /\ UNCHANGED <<device, caps>>

\* They have the answer.  A panic ends the process.
Take ==
  /\ asked # Nothing
  /\ asked' = Nothing /\ answer' = Nothing
  /\ IF answer = Panicked THEN device' = Nothing /\ caps' = Nothing
                          ELSE UNCHANGED <<device, caps>>

\* RemoveReader.
Disconnect ==
  /\ device # Nothing /\ asked = Nothing
  /\ device' = Nothing /\ caps' = Nothing
  /\ UNCHANGED <<asked, answer>>

Next == Connect \/ Ask \/ Take \/ Disconnect
Spec == Init /\ [][Next]_vars
-----------------------------------------------------------------------------
(* Correctness.  What follows says of the answer what was reported and     *)
(* asked, never what the code made of it on the way.                       *)

Answered == asked # Nothing /\ answer.error = NoError

Levels == ToSet(caps.levels)
Within(b) == {l \in Levels : l.power <= b.power}
Ports == {Nothing} \cup 1..caps.nGPIs
Common(b) == ToSet(b.frequencies) \cap ToSet(caps.fixed)

\* A behavior is rejected if and only if the reader cannot do it: it lacks the
\* GPI port, all its power levels are higher, or, where it may not hop, it has
\* none of the frequencies.  A reader that can but refuses keeps the behavior
\* from the whole group (reader_group.go 197-206).
RejectsWhatCannotBe ==
  asked # Nothing =>
    LET b == asked.behavior
    IN answer = ErrUnsatisfiable <=> \/ b.gpiPort \notin Ports
                             \/ Within(b) = {}
                             \/ (~caps.hopping /\ Common(b) = {})

\* Where the reader hops, it transmits at the highest power it has that does
\* not exceed the target, in whatever order it reported its levels.
PowerAsHighAsAllowed ==
  Answered /\ caps.hopping =>
    \E l \in Within(asked.behavior) :
       /\ l.index = answer.transmit.power
       /\ \A other \in Within(asked.behavior) : other.power <= l.power

\* Where it does not hop, the channel is one of the reader's (they count from
\* one), and its frequency one the operator permits.
ChannelPermitted ==
  Answered /\ ~caps.hopping =>
    /\ answer.transmit.channel \in DOMAIN caps.fixed
    /\ Permitted(asked.behavior, caps.fixed[answer.transmit.channel])

\* The RF mode is one the reader reported, none of Impinj's Autoset modes,
\* and as robust against other readers as is called for or, when it has none
\* such, as the most robust it has; and no other mode as robust scores better
\* with the data rate it really has.
Crowded == asked.nReaders > 1 /\ (2 * asked.nReaders > Len(Frequencies(caps)))
Needed  == IF asked.nReaders <= 1 THEN asked.nReaders ELSE IF Crowded THEN Dense ELSE Dense - 1
RealModes ==
  IF caps.impinj THEN {Corrected(m) : m \in {x \in ToSet(caps.modes) : x.id < AutosetID}}
                 ELSE ToSet(caps.modes)
AsRobust(m) == m.mask >= Min({Needed, Max({x.mask : x \in RealModes})})

BestRobustMode ==
  Answered =>
    /\ answer.mode \in RealModes
    /\ AsRobust(answer.mode)
    /\ \A m \in RealModes : AsRobust(m) => ~Less(Score(m), Score(answer.mode))

\* A mode is always found, "this should be impossible, but check just in case"
\* (behavior.go 570-580): NewROSpec panics for no crowd, no frequency table and
\* no spectral masks whatever, but if Autoset modes are all the reader has.
ModeAlwaysFound ==
  asked # Nothing /\ answer = Panicked => RealModes = {}

\* A deep scan finds every tag, whatever the state of its S2 flag: both states
\* are inventoried in turn, each until no new tag shows up, or all flags are
\* first set to the one that is (behavior.go 727-741), or Impinj's search mode
\* does the like; on a reader that reports how many specs a ROSpec may have,
\* with no more than that.
DeepScanFindsAll ==
  Answered /\ asked.behavior.scan = "Deep" /\ caps.nSpecsPerRO > 0 =>
    LET q == answer.queries
    IN /\ Len(q) <= caps.nSpecsPerRO
       /\ \A i \in DOMAIN q : q[i].session = 2 /\ (Len(q) > 1 => q[i].stops)
       /\ \/ caps.impinj /\ answer.search = "DualTargetWithReset"
          \/ \E i \in DOMAIN q : q[i].filter
          \/ {q[i].state : i \in DOMAIN q} = {"A", "B"}

\* "Transmit returns a legal llrp.RFTransmitter value" (behavior.go 471):
\* wherever the reader is, its power index names one of its power levels, and
\* that level is not above the target.
PowerAlwaysChosen ==
  Answered =>
    \E l \in Within(asked.behavior) : l.index = answer.transmit.power

\* The mode has "the highest likely throughput at or above the given density"
\* (behavior.go 588-589): none as robust has a shorter RTcal, hence a faster
\* forward link, at a data rate no lower.
HighestThroughput ==
  Answered =>
    ~\E m \in RealModes : /\ AsRobust(m)
                          /\ 0 < m.rtcal /\ m.rtcal < answer.mode.rtcal
                          /\ m.bdr >= answer.mode.bdr
=============================================================================
