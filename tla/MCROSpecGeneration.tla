-------------------------- MODULE MCROSpecGeneration --------------------------
(***************************************************************************)
(* Small instances of ROSpecGeneration.  Tables of up to three entries, in *)
(* and out of order, with duplicates; an Impinj reader, with Autoset modes *)
(* and link frequencies for data rates; readers that hop and that do not.  *)
(***************************************************************************)
EXTENDS ROSpecGeneration

Power(i, p) == [index |-> i, power |-> p]
LevelTables ==
  {<<Power(1, 2), Power(2, 4)>>, <<Power(7, 4), Power(8, 1), Power(9, 3)>>,
   <<Power(1, 3), Power(2, 3), Power(3, 2)>>}

RFMode(id, mask, modulation, rtcal, bdr) ==
  [id |-> id, mask |-> mask, modulation |-> modulation, rtcal |-> rtcal, bdr |-> bdr]
FastModes == <<RFMode(0, 2, 0, 1, 16), RFMode(1, 2, 1, 1, 16), RFMode(2, 3, 2, 4, 7), RFMode(1000, 3, 0, 1, 16)>>
\* The first has the highest rate before Impinj's is corrected and the lowest
\* after; the other two differ in RTcal alone.
SlowModes == <<RFMode(1, 2, 3, 2, 16), RFMode(2, 1, 0, 2, 8), RFMode(3, 1, 0, 1, 8)>>
OneMode   == <<RFMode(5, 0, 0, 3, 4)>>
Autosets  == <<RFMode(1000, 3, 0, 1, 16)>>

\* Rates of zero: of a reader that reported none, or less than Miller8 divides.
ZeroRates == <<RFMode(1, 3, 3, 1, 7), RFMode(2, 2, 1, 1, 2)>>

HopTables == {<<[id |-> 4, frequencies |-> <<10, 20, 30, 40>>]>>, <<[id |-> 4, frequencies |-> <<>>]>>}

Hopping == [hopping : {TRUE}, hopTables : HopTables, fixed : {<<>>}]
Fixed   == [hopping : {FALSE}, hopTables : {<<>>}, fixed : {<<10, 20>>, <<30, 20, 10, 40>>, <<>>}]

Regions == Hopping \cup Fixed

Report(levels, modes, region, nSpecs, aware, impinj) ==
  [levels |-> levels, modes |-> modes, hopping |-> region.hopping,
   hopTables |-> region.hopTables, fixed |-> region.fixed, nGPIs |-> 1,
   nSpecsPerRO |-> nSpecs, stateAware |-> aware, impinj |-> impinj]

InOrder == <<Power(1, 2), Power(2, 4)>>
AnyHop  == CHOOSE r \in Hopping : r.hopTables[1].frequencies # <<>>

\* Every power table in every region; every mode table, where hopping; every
\* number of specs, state aware or not.
SomeCapabilities ==
  {Report(l, FastModes, r, 32, TRUE, i) : l \in LevelTables, r \in Regions, i \in BOOLEAN}
    \cup {Report(InOrder, m, r, 32, FALSE, i) :
            m \in {FastModes, SlowModes, OneMode, Autosets, ZeroRates}, r \in Hopping, i \in BOOLEAN}
    \cup {Report(InOrder, SlowModes, AnyHop, n, a, i) : n \in {0, 1, 2}, a \in BOOLEAN, i \in BOOLEAN}

SomeBehaviors ==
  [power : {1, 3, 5}, frequencies : {<<>>, <<50, 20, 10>>}, gpiPort : {Nothing, 0, 1, 2},
   scan : {"Fast", "Normal", "Deep"}, suppressMonza : BOOLEAN]

UpToThree == 0..3
TheGroups == {0}
=============================================================================
