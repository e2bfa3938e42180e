--------------------------- MODULE MCTagProcessor ---------------------------
(***************************************************************************)
(* Small instances of TagProcessor.  Times are a handful of milliseconds,  *)
(* with two microseconds to the millisecond; readings are even, so that    *)
(* the means of a window of two are integers.                              *)
(***************************************************************************)
EXTENDS TagProcessor

CONSTANTS t1, t2, dock

Setup(slope, threshold, holdoff, adjust, aliases) ==
  [slope |-> slope, threshold |-> threshold, holdoff |-> holdoff,
   departedThreshold |-> 1, departedCheck |-> 1, ageOut |-> 2,
   adjust |-> adjust, aliases |-> aliases]

NoAliases == <<>>
OneDock == [l \in {<<"r1", 1>>, <<"r1", 2>>} |-> dock]

ReadOf(e, antenna, lastSeen, rssi) ==
  [epc |-> e, antenna |-> antenna, lastSeen |-> lastSeen, rssi |-> rssi]

\* One tag that comes and goes: read at either antenna, at one that is not
\* named, without a time or a signal strength, and twice in one report.
ComeAndGoConfigs == {Setup(-2, 2, 1, FALSE, a) : a \in {NoAliases, OneDock}}
ComeAndGoReports ==
  {<<ReadOf(t1, 1, 3, 0)>>, <<ReadOf(t1, 2, 5, 0)>>, <<ReadOf(t1, 2, Missing, Missing)>>,
   <<ReadOf(t1, Missing, 3, Missing), ReadOf(t1, 1, 3, 0)>>}

\* Two tags, in the same reports or not, departing and aging out together or
\* apart, read by a reader whose clock runs behind or ahead and is corrected.
TwoTagsConfigs == {Setup(-2, 2, 1, TRUE, NoAliases)}
TwoTagsReports ==
  {<<ReadOf(t1, 1, 1, 0), ReadOf(t2, 1, 7, 0)>>, <<ReadOf(t1, 1, Missing, 2)>>,
   <<ReadOf(t2, Missing, 3, Missing)>>}

\* One tag, heard well or badly by two antennas, early, late or out of order.
WhereIsItConfigs == {Setup(-2, 2, 1, FALSE, NoAliases)}
WhereIsItReports ==
  {<<ReadOf(t1, 1, 2, s)>> : s \in {0, 4}} \cup {<<ReadOf(t1, 2, 4, s)>> : s \in {0, 4}}
=============================================================================
