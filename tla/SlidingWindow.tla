---------------------------- MODULE SlidingWindow ----------------------------
(***************************************************************************)
(* What CircularBuffer is for, over any number of readings: the window of  *)
(* the last WindowSize of them, and their sum, which circularbuffer.go     *)
(* keeps up to date one reading at a time for as long as the tag is here.  *)
(***************************************************************************)
EXTENDS CircularBuffer

CONSTANT Reading        \* signal strengths

ASSUME ReadingAssumption == Reading \subseteq Int

VARIABLES
  buffer,       \* tagStats.rssiDbm of one tag at one antenna
  recent        \* history: the last WindowSize readings, oldest first

vars == <<buffer, recent>>

Init == buffer = NewCircularBuffer /\ recent = <<>>

\* updateRSSI, tagstats.go 25-27.
UpdateRSSI(v) ==
  /\ buffer' = AddValue(buffer, v)
  /\ recent' = IF Len(recent) < WindowSize THEN Append(recent, v)
                                           ELSE Append(Tail(recent), v)

\* resetStats, tag.go 80-85, drops the buffer; the next read makes a new one.
ResetStats == buffer' = NewCircularBuffer /\ recent' = <<>>

Next == (\E v \in Reading : UpdateRSSI(v)) \/ ResetStats

Spec == Init /\ [][Next]_vars
-----------------------------------------------------------------------------
\* Where the i-th oldest reading is: in a full buffer the oldest is the next
\* to be overwritten.
Slot(i) == IF BufLen(buffer) < WindowSize THEN i
           ELSE ((buffer.index + i - 1) % WindowSize) + 1

\* The buffer holds exactly the last WindowSize readings, in order, however
\* often it has gone round (circularbuffer.go 62-74).
HoldsRecent ==
  /\ buffer \in Buffer
  /\ BufLen(buffer) = Len(recent)
  /\ \A i \in 1..Len(recent) : buffer.values[Slot(i)] = recent[i]

Sum(s) == LET upTo[i \in 0..Len(s)] == IF i = 0 THEN 0 ELSE upTo[i-1] + s[i]
          IN upTo[Len(s)]

\* The running total is the sum of those readings, so that Mean is their mean.
TotalIsSum == buffer.total = Sum(recent)
=============================================================================
