--------------------------- MODULE CircularBuffer ---------------------------
(***************************************************************************)
(* The moving window of RSSI readings kept per tag and antenna:            *)
(* internal/inventory/circularbuffer.go.  A buffer is a record; `values'   *)
(* is the Go slice, whose length grows to WindowSize (its capacity) and    *)
(* then stays; `total' is the running sum the code maintains instead of    *)
(* summing on every read; `index' is the slot the next value overwrites.   *)
(*                                                                         *)
(* Readings are floats in the code.  Here they are integers in a fixed     *)
(* point unit, and means are compared by cross multiplication, so the      *)
(* comparison is exact and nothing is rounded.                             *)
(***************************************************************************)
EXTENDS Integers, Sequences

CONSTANT WindowSize         \* tagStatsWindowSize: 20 in the code

ASSUME WindowSizeAssumption == WindowSize \in Nat \ {0}

Buffer == [values : Seq(Int), total : Int, index : Nat]

\* newCircularBuffer: the constructor panics on a window size of zero, which
\* WindowSizeAssumption excludes (the only caller passes the constant 20).
NewCircularBuffer == [values |-> <<>>, total |-> 0, index |-> 0]

BufLen(b) == Len(b.values)

\* Mutants of AddValue: the window never turns; or the overwritten reading
\* stays in the total.
AddValueInPlace(b, v) ==
  IF BufLen(b) < WindowSize
  THEN [values |-> Append(b.values, v), total |-> b.total + v, index |-> b.index]
  ELSE [b EXCEPT !.values[b.index + 1] = v, !.total = @ - b.values[b.index + 1] + v]
AddValueAccumulates(b, v) ==
  IF BufLen(b) < WindowSize
  THEN [values |-> Append(b.values, v), total |-> b.total + v, index |-> b.index]
  ELSE [values |-> [b.values EXCEPT ![b.index + 1] = v],
        total  |-> b.total + v,
        index  |-> IF b.index + 1 >= WindowSize THEN 0 ELSE b.index + 1]

AddValue(b, v) ==
  IF BufLen(b) < WindowSize
  THEN [values |-> Append(b.values, v), total |-> b.total + v, index |-> b.index]
  ELSE LET slot == b.index + 1      \* slices count from 0, sequences from 1
           next == b.index + 1
       IN [values |-> [b.values EXCEPT ![slot] = v],
           total  |-> b.total - b.values[slot] + v,
           index  |-> IF next >= WindowSize THEN 0 ELSE next]

\* Mean(a) > Mean(b) + offset, where Mean is total / len.
MeanExceeds(a, b, offset) ==
  a.total * BufLen(b) > b.total * BufLen(a) + offset * BufLen(a) * BufLen(b)

=============================================================================
