------------------------ MODULE SlidingWindowProofs ------------------------
(***************************************************************************)
(* The window of the last readings, for a window of any size and however   *)
(* many readings: the buffer holds them in the order they came, and its    *)
(* running total is their sum.                                             *)
(***************************************************************************)
EXTENDS SlidingWindow, SequenceTheorems, IterationProofs

\* Besides what it holds: the buffer is written from the front until it is full.
Inv ==
  /\ HoldsRecent
  /\ recent \in Seq(Int)
  /\ Len(recent) <= WindowSize
  /\ buffer.index \in 0..WindowSize-1
  /\ Len(recent) < WindowSize => buffer.index = 0

\* Turning by less than a window.
LEMMA Turn ==
  ASSUME NEW a \in 0..2 * WindowSize - 1
  PROVE  a % WindowSize = IF a < WindowSize THEN a ELSE a - WindowSize
BY WindowSizeAssumption

\* Slots of a full buffer, `turn' being where its oldest reading is.
At(turn, i) == ((turn + i - 1) % WindowSize) + 1

LEMMA FullSlots ==
  ASSUME NEW n \in 0..WindowSize-1, NEW next \in 0..WindowSize-1,
         next = IF n + 1 >= WindowSize THEN 0 ELSE n + 1
  PROVE  /\ \A i \in 1..WindowSize : At(n, i) \in 1..WindowSize
         /\ \A i \in 1..WindowSize-1 : At(next, i) = At(n, i + 1) /\ At(next, i) # n + 1
         /\ At(next, WindowSize) = n + 1
<1> USE WindowSizeAssumption
<1>1. ASSUME NEW m \in 0..WindowSize-1, NEW i \in 1..WindowSize
      PROVE  At(m, i) = IF m + i <= WindowSize THEN m + i ELSE m + i - WindowSize
  <2>1. m + i - 1 \in 0..2 * WindowSize - 1
    OBVIOUS
  <2>2. (m + i - 1) % WindowSize =
          IF m + i - 1 < WindowSize THEN m + i - 1 ELSE m + i - 1 - WindowSize
    BY <2>1, Turn
  <2> QED BY <2>2 DEF At
<1>2. \A i \in 1..WindowSize : At(n, i) \in 1..WindowSize
  BY <1>1
<1>3. ASSUME NEW i \in 1..WindowSize-1
      PROVE  At(next, i) = At(n, i + 1) /\ At(next, i) # n + 1
  <2>1. i \in 1..WindowSize /\ i + 1 \in 1..WindowSize
    OBVIOUS
  <2>2. At(next, i) = IF next + i <= WindowSize THEN next + i ELSE next + i - WindowSize
    BY <1>1, <2>1
  <2>3. At(n, i + 1) = IF n + i + 1 <= WindowSize THEN n + i + 1 ELSE n + i + 1 - WindowSize
    BY <1>1, <2>1
  <2> QED BY <2>2, <2>3
<1>4. At(next, WindowSize) = n + 1
  <2>1. WindowSize \in 1..WindowSize
    OBVIOUS
  <2>2. At(next, WindowSize) = IF next + WindowSize <= WindowSize THEN next + WindowSize
                               ELSE next
    BY <1>1, <2>1
  <2> QED BY <2>2
<1> QED BY <1>2, <1>3, <1>4

\* A buffer that was just filled starts at its front.
LEMMA FirstTurn == \A i \in 1..WindowSize : At(0, i) = i
<1> SUFFICES ASSUME NEW i \in 1..WindowSize PROVE At(0, i) = i
  OBVIOUS
<1>1. i - 1 \in 0..2 * WindowSize - 1 /\ i - 1 < WindowSize
  BY WindowSizeAssumption
<1> QED BY <1>1, Turn, WindowSizeAssumption DEF At

LEMMA UpdateStep ==
  ASSUME Inv, NEW v \in Int, UpdateRSSI(v)
  PROVE  Inv'
<1> USE WindowSizeAssumption
<1> DEFINE vs == buffer.values
           n  == buffer.index
<1>1. /\ buffer \in Buffer /\ vs \in Seq(Int) /\ Len(vs) = Len(recent) /\ recent \in Seq(Int)
      /\ Len(vs) \in Nat /\ Len(vs) <= WindowSize /\ n \in 0..WindowSize-1
      /\ \A i \in 1..Len(recent) : vs[Slot(i)] = recent[i]
  BY DEF Inv, HoldsRecent, Buffer, BufLen
<1>2. CASE Len(vs) < WindowSize
  <2>1. /\ buffer' = [values |-> Append(vs, v), total |-> buffer.total + v, index |-> n]
        /\ recent' = Append(recent, v) /\ n = 0
    BY <1>1, <1>2 DEF UpdateRSSI, AddValue, BufLen, Inv
  <2>2. /\ buffer'.values = Append(vs, v) /\ buffer'.index = 0 /\ buffer' \in Buffer
    BY <1>1, <2>1 DEF Buffer
  <2>3. /\ recent' \in Seq(Int) /\ Len(recent') = Len(recent) + 1
        /\ Len(buffer'.values) = Len(recent) + 1
        /\ \A i \in 1..Len(recent) : recent'[i] = recent[i] /\ buffer'.values[i] = vs[i]
        /\ recent'[Len(recent) + 1] = v /\ buffer'.values[Len(recent) + 1] = v
    BY <1>1, <2>1, <2>2
  <2>4. \A i \in 1..Len(recent) : Slot(i) = i
    BY <1>2 DEF Slot, BufLen
  <2>5. ASSUME NEW i \in 1..Len(recent') PROVE Slot(i)' = i
    <3>1. Len(recent') \in Nat /\ Len(recent') <= WindowSize
      <4>1. Len(recent) \in Nat /\ Len(recent) < WindowSize
        BY <1>1, <1>2
      <4> QED BY <2>3, <4>1
    <3>2. i \in 1..WindowSize
      BY <3>1
    <3>3. At(0, i) = i
      BY <3>2, FirstTurn
    <3>4. Slot(i)' = i \/ Slot(i)' = At(0, i)
      BY <2>2 DEF Slot, At
    <3> QED BY <3>3, <3>4
  <2>6. ASSUME NEW i \in 1..Len(recent') PROVE buffer'.values[Slot(i)'] = recent'[i]
    <3>1. Len(recent) \in Nat /\ i \in 1..Len(recent) + 1
      BY <1>1, <2>3
    <3>2. CASE i \in 1..Len(recent)
      <4>1. vs[i] = recent[i]
        BY <1>1, <2>4, <3>2
      <4> QED BY <2>3, <2>5, <3>2, <4>1
    <3>3. CASE i = Len(recent) + 1
      BY <2>3, <2>5, <3>3
    <3> QED BY <3>1, <3>2, <3>3
  <2>7. HoldsRecent'
    BY <2>2, <2>3, <2>6 DEF HoldsRecent, BufLen
  <2>8. Len(recent') <= WindowSize /\ buffer'.index \in 0..WindowSize-1
    BY <1>1, <1>2, <2>2, <2>3
  <2> QED BY <2>2, <2>3, <2>7, <2>8 DEF Inv
<1>3. CASE Len(vs) = WindowSize
  <2> DEFINE next == IF n + 1 >= WindowSize THEN 0 ELSE n + 1
             upd  == [vs EXCEPT ![n + 1] = v]
  <2>1. /\ buffer' = [values |-> upd, total |-> buffer.total - vs[n + 1] + v, index |-> next]
        /\ recent' = Append(Tail(recent), v)
    BY <1>1, <1>3 DEF UpdateRSSI, AddValue, BufLen
  <2>2. /\ next \in 0..WindowSize-1 /\ n + 1 \in 1..Len(vs)
    BY <1>1, <1>3
  <2>3. /\ upd \in Seq(Int) /\ Len(upd) = WindowSize
        /\ \A i \in 1..WindowSize : upd[i] = IF i = n + 1 THEN v ELSE vs[i]
    <3>1. DOMAIN vs = 1..WindowSize /\ Len(vs) = WindowSize
      BY <1>1, <1>3
    <3>2. upd \in Seq(Int) /\ Len(upd) = Len(vs)
      BY <1>1, <2>2, ExceptSeq
    <3>3. \A i \in 1..WindowSize : upd[i] = IF i = n + 1 THEN v ELSE vs[i]
      BY <3>1
    <3> QED BY <3>1, <3>2, <3>3
  <2>4. vs[n + 1] \in Int
    BY <1>1, <2>2
  <2> HIDE DEF upd, next
  <2>5. buffer' \in Buffer /\ buffer'.values = upd /\ buffer'.index = next
    BY <1>1, <2>1, <2>2, <2>3, <2>4 DEF Buffer
  <2>6. /\ Tail(recent) \in Seq(Int) /\ Len(Tail(recent)) = WindowSize - 1
        /\ \A i \in 1..WindowSize-1 : Tail(recent)[i] = recent[i + 1]
    <3>1. recent \in Seq(Int) /\ Len(recent) = WindowSize /\ recent # <<>>
      BY <1>1, <1>3
    <3> QED BY <3>1, HeadTailProperties
  <2>7. /\ recent' \in Seq(Int) /\ Len(recent') = WindowSize
        /\ \A i \in 1..WindowSize-1 : recent'[i] = recent[i + 1]
        /\ recent'[WindowSize] = v
    BY <2>1, <2>6
  <2>8. /\ \A i \in 1..WindowSize : Slot(i) = At(n, i) /\ Slot(i)' = At(next, i)
    BY <1>3, <2>3, <2>5 DEF Slot, At, BufLen
  <2>9. ASSUME NEW i \in 1..WindowSize PROVE buffer'.values[Slot(i)'] = recent'[i]
    <3>1. next = IF n + 1 >= WindowSize THEN 0 ELSE n + 1
      BY DEF next
    <3>2. /\ \A j \in 1..WindowSize : At(n, j) \in 1..WindowSize
          /\ \A j \in 1..WindowSize-1 : At(next, j) = At(n, j + 1) /\ At(next, j) # n + 1
          /\ At(next, WindowSize) = n + 1
      <4> HIDE DEF n
      <4> QED BY <1>1, <2>2, <3>1, FullSlots
    <3>3. CASE i = WindowSize
      BY <1>1, <1>3, <2>2, <2>3, <2>5, <2>7, <2>8, <3>2, <3>3
    <3>4. CASE i \in 1..WindowSize-1
      <4>1. At(next, i) = At(n, i + 1) /\ At(next, i) # n + 1 /\ At(n, i + 1) \in 1..WindowSize
        BY <3>2, <3>4
      <4>2. vs[At(n, i + 1)] = recent[i + 1]
        BY <1>1, <1>3, <2>8, <3>4
      <4> QED BY <2>3, <2>5, <2>7, <2>8, <3>4, <4>1, <4>2
    <3> QED BY <3>3, <3>4
  <2>10. HoldsRecent'
    BY <2>3, <2>5, <2>7, <2>9 DEF HoldsRecent, BufLen
  <2> QED BY <2>2, <2>5, <2>7, <2>10 DEF Inv
<1>4. Len(vs) < WindowSize \/ Len(vs) = WindowSize
  BY <1>1
<1> QED BY <1>2, <1>3, <1>4

LEMMA NewWindow == buffer = NewCircularBuffer /\ recent = <<>> => Inv
BY WindowSizeAssumption DEF NewCircularBuffer, Inv, HoldsRecent, Buffer, BufLen

\* A step of any kind.
LEMMA WindowStep == Inv /\ [Next]_vars => Inv'
<1> SUFFICES ASSUME Inv, [Next]_vars PROVE Inv'
  OBVIOUS
<1>1. ASSUME NEW v \in Reading, UpdateRSSI(v) PROVE Inv'
  BY <1>1, UpdateStep, ReadingAssumption
<1>2. CASE ResetStats
  BY <1>2, WindowSizeAssumption
     DEF ResetStats, NewCircularBuffer, Inv, HoldsRecent, Buffer, BufLen
<1>3. CASE UNCHANGED vars
  BY <1>3 DEF vars, Inv, HoldsRecent, BufLen, Slot
<1> QED BY <1>1, <1>2, <1>3 DEF Next

\* However often the buffer has gone round, it holds the last WindowSize
\* readings, in the order they came (circularbuffer.go 62-74).
THEOREM WindowHolds == Spec => []HoldsRecent
<1>1. Init => Inv
  BY NewWindow DEF Init
<1>2. Inv => HoldsRecent
  BY DEF Inv
<1> QED BY <1>1, <1>2, WindowStep, PTL DEF Spec
-----------------------------------------------------------------------------
(* The running total *)

\* The sums of the first readings, of ever more of them.
Sums(f, s) ==
  /\ f \in [0..Len(s) -> Int]
  /\ f[0] = 0
  /\ \A i \in 0..Len(s)-1 : f[i + 1] = f[i] + s[i + 1]

\* Sum(s) is the last of them.
LEMMA SumIsLast ==
  ASSUME NEW s \in Seq(Int)
  PROVE  \E f : Sums(f, s) /\ Sum(s) = f[Len(s)]
<1> DEFINE n == Len(s)
           G == [i \in 1..n |-> [t \in Int |-> t + s[i]]]
           Recursive(f) == f = [i \in 0..n |-> IF i = 0 THEN 0 ELSE f[i-1] + s[i]]
           upTo == CHOOSE f : Recursive(f)
<1>1. n \in Nat /\ \A i \in 1..n : s[i] \in Int
  OBVIOUS
<1>2. PICK g \in [0..n -> Int] : Passes(g, n, 0, G)
  <2>1. 0 \in Int /\ G \in [1..n -> [Int -> Int]]
    BY <1>1
  <2> HIDE DEF G, n
  <2> QED BY <1>1, <2>1, PassExists, Zenon
<1>3. Recursive(g)
  <2>1. ASSUME NEW i \in 0..n PROVE g[i] = IF i = 0 THEN 0 ELSE g[i-1] + s[i]
    <3>1. CASE i = 0
      BY <3>1, <1>2 DEF Passes
    <3>2. CASE i \in 1..n
      <4>1. g[i] = G[i][g[i-1]]
        BY <3>2, <1>2 DEF Passes
      <4>2. G[i] = [t \in Int |-> t + s[i]] /\ g[i-1] \in Int
        BY <1>1, <3>2
      <4> HIDE DEF G
      <4> QED BY <3>2, <4>1, <4>2
    <3> QED BY <3>1, <3>2
  <2> HIDE DEF n
  <2> QED BY <2>1
<1>4. Recursive(upTo)
  <2>1. \E f : Recursive(f)
    BY <1>3
  <2> HIDE DEF Recursive
  <2> QED BY <2>1
<1>5. Sum(s) = upTo[n]
  BY DEF Sum
<1> HIDE DEF upTo, n
<1>6. /\ DOMAIN upTo = 0..n /\ upTo = [i \in 0..n |-> upTo[i]]
      /\ upTo[0] = 0
      /\ \A i \in 0..n-1 : upTo[i + 1] = upTo[i] + s[i + 1]
  <2>1. /\ DOMAIN upTo = 0..n /\ upTo = [i \in 0..n |-> upTo[i]]
        /\ \A i \in 0..n : upTo[i] = IF i = 0 THEN 0 ELSE upTo[i-1] + s[i]
    BY <1>4
  <2> HIDE DEF Recursive
  <2>2. upTo[0] = 0
    <3>1. 0 \in 0..n
      BY <1>1
    <3> QED BY <2>1, <3>1
  <2>3. ASSUME NEW i \in 0..n-1 PROVE upTo[i + 1] = upTo[i] + s[i + 1]
    <3>1. i + 1 \in 0..n /\ i + 1 # 0 /\ i + 1 - 1 = i
      BY <1>1
    <3>2. \A j \in 0..n : upTo[j] = IF j = 0 THEN 0 ELSE upTo[j-1] + s[j]
      BY <2>1
    <3>3. ASSUME NEW j \in 0..n, j # 0 PROVE upTo[j] = upTo[j-1] + s[j]
      BY <3>2, <3>3
    <3> QED BY <3>1, <3>3
  <2> QED BY <2>1, <2>2, <2>3
<1>7. upTo \in [0..n -> Int]
  <2> DEFINE S == {i \in 0..n : upTo[i] \in Int}
  <2>1. 0 \in S
    BY <1>1, <1>6
  <2>2. ASSUME NEW i \in 0..n-1, i \in S PROVE i + 1 \in S
    <3>1. i + 1 \in 0..n /\ s[i + 1] \in Int /\ upTo[i] \in Int
      BY <1>1, <2>2
    <3>2. upTo[i + 1] = upTo[i] + s[i + 1]
      BY <1>6
    <3> QED BY <3>1, <3>2
  <2>3. \A i \in 0..n : i \in S
    <3> HIDE DEF S
    <3> QED BY <1>1, <2>1, <2>2, StepByStep
  <2> QED BY <1>6, <2>3
<1> QED BY <1>5, <1>6, <1>7 DEF Sums, n

\* Two sequences that begin alike have the same sums so far.
LEMMA SumsAgree ==
  ASSUME NEW s \in Seq(Int), NEW t \in Seq(Int), Len(s) <= Len(t),
         \A i \in 1..Len(s) : t[i] = s[i],
         NEW f, Sums(f, s), NEW g, Sums(g, t)
  PROVE  g[Len(s)] = f[Len(s)]
<1> DEFINE n == Len(s)
           S == {i \in 0..n : g[i] = f[i]}
<1>1. n \in Nat /\ Len(t) \in Nat /\ n <= Len(t)
  OBVIOUS
<1> HIDE DEF n
<1>2. 0 \in S
  BY <1>1 DEF Sums
<1>3. ASSUME NEW i \in 0..n-1, i \in S PROVE i + 1 \in S
  <2>1. i + 1 \in 1..n /\ i \in 0..Len(s)-1 /\ i \in 0..Len(t)-1
    BY <1>1 DEF n
  <2>2. f[i + 1] = f[i] + s[i + 1] /\ g[i + 1] = g[i] + t[i + 1]
    BY <2>1 DEF Sums
  <2>3. s[i + 1] = t[i + 1] /\ g[i] = f[i] /\ i + 1 \in 0..n
    BY <1>1, <1>3, <2>1 DEF n
  <2> QED BY <2>2, <2>3
<1>4. \A i \in 0..n : i \in S
  <2> HIDE DEF S
  <2> QED BY <1>1, <1>2, <1>3, StepByStep
<1>5. n \in S
  BY <1>1, <1>4
<1> QED BY <1>5 DEF n

\* It is a number.
LEMMA SumTyped == ASSUME NEW s \in Seq(Int) PROVE Sum(s) \in Int
<1>1. PICK f : Sums(f, s) /\ Sum(s) = f[Len(s)]
  BY SumIsLast
<1>2. Len(s) \in 0..Len(s)
  OBVIOUS
<1> QED BY <1>1, <1>2 DEF Sums

\* No readings.
LEMMA SumOfNone == Sum(<<>>) = 0
<1>1. <<>> \in Seq(Int) /\ Len(<<>>) = 0
  OBVIOUS
<1>2. PICK f : Sums(f, <<>>) /\ Sum(<<>>) = f[Len(<<>>)]
  BY <1>1, SumIsLast
<1> QED BY <1>1, <1>2 DEF Sums

\* One more.
LEMMA SumOfAppend ==
  ASSUME NEW s \in Seq(Int), NEW v \in Int
  PROVE  Sum(Append(s, v)) = Sum(s) + v
<1> DEFINE t == Append(s, v)
<1>1. /\ t \in Seq(Int) /\ Len(t) = Len(s) + 1 /\ Len(s) \in Nat
      /\ t[Len(s) + 1] = v /\ \A i \in 1..Len(s) : t[i] = s[i]
  OBVIOUS
<1> HIDE DEF t
<1>2. PICK f : Sums(f, s) /\ Sum(s) = f[Len(s)]
  BY SumIsLast
<1>3. PICK g : Sums(g, t) /\ Sum(t) = g[Len(t)]
  BY <1>1, SumIsLast
<1>4. g[Len(s)] = f[Len(s)]
  <2>1. Len(s) <= Len(t) /\ \A i \in 1..Len(s) : t[i] = s[i]
    BY <1>1
  <2> QED BY <1>1, <1>2, <1>3, <2>1, SumsAgree, Zenon
<1>5. Len(s) \in 0..Len(t)-1
  BY <1>1
<1>6. g[Len(s) + 1] = g[Len(s)] + t[Len(s) + 1]
  BY <1>3, <1>5 DEF Sums
<1> QED BY <1>1, <1>2, <1>3, <1>4, <1>6 DEF t

\* The oldest leaves.
LEMMA SumOfTail ==
  ASSUME NEW s \in Seq(Int), s # <<>>
  PROVE  Sum(Tail(s)) = Sum(s) - s[1]
<1> DEFINE t == Tail(s)
           n == Len(t)
<1>1. /\ t \in Seq(Int) /\ n = Len(s) - 1 /\ n \in Nat /\ s[1] \in Int
      /\ \A i \in 1..n : t[i] = s[i + 1]
  BY HeadTailProperties
<1>2. PICK f : Sums(f, s) /\ Sum(s) = f[Len(s)]
  BY SumIsLast
<1>3. PICK g : Sums(g, t) /\ Sum(t) = g[Len(t)]
  BY <1>1, SumIsLast
<1> DEFINE S == {i \in 0..n : g[i] = f[i + 1] - s[1]}
<1> HIDE DEF t
<1>4. /\ Len(s) = n + 1 /\ f \in [0..n+1 -> Int] /\ g \in [0..n -> Int]
      /\ f[0] = 0 /\ \A i \in 0..n : f[i + 1] = f[i] + s[i + 1]
      /\ g[0] = 0 /\ \A i \in 0..n-1 : g[i + 1] = g[i] + t[i + 1]
  <2>1. Len(s) = n + 1 /\ Len(s) - 1 = n
    BY <1>1
  <2> QED BY <1>2, <1>3, <2>1 DEF Sums
<1> HIDE DEF n
<1>5. 0 \in S
  <2>1. f[0 + 1] = f[0] + s[0 + 1]
    BY <1>1, <1>4
  <2> QED BY <1>1, <1>4, <2>1
<1>6. ASSUME NEW i \in 0..n-1, i \in S PROVE i + 1 \in S
  <2>1. i \in 0..n /\ i + 1 \in 0..n /\ i + 1 \in 1..n
    BY <1>1
  <2>2. g[i + 1] = g[i] + t[i + 1] /\ f[i + 1 + 1] = f[i + 1] + s[i + 1 + 1]
    BY <1>4, <2>1
  <2>3. t[i + 1] = s[i + 1 + 1] /\ t[i + 1] \in Int /\ f[i + 1] \in Int /\ g[i] \in Int
    <3>1. t[i + 1] = s[i + 1 + 1]
      BY <1>1, <2>1
    <3>2. t[i + 1] \in Int
      BY <1>1, <2>1 DEF n
    <3>3. i + 1 \in 0..n+1
      BY <1>1
    <3> QED BY <1>4, <2>1, <3>1, <3>2, <3>3
  <2>4. g[i] = f[i + 1] - s[1]
    BY <1>6
  <2> QED BY <1>1, <2>1, <2>2, <2>3, <2>4
<1>7. \A i \in 0..n : i \in S
  <2> HIDE DEF S
  <2> QED BY <1>1, <1>5, <1>6, StepByStep
<1>8. n \in S
  BY <1>1, <1>7
<1> QED BY <1>2, <1>3, <1>4, <1>8 DEF n, t

\* What leaves the window is what the total loses.
LEMMA TotalStep ==
  ASSUME Inv, TotalIsSum, NEW v \in Int, UpdateRSSI(v)
  PROVE  TotalIsSum'
<1> USE WindowSizeAssumption
<1> DEFINE vs == buffer.values
           n  == buffer.index
<1>1. /\ vs \in Seq(Int) /\ Len(vs) = Len(recent) /\ recent \in Seq(Int)
      /\ Len(vs) \in Nat /\ Len(vs) <= WindowSize /\ n \in 0..WindowSize-1
      /\ \A i \in 1..Len(recent) : vs[Slot(i)] = recent[i]
  BY DEF Inv, HoldsRecent, Buffer, BufLen
<1>2. buffer.total = Sum(recent) /\ Sum(recent) \in Int
  BY <1>1, SumTyped DEF TotalIsSum
<1>3. CASE Len(vs) < WindowSize
  <2>1. buffer'.total = buffer.total + v /\ recent' = Append(recent, v)
    BY <1>1, <1>3 DEF UpdateRSSI, AddValue, BufLen
  <2> QED BY <1>1, <1>2, <2>1, SumOfAppend DEF TotalIsSum
<1>4. CASE Len(vs) = WindowSize
  <2>1. buffer'.total = buffer.total - vs[n + 1] + v /\ recent' = Append(Tail(recent), v)
    BY <1>1, <1>4 DEF UpdateRSSI, AddValue, BufLen
  <2>2. recent # <<>> /\ Tail(recent) \in Seq(Int) /\ 1 \in 1..Len(recent)
    <3>1. recent \in Seq(Int) /\ Len(recent) \in Nat \ {0}
      BY <1>1, <1>4
    <3> QED BY <3>1, HeadTailProperties
  <2>3. vs[n + 1] = recent[1]
    <3>1. n \in 0..2 * WindowSize - 1 /\ n < WindowSize
      BY <1>1
    <3>2. n % WindowSize = n
      <4> HIDE DEF n
      <4> QED BY <3>1, Turn
    <3>3. Slot(1) = ((n + 1 - 1) % WindowSize) + 1
      BY <1>4 DEF Slot, BufLen
    <3>4. n + 1 - 1 = n
      BY <1>1
    <3> QED BY <1>1, <2>2, <3>2, <3>3, <3>4
  <2>4. Sum(recent') = Sum(recent) - recent[1] + v
    <3>1. Sum(Tail(recent)) = Sum(recent) - recent[1]
      BY <1>1, <2>2, SumOfTail
    <3>2. Sum(Append(Tail(recent), v)) = Sum(Tail(recent)) + v
      BY <2>2, SumOfAppend
    <3> QED BY <2>1, <3>1, <3>2
  <2> QED BY <1>2, <2>1, <2>3, <2>4 DEF TotalIsSum
<1> QED BY <1>1, <1>3, <1>4

\* However many readings came and went, the total that is kept up to date one
\* at a time is the sum of those in the window: the mean is their mean
\* (circularbuffer.go 42-74).
THEOREM TotalRight == Spec => []TotalIsSum
<1>1. Init => Inv /\ TotalIsSum
  <2>1. Init => TotalIsSum
    BY SumOfNone DEF Init, NewCircularBuffer, TotalIsSum
  <2> QED BY <2>1, NewWindow DEF Init
<1>2. Inv /\ TotalIsSum /\ [Next]_vars => (Inv /\ TotalIsSum)'
  <2> SUFFICES ASSUME Inv, TotalIsSum, [Next]_vars PROVE Inv' /\ TotalIsSum'
    OBVIOUS
  <2>1. TotalIsSum'
    <3>1. ASSUME NEW v \in Reading, UpdateRSSI(v) PROVE TotalIsSum'
      <4>1. v \in Int
        BY ReadingAssumption
      <4> QED BY <3>1, <4>1, TotalStep
    <3>2. CASE ResetStats
      BY <3>2, SumOfNone DEF ResetStats, NewCircularBuffer, TotalIsSum
    <3>3. CASE UNCHANGED vars
      BY <3>3 DEF vars, TotalIsSum
    <3> QED BY <3>1, <3>2, <3>3 DEF Next
  <2> QED BY <2>1, WindowStep
<1> QED BY <1>1, <1>2, PTL DEF Spec
=============================================================================
