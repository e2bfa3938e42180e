----------------------- MODULE ROSpecGenerationProofs -----------------------
(***************************************************************************)
(* What NewROSpec answers, for every table of power levels, channels and   *)
(* RF modes a reader may report, in any order and of any length, and every *)
(* behavior.                                                               *)
(***************************************************************************)
EXTENDS ROSpecGeneration, IterationProofs

\* Min finds the least number of a set.
LEMMA MinIsLeast ==
  ASSUME NEW S, S \subseteq Nat, S # {}
  PROVE  Min(S) \in S /\ \A y \in S : Min(S) <= y
BY HasLeast, Zenon DEF Min

\* Max finds the greatest of a set that has one.
LEMMA MaxIsGreatest ==
  ASSUME NEW n \in Nat, NEW S, S \subseteq 0..n, S # {}
  PROVE  Max(S) \in S /\ \A y \in S : y <= Max(S)
<1>1. \E x \in S : \A y \in S : x >= y
  <2>1. PICK x \in S : \A y \in S : y <= x
    BY HasGreatest
  <2>2. \A y \in S : x >= y
    BY <2>1
  <2> QED BY <2>2
<1>2. Max(S) \in S /\ \A y \in S : Max(S) >= y
  BY <1>1 DEF Max
<1> QED BY <1>2

\* Levels put in another order are the same levels.
LEMMA SameLevels ==
  ASSUME NEW levels \in Seq(Level), NEW s \in SortedLevels(levels)
  PROVE  s \in Seq(Level) /\ Ascending(s) /\ ToSet(s) = ToSet(levels) /\ Len(s) = Len(levels)
<1>1. CASE Ascending(levels)
  BY <1>1 DEF SortedLevels
<1>2. CASE ~Ascending(levels)
  <2>1. PICK p \in Orders(DOMAIN levels) : s = [i \in DOMAIN levels |-> levels[p[i]]]
    BY <1>2 DEF SortedLevels
  <2>2. Ascending(s)
    BY <1>2 DEF SortedLevels
  <2>3. /\ p \in [DOMAIN levels -> DOMAIN levels]
        /\ \A i \in DOMAIN levels : \E j \in DOMAIN levels : p[j] = i
    BY <2>1 DEF Orders
  <2>4. DOMAIN levels = 1..Len(levels) /\ Len(levels) \in Nat
    OBVIOUS
  <2>5. \A i \in 1..Len(levels) : s[i] = levels[p[i]] /\ s[i] \in Level
    BY <2>1, <2>3, <2>4
  <2>6. s \in [1..Len(levels) -> Level] /\ DOMAIN s = 1..Len(levels)
    BY <2>1, <2>4, <2>5
  <2>7. s \in Seq(Level) /\ Len(s) = Len(levels)
    BY <2>4, <2>6
  <2>8. ToSet(s) = ToSet(levels)
    BY <2>3, <2>4, <2>5, <2>6 DEF ToSet
  <2> QED BY <2>2, <2>7, <2>8
<1> QED BY <1>1, <1>2

\* The highest level that does not exceed the target, if there is one.
LEMMA PowerFound ==
  ASSUME NEW levels \in Seq(Level), levels # <<>>, Ascending(levels), NEW target \in Int
  PROVE  LET found == FindPower(levels, target)
             within == {l \in ToSet(levels) : l.power <= target}
         IN /\ found \in Level
            /\ found.power > target <=> within = {}
            /\ within # {} => found \in within /\ \A l \in within : l.power <= found.power
<1> DEFINE n     == Len(levels)
           above == {i \in DOMAIN levels : levels[i].power >= target} \cup {n + 1}
           i     == Search(levels, target)
           found == FindPower(levels, target)
           within == {l \in ToSet(levels) : l.power <= target}
<1>1. /\ n \in Nat \ {0} /\ DOMAIN levels = 1..n
      /\ \A j \in 1..n : levels[j] \in Level /\ levels[j].power \in Int
  <2>1. n \in Nat /\ DOMAIN levels = 1..n /\ \A j \in 1..n : levels[j] \in Level
    OBVIOUS
  <2>2. n # 0
    OBVIOUS
  <2>3. \A l \in Level : l.power \in Int
    BY DEF Level
  <2> HIDE DEF n
  <2> QED BY <2>1, <2>2, <2>3
<1>2. i \in above /\ \A j \in above : i <= j
  <2>1. above \subseteq Nat /\ above # {}
    BY <1>1
  <2> HIDE DEF above
  <2>2. i = Min(above)
    BY DEF above, Search
  <2> QED BY <2>1, <2>2, MinIsLeast
<1>3. i \in 1..n+1 /\ (i <= n => levels[i].power >= target)
      /\ \A j \in 1..n : j < i => levels[j].power < target
  BY <1>1, <1>2
<1>4. found = IF i = 1 THEN levels[1]
              ELSE IF i <= n /\ levels[i].power = target THEN levels[i] ELSE levels[i - 1]
  BY DEF FindPower
<1>5. \A j, k \in 1..n : j < k => levels[j].power <= levels[k].power
  BY <1>1 DEF Ascending
<1>6. within = {levels[j] : j \in {k \in 1..n : levels[k].power <= target}}
  BY <1>1 DEF ToSet
<1> HIDE DEF i, found, within
<1>7. CASE i = 1
  <2>1. found = levels[1] /\ found.power >= target
    BY <1>1, <1>3, <1>4, <1>7
  <2>2. \A j \in 1..n : levels[j].power >= found.power
    BY <1>1, <1>5, <2>1
  <2>3. CASE found.power = target
    <3>1. found \in within /\ \A l \in within : l.power <= found.power
      BY <1>1, <1>6, <2>1, <2>3
    <3> QED BY <1>1, <2>1, <2>3, <3>1 DEF found, within, Level
  <2>4. CASE found.power > target
    <3>1. within = {}
      BY <1>1, <1>6, <2>1, <2>2, <2>4
    <3> QED BY <1>1, <2>1, <2>4, <3>1 DEF found, within
  <2> QED BY <1>1, <2>1, <2>3, <2>4
<1>8. CASE i # 1
  <2>1. PICK j \in 1..n : /\ found = levels[j] /\ levels[j].power <= target
                          /\ \A k \in 1..n : levels[k].power <= target =>
                                                levels[k].power <= levels[j].power
    <3>1. CASE i <= n /\ levels[i].power = target
      BY <1>1, <1>3, <1>4, <1>8, <3>1
    <3>2. CASE ~(i <= n /\ levels[i].power = target)
      <4>1. found = levels[i - 1] /\ i - 1 \in 1..n
        BY <1>1, <1>3, <1>4, <1>8, <3>2
      <4>2. ASSUME NEW k \in 1..n, levels[k].power <= target
            PROVE  levels[k].power <= levels[i - 1].power
        <5>1. k < i
          <6>1. SUFFICES ASSUME k >= i PROVE FALSE
            BY <1>1, <1>3
          <6>2. i <= n /\ levels[i].power <= levels[k].power
            BY <1>1, <1>3, <1>5, <6>1
          <6> QED BY <1>1, <1>3, <3>2, <4>2, <6>2
        <5>2. k = i - 1 \/ k < i - 1
          BY <1>1, <1>3, <5>1
        <5> QED BY <1>1, <1>5, <4>1, <5>2
      <4> QED BY <1>1, <1>3, <1>8, <4>1, <4>2
    <3> QED BY <3>1, <3>2
  <2>2. found \in within /\ \A l \in within : l.power <= found.power
    BY <1>6, <2>1
  <2> QED BY <1>1, <2>1, <2>2 DEF found, within
<1> QED BY <1>7, <1>8

\* The channel of a permitted frequency, if the table has any.
LEMMA ChannelFound ==
  ASSUME NEW b, b.frequencies \in Seq(Nat), NEW table \in Seq(Nat)
  PROVE  /\ ChannelIndex(b, table) = 0 <=> ToSet(b.frequencies) \cap ToSet(table) = {}
         /\ ChannelIndex(b, table) # 0 =>
              /\ ChannelIndex(b, table) \in DOMAIN table
              /\ Permitted(b, table[ChannelIndex(b, table)])
<1> DEFINE known == Known(b, table)
           f     == b.frequencies[Min(known)]
           at    == {i \in DOMAIN table : table[i] = f}
<1>1. known \subseteq Nat \ {0} /\ at \subseteq Nat \ {0}
  BY DEF Known
<1>2. known = {} <=> ToSet(b.frequencies) \cap ToSet(table) = {}
  BY DEF Known, ToSet
<1>3. CASE known = {}
  BY <1>2, <1>3 DEF ChannelIndex
<1>4. CASE known # {}
  <2>1. Min(known) \in known
    <3> HIDE DEF known
    <3> QED BY <1>1, <1>4, MinIsLeast
  <2>2. Min(known) \in DOMAIN b.frequencies /\ f \in ToSet(table)
    BY <2>1 DEF Known
  <2>3. at # {}
    BY <2>2 DEF ToSet
  <2>4. Min(at) \in at
    <3> HIDE DEF at
    <3> QED BY <1>1, <2>3, MinIsLeast
  <2>5. ChannelIndex(b, table) = Min(at)
    BY <1>4 DEF ChannelIndex, Offset
  <2>6. Min(at) # 0 /\ Min(at) \in DOMAIN table /\ table[Min(at)] = f
    BY <1>1, <2>4
  <2>7. Permitted(b, f)
    BY <2>2 DEF Permitted
  <2> HIDE DEF at, f
  <2> QED BY <1>2, <1>4, <2>5, <2>6, <2>7
<1> QED BY <1>3, <1>4

-----------------------------------------------------------------------------
(* The modes of a device *)

\* Half a rate, and half of that, is a rate.
LEMMA ShiftedIsRate ==
  ASSUME NEW x \in Nat, NEW n \in Nat
  PROVE  Shifted(x, n) \in Nat
<1> DEFINE G == [i \in 1..n |-> [t \in Nat |-> t \div 2]]
           Recursive(f) == f = [i \in 0..n |-> IF i = 0 THEN x ELSE f[i-1] \div 2]
           by == CHOOSE f : Recursive(f)
<1>1. \E f : Recursive(f)
  <2>1. PICK g \in [0..n -> Nat] : Passes(g, n, x, G)
    <3>1. G \in [1..n -> [Nat -> Nat]]
      OBVIOUS
    <3> HIDE DEF G
    <3> QED BY <3>1, PassExists, Zenon
  <2>2. ASSUME NEW i \in 0..n PROVE g[i] = IF i = 0 THEN x ELSE g[i-1] \div 2
    <3>1. CASE i = 0
      BY <2>1, <3>1 DEF Passes
    <3>2. CASE i \in 1..n
      <4>1. g[i] = G[i][g[i-1]]
        BY <2>1, <3>2 DEF Passes
      <4>2. G[i] = [t \in Nat |-> t \div 2] /\ g[i-1] \in Nat
        BY <3>2
      <4> HIDE DEF G
      <4> QED BY <3>2, <4>1, <4>2
    <3> QED BY <3>1, <3>2
  <2>3. Recursive(g)
    BY <2>2
  <2> HIDE DEF Recursive
  <2> QED BY <2>3
<1>2. Recursive(by)
  <2> HIDE DEF Recursive
  <2> QED BY <1>1
<1>3. Shifted(x, n) = by[n]
  BY DEF Shifted
<1> HIDE DEF by
<1>4. \A i \in 0..n : by[i] = IF i = 0 THEN x ELSE by[i-1] \div 2
  BY <1>2
<1> HIDE DEF Recursive
<1> DEFINE S == {i \in 0..n : by[i] \in Nat}
<1>5. 0 \in S
  BY <1>4
<1>6. ASSUME NEW i \in 0..n-1, i \in S PROVE i + 1 \in S
  <2>1. ASSUME NEW j \in 0..n, j # 0 PROVE by[j] = by[j-1] \div 2
    BY <1>4, <2>1
  <2>2. i + 1 \in 0..n /\ i + 1 # 0 /\ i + 1 - 1 = i
    OBVIOUS
  <2>3. by[i + 1] = by[i] \div 2
    BY <2>1, <2>2
  <2> QED BY <1>6, <2>2, <2>3
<1>7. \A i \in 0..n : i \in S
  <2> HIDE DEF S
  <2> QED BY <1>5, <1>6, StepByStep
<1>8. n \in S
  BY <1>7
<1> QED BY <1>3, <1>8

\* What is kept of a mode is a mode.
LEMMA CorrectedIsMode ==
  ASSUME NEW m \in Mode
  PROVE  Corrected(m) \in Mode
<1>1. Shifted(m.bdr, m.modulation) \in Nat
  BY ShiftedIsRate DEF Mode
<1> QED BY <1>1 DEF Corrected, Mode

\* What a sequence holds once one more is appended.
LEMMA ToSetAppend ==
  ASSUME NEW V, NEW s \in Seq(V), NEW v \in V
  PROVE  ToSet(Append(s, v)) = ToSet(s) \cup {v}
<1> DEFINE t == Append(s, v)
<1>1. /\ Len(s) \in Nat /\ DOMAIN s = 1..Len(s) /\ DOMAIN t = 1..Len(s)+1
      /\ t[Len(s) + 1] = v /\ \A i \in 1..Len(s) : t[i] = s[i]
  OBVIOUS
<1> HIDE DEF t
<1>2. 1..Len(s)+1 = 1..Len(s) \cup {Len(s) + 1}
  BY <1>1
<1>3. ToSet(t) = ToSet(s) \cup {v}
  BY <1>1, <1>2 DEF ToSet
<1> QED BY <1>3 DEF t

\* What an Impinj device keeps of the modes it reported.
LEMMA ImpinjKeeps ==
  ASSUME NEW modes \in Seq(Mode)
  PROVE  /\ ImpinjModes(modes) \in Seq(Mode)
         /\ ToSet(ImpinjModes(modes)) =
              {Corrected(m) : m \in {x \in ToSet(modes) : x.id < AutosetID}}
<1> DEFINE n == Len(modes)
           V == Seq(Mode)
           G == [i \in 1..n |-> [s \in V |-> Kept(s, modes[i])]]
           Recursive(f) == f = [i \in 0..n |-> IF i = 0 THEN <<>> ELSE Kept(f[i-1], modes[i])]
           fixed == CHOOSE f : Recursive(f)
           Real(i) == {Corrected(modes[j]) : j \in {k \in 1..i : modes[k].id < AutosetID}}
<1>1. n \in Nat /\ DOMAIN modes = 1..n /\ \A i \in 1..n : modes[i] \in Mode
  OBVIOUS
<1> HIDE DEF n
<1>2. ASSUME NEW s \in V, NEW m \in Mode
      PROVE  /\ Kept(s, m) \in V
             /\ ToSet(Kept(s, m)) = ToSet(s) \cup (IF m.id < AutosetID THEN {Corrected(m)} ELSE {})
  <2>1. Corrected(m) \in Mode
    BY CorrectedIsMode
  <2>2. CASE m.id < AutosetID
    <3>1. Kept(s, m) = Append(s, Corrected(m))
      BY <2>2 DEF Kept
    <3>2. Append(s, Corrected(m)) \in V
      BY <2>1
    <3>3. ToSet(Append(s, Corrected(m))) = ToSet(s) \cup {Corrected(m)}
      BY <2>1, ToSetAppend
    <3> QED BY <2>2, <3>1, <3>2, <3>3
  <2>3. CASE ~(m.id < AutosetID)
    BY <2>3 DEF Kept
  <2> QED BY <2>2, <2>3
<1>3. \E f : Recursive(f)
  <2>1. PICK g \in [0..n -> V] : Passes(g, n, <<>>, G)
    <3>1. <<>> \in V /\ G \in [1..n -> [V -> V]]
      <4>1. <<>> \in V
        OBVIOUS
      <4> HIDE DEF V
      <4> QED BY <1>1, <1>2, <4>1
    <3> HIDE DEF G, V
    <3> QED BY <1>1, <3>1, PassExists, Zenon
  <2> HIDE DEF V
  <2>2. ASSUME NEW i \in 0..n PROVE g[i] = IF i = 0 THEN <<>> ELSE Kept(g[i-1], modes[i])
    <3>1. CASE i = 0
      BY <2>1, <3>1 DEF Passes
    <3>2. CASE i \in 1..n
      <4>1. g[i] = G[i][g[i-1]]
        BY <2>1, <3>2 DEF Passes
      <4>2. G[i] = [s \in V |-> Kept(s, modes[i])] /\ g[i-1] \in V
        BY <1>1, <3>2
      <4> HIDE DEF G
      <4> QED BY <3>2, <4>1, <4>2
    <3> QED BY <3>1, <3>2
  <2>3. Recursive(g)
    BY <2>2
  <2> HIDE DEF Recursive
  <2> QED BY <2>3
<1>4. Recursive(fixed)
  <2> HIDE DEF Recursive
  <2> QED BY <1>3
<1>5. ImpinjModes(modes) = fixed[n]
  BY DEF ImpinjModes, n
<1> HIDE DEF fixed
<1>6. \A i \in 0..n : fixed[i] = IF i = 0 THEN <<>> ELSE Kept(fixed[i-1], modes[i])
  BY <1>4
<1> HIDE DEF Recursive, G
<1> DEFINE S == {i \in 0..n : fixed[i] \in V /\ ToSet(fixed[i]) = Real(i)}
<1>7. 0 \in S
  <2>1. fixed[0] = <<>>
    BY <1>1, <1>6
  <2>2. ToSet(<<>>) = {} /\ Real(0) = {} /\ <<>> \in V
    BY DEF ToSet
  <2>3. 0 \in 0..n
    BY <1>1
  <2> HIDE DEF V, Real
  <2> QED BY <2>1, <2>2, <2>3
<1>8. ASSUME NEW i \in 0..n-1, i \in S PROVE i + 1 \in S
  <2>1. ASSUME NEW j \in 0..n, j # 0 PROVE fixed[j] = Kept(fixed[j-1], modes[j])
    BY <1>6, <2>1
  <2>2. i + 1 \in 0..n /\ i + 1 # 0 /\ i + 1 - 1 = i /\ i + 1 \in 1..n
    BY <1>1
  <2>3. fixed[i + 1] = Kept(fixed[i], modes[i + 1])
    BY <2>1, <2>2
  <2> DEFINE m == modes[i + 1]
             s == fixed[i]
  <2>4. m \in Mode /\ s \in V /\ ToSet(s) = Real(i)
    BY <1>1, <1>8, <2>2
  <2>5. Real(i + 1) = Real(i) \cup (IF m.id < AutosetID THEN {Corrected(m)} ELSE {})
    <3>1. 1..i+1 = 1..i \cup {i + 1}
      BY <1>1
    <3> QED BY <3>1
  <2> HIDE DEF m, s, Real, V
  <2>6. Kept(s, m) \in V /\ ToSet(Kept(s, m)) = Real(i + 1)
    BY <1>2, <2>4, <2>5
  <2> QED BY <2>2, <2>3, <2>6 DEF m, s
<1>9. \A i \in 0..n : i \in S
  <2> HIDE DEF S
  <2> QED BY <1>1, <1>7, <1>8, StepByStep
<1>10. n \in S
  <2> HIDE DEF S
  <2> QED BY <1>1, <1>9
<1>11. Real(n) = {Corrected(m) : m \in {x \in ToSet(modes) : x.id < AutosetID}}
  BY <1>1 DEF ToSet
<1> QED BY <1>5, <1>10, <1>11

-----------------------------------------------------------------------------
(* The best of them *)

\* A larger product of what is larger.
LEMMA Cancel ==
  ASSUME NEW x \in Int, NEW y \in Int, NEW k \in Nat \ {0}
  PROVE  x * k < y * k <=> x < y
<1>1. CASE x < y
  <2>1. x + 1 <= y
    BY <1>1
  <2>2. (x + 1) * k <= y * k
    BY <2>1
  <2>3. (x + 1) * k = x * k + k /\ x * k \in Int /\ y * k \in Int
    OBVIOUS
  <2> QED BY <1>1, <2>2, <2>3
<1>2. CASE y <= x
  <2>1. y * k <= x * k
    BY <1>2
  <2>2. x * k \in Int /\ y * k \in Int
    OBVIOUS
  <2> QED BY <1>2, <2>1, <2>2
<1> QED BY <1>1, <1>2

Fraction == [num : Nat, den : Nat]

\* Fractions of which one is less than the next are in that order.
LEMMA LessTransitive ==
  ASSUME NEW a \in Fraction, NEW b \in Fraction, NEW c \in Fraction, Less(a, b), Less(b, c)
  PROVE  Less(a, c)
<1> DEFINE an == a.num
           ad == a.den
           bn == b.num
           bd == b.den
           cn == c.num
           cd == c.den
<1>1. /\ an \in Nat /\ bn \in Nat /\ cn \in Nat
      /\ ad \in Nat \ {0} /\ bd \in Nat \ {0} /\ cd \in Nat
      /\ an * bd < bn * ad
      /\ cd = 0 \/ bn * cd < cn * bd
  BY DEF Less, Fraction
<1>2. cd = 0 \/ an * cd < cn * ad
  <2> HIDE DEF an, ad, bn, bd, cn, cd
  <2>1. SUFFICES ASSUME cd # 0 PROVE an * cd < cn * ad
    OBVIOUS
  <2>2. cd \in Nat \ {0} /\ bn * cd < cn * bd
    BY <1>1, <2>1
  <2>3. (an * bd) * cd < (bn * ad) * cd
    <3>1. an * bd \in Int /\ bn * ad \in Int
      BY <1>1
    <3> QED BY <1>1, <2>2, <3>1, Cancel
  <2>4. (bn * cd) * ad < (cn * bd) * ad
    <3>1. bn * cd \in Int /\ cn * bd \in Int
      BY <1>1, <2>2
    <3> QED BY <1>1, <2>2, <3>1, Cancel
  <2>5. (an * bd) * cd = (an * cd) * bd /\ (cn * bd) * ad = (cn * ad) * bd
        /\ (bn * ad) * cd = (bn * cd) * ad
    BY <1>1, <2>2
  <2>6. an * cd \in Int /\ cn * ad \in Int /\ (bn * cd) * ad \in Int
        /\ (an * cd) * bd \in Int /\ (cn * ad) * bd \in Int
    BY <1>1, <2>2
  <2>7. (an * cd) * bd < (cn * ad) * bd
    <3> DEFINE p == (an * cd) * bd
               q == (cn * ad) * bd
               r == (bn * cd) * ad
    <3>1. p < r /\ r < q /\ p \in Int /\ q \in Int /\ r \in Int
      BY <2>3, <2>4, <2>5, <2>6
    <3> HIDE DEF p, q, r
    <3>2. p < q
      BY <3>1
    <3> QED BY <3>2 DEF p, q
  <2> QED BY <1>1, <2>6, <2>7, Cancel
<1> QED BY <1>1, <1>2 DEF Less

\* Nothing is less than itself.
LEMMA NotLessThanItself ==
  ASSUME NEW a \in Fraction
  PROVE  ~Less(a, a)
<1>1. a.num * a.den \in Int
  BY DEF Fraction
<1> QED BY <1>1 DEF Less

\* A mode's mask is a number of one byte.
LEMMA MaskIsNumber == \A m \in Mode : m.mask \in 0..255 /\ m.mask \in Nat
<1>1. \A x \in 0..255 : x \in Nat
  OBVIOUS
<1>2. \A m \in Mode : m.mask \in 0..255
  BY DEF Mode
<1> QED BY <1>1, <1>2, Zenon

\* A mode's score is a fraction.
LEMMA ScoreIsFraction == \A m \in Mode : Score(m) \in Fraction
<1> SUFFICES ASSUME NEW m \in Mode PROVE Score(m) \in Fraction
  OBVIOUS
<1>1. /\ BestRTcal \in Nat /\ BestBDR \in Nat /\ m.bdr \in Nat /\ m.rtcal \in Nat
  BY GenerationAssumption DEF Mode
<1>2. BestRTcal * m.bdr + BestBDR * m.rtcal \in Nat /\ m.rtcal * m.bdr \in Nat
  BY <1>1
<1> QED BY <1>2 DEF Score, Fraction

\* The best of the first k modes at or above the mask, or 0 if there are none.
BestOf(modes, mask, k, best) ==
  /\ best \in 0..k
  /\ best = 0 => \A i \in 1..k : modes[i].mask < mask
  /\ best # 0 =>
       /\ modes[best].mask >= mask
       /\ \A i \in 1..k :
            modes[i].mask >= mask => ~Less(Score(modes[i]), Score(modes[best]))

\* One more mode.
LEMMA BetterOf ==
  ASSUME NEW modes \in Seq(Mode), NEW mask \in Nat, NEW k \in 0..Len(modes)-1,
         NEW best, BestOf(modes, mask, k, best)
  PROVE  BestOf(modes, mask, k + 1, Better(modes, mask, best, k + 1))
<1> DEFINE new == Better(modes, mask, best, k + 1)
           m   == modes[k + 1]
<1>1. /\ \A i \in 1..k+1 : /\ modes[i] \in Mode /\ modes[i].mask \in Nat
                            /\ Score(modes[i]) \in Fraction
      /\ k \in Nat /\ k + 1 \in 1..k+1
  <2>1. k \in Nat /\ k + 1 <= Len(modes) /\ \A i \in 1..Len(modes) : modes[i] \in Mode
    OBVIOUS
  <2>2. \A i \in 1..k+1 : modes[i] \in Mode
    BY <2>1
  <2> QED BY <2>1, <2>2, MaskIsNumber, ScoreIsFraction
<1>2. /\ best \in 0..k
      /\ best = 0 => \A i \in 1..k : modes[i].mask < mask
      /\ best # 0 => modes[best].mask >= mask
      /\ best # 0 => \A i \in 1..k : modes[i].mask >= mask =>
                                       ~Less(Score(modes[i]), Score(modes[best]))
  BY DEF BestOf
<1>3. \A i \in 1..k+1 : i \in 1..k \/ i = k + 1
  BY <1>1
<1>4. CASE m.mask < mask
  <2>1. new = best
    BY <1>4 DEF Better
  <2>2. ~(m.mask >= mask)
    BY <1>1, <1>4
  <2> HIDE DEF new
  <2> QED BY <1>1, <1>2, <1>3, <1>4, <2>1, <2>2 DEF BestOf, new
<1>5. CASE ~(m.mask < mask) /\ (best = 0 \/ Less(Score(m), Score(modes[best])))
  <2>1. new = k + 1
    BY <1>5 DEF Better
  <2>2. m.mask >= mask
    BY <1>1, <1>5
  <2>3. ASSUME NEW i \in 1..k+1, modes[i].mask >= mask PROVE ~Less(Score(modes[i]), Score(m))
    <3>1. CASE i = k + 1
      BY <1>1, <3>1, NotLessThanItself
    <3>2. CASE i \in 1..k
      <4>1. best # 0 /\ best \in 1..k+1
        <5>1. modes[i].mask \in Nat
          BY <1>1
        <5>2. best # 0
          BY <1>2, <2>3, <3>2, <5>1
        <5> QED BY <1>1, <1>2, <5>2
      <4>2. ~Less(Score(modes[i]), Score(modes[best])) /\ Less(Score(m), Score(modes[best]))
        BY <1>2, <1>5, <2>3, <3>2, <4>1
      <4> QED BY <1>1, <4>1, <4>2, LessTransitive
    <3> QED BY <1>3, <3>1, <3>2
  <2>4. k + 1 \in 0..k+1 /\ k + 1 # 0
    BY <1>1
  <2> HIDE DEF new
  <2> QED BY <2>1, <2>2, <2>3, <2>4 DEF BestOf, new
<1>6. CASE ~(m.mask < mask) /\ ~(best = 0 \/ Less(Score(m), Score(modes[best])))
  <2>1. new = best /\ best # 0 /\ best \in 0..k+1
    BY <1>1, <1>2, <1>6 DEF Better
  <2>2. \A i \in 1..k+1 : modes[i].mask >= mask =>
                            ~Less(Score(modes[i]), Score(modes[best]))
    BY <1>2, <1>3, <1>6
  <2> HIDE DEF new
  <2> QED BY <1>2, <2>1, <2>2 DEF BestOf, new
<1> QED BY <1>4, <1>5, <1>6

\* FastestAt finds the best of all.
LEMMA FastestIsBest ==
  ASSUME NEW modes \in Seq(Mode), NEW mask \in Nat
  PROVE  BestOf(modes, mask, Len(modes), FastestAt(modes, mask))
<1> DEFINE n == Len(modes)
           V == 0..n
           G == [i \in 1..n |-> [b \in V |-> Better(modes, mask, b, i)]]
           Recursive(f) ==
             f = [i \in 0..n |-> IF i = 0 THEN 0 ELSE Better(modes, mask, f[i-1], i)]
           found == CHOOSE f : Recursive(f)
<1>1. n \in Nat /\ 0 \in V
  OBVIOUS
<1> HIDE DEF n
<1>2. \E f : Recursive(f)
  <2>1. PICK g \in [0..n -> V] : Passes(g, n, 0, G)
    <3>1. ASSUME NEW i \in 1..n, NEW b \in V PROVE Better(modes, mask, b, i) \in V
      <4>1. Better(modes, mask, b, i) \in {b, i}
        BY DEF Better
      <4>2. i \in V
        BY <1>1
      <4> QED BY <4>1, <4>2
    <3> HIDE DEF V
    <3>2. G \in [1..n -> [V -> V]]
      BY <3>1
    <3> HIDE DEF G
    <3> QED BY <1>1, <3>2, PassExists, Zenon
  <2>2. ASSUME NEW i \in 0..n
        PROVE  g[i] = IF i = 0 THEN 0 ELSE Better(modes, mask, g[i-1], i)
    <3>1. CASE i = 0
      BY <2>1, <3>1 DEF Passes
    <3>2. CASE i \in 1..n
      <4>1. g[i] = G[i][g[i-1]]
        BY <2>1, <3>2 DEF Passes
      <4>2. i - 1 \in 0..n
        BY <1>1, <3>2
      <4> HIDE DEF V
      <4>3. G[i] = [b \in V |-> Better(modes, mask, b, i)] /\ g[i-1] \in V
        BY <3>2, <4>2
      <4> HIDE DEF G
      <4>4. i # 0
        BY <3>2
      <4> QED BY <4>1, <4>3, <4>4
    <3> QED BY <1>1, <3>1, <3>2
  <2>3. Recursive(g)
    BY <2>2
  <2> HIDE DEF Recursive
  <2> QED BY <2>3
<1>3. Recursive(found)
  <2> HIDE DEF Recursive
  <2> QED BY <1>2
<1>4. FastestAt(modes, mask) = found[n]
  BY DEF FastestAt, n
<1> HIDE DEF found
<1>5. \A i \in 0..n : found[i] = IF i = 0 THEN 0 ELSE Better(modes, mask, found[i-1], i)
  BY <1>3
<1> HIDE DEF Recursive, G, V
<1> DEFINE S == {i \in 0..n : BestOf(modes, mask, i, found[i])}
<1>6. 0 \in S
  <2>1. found[0] = 0 /\ 0 \in 0..n /\ 1..0 = {} /\ 0 \in 0..0
    BY <1>1, <1>5
  <2> QED BY <2>1 DEF BestOf
<1>7. ASSUME NEW i \in 0..n-1, i \in S PROVE i + 1 \in S
  <2>1. ASSUME NEW j \in 0..n, j # 0 PROVE found[j] = Better(modes, mask, found[j-1], j)
    BY <1>5, <2>1
  <2>2. i + 1 \in 0..n /\ i + 1 # 0 /\ i + 1 - 1 = i
    BY <1>1
  <2>3. found[i + 1] = Better(modes, mask, found[i], i + 1)
    BY <2>1, <2>2
  <2>4. BestOf(modes, mask, i + 1, Better(modes, mask, found[i], i + 1))
    BY <1>7, BetterOf DEF n
  <2> QED BY <2>2, <2>3, <2>4
<1>8. \A i \in 0..n : i \in S
  <2> HIDE DEF S
  <2> QED BY <1>1, <1>6, <1>7, StepByStep
<1>9. BestOf(modes, mask, n, found[n])
  <2>1. n \in 0..n
    BY <1>1
  <2> QED BY <1>8, <2>1
<1> QED BY <1>4, <1>9 DEF n

\* The mode found is the best of those with some mask, which is the one that is
\* called for or, if no mode has that, the highest there is.
LEMMA ModeFound ==
  ASSUME NEW modes \in Seq(Mode), modes # <<>>, NEW d, d.modes = modes,
         d.nFreqs \in Nat, NEW n \in Nat
  PROVE  /\ FindBestMode(d, n) \in 1..Len(modes)
         /\ \E k \in 0..MaskTarget(n, d.nFreqs) :
              /\ modes[FindBestMode(d, n)].mask >= k
              /\ k = MaskTarget(n, d.nFreqs) \/ \A i \in 1..Len(modes) : modes[i].mask <= k
              /\ \A i \in 1..Len(modes) : modes[i].mask >= k =>
                   ~Less(Score(modes[i]), Score(modes[FindBestMode(d, n)]))
<1> DEFINE T     == MaskTarget(n, d.nFreqs)
           best  == FindBestMode(d, n)
           tried == {m \in 0..T : FastestAt(modes, m) # 0}
           k     == Max(tried)
<1>1. T \in Nat
  BY DEF MaskTarget, Dense
<1>2. /\ Len(modes) \in Nat \ {0}
      /\ \A i \in 1..Len(modes) : modes[i].mask \in Nat
  <2>1. Len(modes) \in Nat /\ Len(modes) # 0 /\ \A i \in 1..Len(modes) : modes[i] \in Mode
    OBVIOUS
  <2> QED BY <2>1, MaskIsNumber
<1>3. ASSUME NEW m \in Nat PROVE BestOf(modes, m, Len(modes), FastestAt(modes, m))
  BY FastestIsBest
<1>4. best = IF tried = {} THEN 0 ELSE FastestAt(modes, k)
  BY DEF FindBestMode
<1> HIDE DEF T, best
<1>5. 0 \in tried
  <2>1. SUFFICES ASSUME FastestAt(modes, 0) = 0 PROVE FALSE
    BY <1>1
  <2>2. 1 \in 1..Len(modes) /\ modes[1].mask < 0
    BY <1>2, <1>3, <2>1 DEF BestOf
  <2> QED BY <1>2, <2>2
<1>6. k \in tried /\ \A m \in tried : m <= k
  <2>1. tried \subseteq 0..T /\ tried # {}
    BY <1>5
  <2> HIDE DEF tried
  <2> QED BY <1>1, <2>1, MaxIsGreatest
<1>7. best = FastestAt(modes, k) /\ best # 0 /\ k \in 0..T /\ k \in Nat
  BY <1>1, <1>4, <1>5, <1>6
<1> HIDE DEF k
<1>8. /\ best \in 1..Len(modes) /\ modes[best].mask >= k
      /\ \A i \in 1..Len(modes) : modes[i].mask >= k =>
                                   ~Less(Score(modes[i]), Score(modes[best]))
  <2>1. BestOf(modes, k, Len(modes), best)
    BY <1>3, <1>7
  <2>2. best \in 0..Len(modes)
    BY <2>1 DEF BestOf
  <2> QED BY <1>2, <1>7, <2>1, <2>2 DEF BestOf
<1>9. ASSUME k # T, NEW i \in 1..Len(modes) PROVE modes[i].mask <= k
  <2>1. SUFFICES ASSUME modes[i].mask > k PROVE FALSE
    BY <1>2, <1>7
  <2>2. k + 1 \in 0..T /\ k + 1 \in Nat /\ modes[i].mask >= k + 1
    BY <1>1, <1>2, <1>7, <1>9, <2>1
  <2>3. FastestAt(modes, k + 1) # 0
    <3>1. SUFFICES ASSUME FastestAt(modes, k + 1) = 0 PROVE FALSE
      OBVIOUS
    <3>2. modes[i].mask < k + 1
      BY <1>3, <2>2, <3>1 DEF BestOf
    <3> QED BY <1>2, <1>7, <2>2, <3>2
  <2>4. k + 1 \in tried
    BY <2>2, <2>3
  <2> HIDE DEF tried
  <2> QED BY <1>6, <1>7, <2>4
<1> QED BY <1>7, <1>8, <1>9 DEF T, best

\* What a device keeps of the modes it was made from.
LEMMA ModesDigested ==
  ASSUME NEW c \in Capabilities, Complete(c), NEW d \in Devices(c)
  PROVE  /\ d.modes \in Seq(Mode) /\ d.nFreqs = Len(Frequencies(c)) /\ d.nFreqs \in Nat
         /\ ToSet(d.modes) =
              IF c.impinj THEN {Corrected(m) : m \in {x \in ToSet(c.modes) : x.id < AutosetID}}
                          ELSE ToSet(c.modes)
<1>1. c.modes \in Seq(Mode) /\ c.impinj \in BOOLEAN
  BY GenerationAssumption
<1>2. PICK basic \in BasicDevices(c) :
        d = IF c.impinj THEN [basic EXCEPT !.modes = ImpinjModes(@), !.impinj = TRUE]
                        ELSE basic
  <2>1. CASE c.impinj
    BY <2>1 DEF Devices
  <2>2. CASE ~c.impinj
    BY <2>2 DEF Devices
  <2> QED BY <2>1, <2>2
<1>3. basic.modes = c.modes /\ basic.nFreqs = Len(Frequencies(c))
      /\ DOMAIN basic = {"modes", "pwrMinToMax", "hopping", "nFreqs", "nGPIs",
                         "nSpecsPerRO", "stateAware", "impinj"}
  BY DEF BasicDevices
<1>4. d.modes = (IF c.impinj THEN ImpinjModes(c.modes) ELSE c.modes) /\ d.nFreqs = basic.nFreqs
  BY <1>1, <1>2, <1>3
<1>5. Len(Frequencies(c)) \in Nat
  <2>1. /\ c.fixed \in Seq(Nat) /\ c.hopTables \in Seq(HopTable)
        /\ c.hopping \in BOOLEAN /\ (c.hopping => c.hopTables # <<>>)
    BY GenerationAssumption DEF Complete
  <2>2. CASE c.hopping
    <3>1. c.hopTables[1] \in HopTable
      BY <2>1, <2>2
    <3>2. c.hopTables[1].frequencies \in Seq(Nat)
      BY <3>1 DEF HopTable
    <3> QED BY <2>1, <2>2, <3>2 DEF Frequencies
  <2>3. CASE ~c.hopping
    BY <2>1, <2>3 DEF Frequencies
  <2> QED BY <2>1, <2>2, <2>3
<1> QED BY <1>1, <1>3, <1>4, <1>5, ImpinjKeeps
-----------------------------------------------------------------------------
(* The invariant: the device is one of what its reader reported, and the   *)
(* answer is what NewROSpec makes of it.                                   *)

Inv ==
  /\ device # Nothing => caps \in Capabilities /\ Complete(caps) /\ device \in Devices(caps)
  /\ asked # Nothing =>
       /\ device # Nothing
       /\ asked.behavior \in Behaviors /\ asked.nReaders \in Environments
       /\ answer = NewROSpec(device, caps, asked.behavior, asked.nReaders)

THEOREM Invariant == Spec => []Inv
<1>1. Init => Inv
  BY DEF Init, Inv
<1>2. Inv /\ [Next]_vars => Inv'
  <2> SUFFICES ASSUME Inv, [Next]_vars PROVE Inv'
    OBVIOUS
  <2>1. CASE Connect
    BY <2>1 DEF Inv, Connect
  <2>2. CASE Ask
    <3>1. PICK b \in Behaviors, n \in Environments :
            /\ asked' = [behavior |-> b, nReaders |-> n]
            /\ answer' = NewROSpec(device, caps, b, n)
      BY <2>2 DEF Ask
    <3>2. asked'.behavior = b /\ asked'.nReaders = n
      BY <3>1
    <3> QED BY <2>2, <3>1, <3>2 DEF Inv, Ask
  <2>3. CASE Take
    BY <2>3 DEF Inv, Take
  <2>4. CASE Disconnect
    BY <2>4 DEF Inv, Disconnect
  <2>5. CASE UNCHANGED vars
    BY <2>5 DEF Inv, vars
  <2> QED BY <2>1, <2>2, <2>3, <2>4, <2>5 DEF Next
<1> QED BY <1>1, <1>2, PTL DEF Spec

\* What a device keeps of the capabilities it was made from.
LEMMA Digested ==
  ASSUME NEW c \in Capabilities, Complete(c), NEW d \in Devices(c)
  PROVE  /\ d.pwrMinToMax \in Seq(Level) /\ d.pwrMinToMax # <<>> /\ Ascending(d.pwrMinToMax)
         /\ ToSet(d.pwrMinToMax) = ToSet(c.levels)
         /\ d.hopping = c.hopping /\ d.nGPIs = c.nGPIs /\ d.nSpecsPerRO = c.nSpecsPerRO
         /\ d.stateAware = c.stateAware /\ d.impinj = c.impinj
<1> DEFINE Basic(levels) ==
             [modes |-> c.modes, pwrMinToMax |-> levels, hopping |-> c.hopping,
              nFreqs |-> Len(Frequencies(c)), nGPIs |-> c.nGPIs,
              nSpecsPerRO |-> c.nSpecsPerRO, stateAware |-> c.stateAware, impinj |-> FALSE]
<1>1. PICK basic \in BasicDevices(c) :
        d = IF c.impinj THEN [basic EXCEPT !.modes = ImpinjModes(@), !.impinj = TRUE]
                        ELSE basic
  <2>1. CASE c.impinj
    BY <2>1 DEF Devices
  <2>2. CASE ~c.impinj
    BY <2>2 DEF Devices
  <2> QED BY <2>1, <2>2
<1>2. PICK levels \in SortedLevels(c.levels) : basic = Basic(levels)
  BY DEF BasicDevices
<1>3. c.levels \in Seq(Level) /\ c.levels # <<>> /\ c.impinj \in BOOLEAN
  <2>1. c.levels # <<>>
    BY DEF Complete
  <2> QED BY <2>1, GenerationAssumption
<1>4. /\ levels \in Seq(Level) /\ Ascending(levels) /\ ToSet(levels) = ToSet(c.levels)
      /\ Len(levels) = Len(c.levels)
  BY <1>3, SameLevels
<1>5. levels # <<>>
  BY <1>3, <1>4
<1>6. /\ d.pwrMinToMax = levels /\ d.hopping = c.hopping /\ d.nGPIs = c.nGPIs
      /\ d.nSpecsPerRO = c.nSpecsPerRO /\ d.stateAware = c.stateAware /\ d.impinj = c.impinj
  BY <1>1, <1>2, <1>3
<1> QED BY <1>4, <1>5, <1>6

\* Transmit, in terms of what was reported.
LEMMA Transmits ==
  ASSUME NEW c \in Capabilities, Complete(c), NEW d \in Devices(c), NEW b \in Behaviors
  PROVE  LET t      == Transmit(d, c, b)
             within == {l \in ToSet(c.levels) : l.power <= b.power}
             common == ToSet(b.frequencies) \cap ToSet(c.fixed)
         IN /\ t.error # NoError <=> within = {} \/ (~c.hopping /\ common = {})
            /\ t.error = NoError /\ c.hopping =>
                 \E l \in within : /\ l.index = t.power
                                   /\ \A other \in within : other.power <= l.power
            /\ t.error = NoError /\ ~c.hopping =>
                 t.channel \in DOMAIN c.fixed /\ Permitted(b, c.fixed[t.channel])
<1> DEFINE t       == Transmit(d, c, b)
           within  == {l \in ToSet(c.levels) : l.power <= b.power}
           common  == ToSet(b.frequencies) \cap ToSet(c.fixed)
           level   == FindPower(d.pwrMinToMax, b.power)
           channel == ChannelIndex(b, c.fixed)
           hopTable == c.hopTables[1].id
<1>1. /\ b.power \in Int /\ b.frequencies \in Seq(Nat) /\ c.fixed \in Seq(Nat)
      /\ d.hopping = c.hopping /\ c.hopping \in BOOLEAN
  BY Digested, GenerationAssumption
<1>2. /\ level.power > b.power <=> within = {}
      /\ within # {} => level \in within /\ \A l \in within : l.power <= level.power
  <2>1. /\ d.pwrMinToMax \in Seq(Level) /\ d.pwrMinToMax # <<>> /\ Ascending(d.pwrMinToMax)
        /\ ToSet(d.pwrMinToMax) = ToSet(c.levels)
    BY Digested
  <2> DEFINE levels == d.pwrMinToMax
  <2> HIDE DEF levels
  <2>2. /\ FindPower(levels, b.power).power > b.power
             <=> {l \in ToSet(levels) : l.power <= b.power} = {}
        /\ {l \in ToSet(levels) : l.power <= b.power} # {} =>
             /\ FindPower(levels, b.power) \in {l \in ToSet(levels) : l.power <= b.power}
             /\ \A l \in {m \in ToSet(levels) : m.power <= b.power} :
                  l.power <= FindPower(levels, b.power).power
    BY <1>1, <2>1, PowerFound DEF levels
  <2> QED BY <2>1, <2>2 DEF levels
<1>3. /\ channel = 0 <=> common = {}
      /\ channel # 0 => channel \in DOMAIN c.fixed /\ Permitted(b, c.fixed[channel])
  BY <1>1, ChannelFound
<1>4. t = IF level.power > b.power THEN ErrUnsatisfiable
          ELSE IF c.hopping THEN Transmitter(hopTable, 0, level.index)
          ELSE IF channel = 0 THEN ErrUnsatisfiable
          ELSE Transmitter(0, channel, 0)
  BY <1>1 DEF Transmit
<1>5. /\ ErrUnsatisfiable.error # NoError
      /\ \A h, ch, p : /\ Transmitter(h, ch, p).error = NoError
                       /\ Transmitter(h, ch, p).channel = ch
                       /\ Transmitter(h, ch, p).power = p
  BY DEF ErrUnsatisfiable, NoError, Transmitter
<1> HIDE DEF t, within, common, level, channel, hopTable
<1>6. CASE level.power > b.power
  BY <1>2, <1>4, <1>5, <1>6 DEF t, within, common
<1>7. CASE ~(level.power > b.power) /\ c.hopping
  <2>1. t = Transmitter(hopTable, 0, level.index)
    BY <1>4, <1>7
  <2>2. t.error = NoError /\ t.power = level.index /\ within # {}
    BY <1>2, <1>5, <1>7, <2>1
  <2>3. \E l \in within : l.index = t.power /\ \A other \in within : other.power <= l.power
    BY <1>2, <2>2
  <2> QED BY <1>7, <2>2, <2>3 DEF t, within, common
<1>8. CASE ~(level.power > b.power) /\ ~c.hopping
  <2>1. t = IF channel = 0 THEN ErrUnsatisfiable ELSE Transmitter(0, channel, 0)
    BY <1>4, <1>8
  <2>2. within # {} /\ (t.error # NoError <=> channel = 0)
    BY <1>2, <1>5, <1>8, <2>1
  <2>3. t.error = NoError => t.channel \in DOMAIN c.fixed /\ Permitted(b, c.fixed[t.channel])
    BY <1>3, <1>5, <2>1, <2>2
  <2> QED BY <1>3, <1>8, <2>2, <2>3 DEF t, within, common
<1> QED BY <1>6, <1>7, <1>8

\* The error of an answer.
LEMMA AnswerIsError ==
  ASSUME NEW d, NEW c, NEW b, NEW n
  PROVE  NewROSpec(d, c, b, n) = ErrUnsatisfiable
           <=> ~ValidPort(d, b) \/ Transmit(d, c, b).error # NoError
<1> DEFINE a == NewROSpec(d, c, b, n)
<1>1. NoError # ErrUnsatisfiable.error /\ Panicked.error # ErrUnsatisfiable.error
  BY DEF ErrUnsatisfiable, Panicked, NoError
<1>2. CASE ~ValidPort(d, b) \/ Transmit(d, c, b).error # NoError
  BY <1>2 DEF NewROSpec
<1>3. CASE ~(~ValidPort(d, b) \/ Transmit(d, c, b).error # NoError)
  <2>1. a.error = NoError \/ a = Panicked
    BY <1>3 DEF NewROSpec
  <2> HIDE DEF a
  <2>2. a # ErrUnsatisfiable
    BY <1>1, <2>1
  <2> QED BY <1>3, <2>2 DEF a
<1> QED BY <1>2, <1>3

\* The parts of an answer that is no error.
LEMMA AnswerParts ==
  ASSUME NEW d, NEW c, NEW b, NEW n, NewROSpec(d, c, b, n).error = NoError
  PROVE  /\ Transmit(d, c, b).error = NoError
         /\ FindBestMode(d, n) # 0
         /\ NewROSpec(d, c, b, n).mode = d.modes[FindBestMode(d, n)]
         /\ NewROSpec(d, c, b, n).transmit = Transmit(d, c, b)
         /\ NewROSpec(d, c, b, n).queries = Queries(d, b)
         /\ NewROSpec(d, c, b, n).search = SearchMode(d, b)
<1>1. ErrUnsatisfiable.error # NoError /\ Panicked.error # NoError
  BY DEF ErrUnsatisfiable, Panicked, NoError
<1> QED BY <1>1 DEF NewROSpec

\* Only where no mode is found does it panic.
LEMMA PanicsWithoutMode ==
  ASSUME NEW d, NEW c, NEW b, NEW n, NewROSpec(d, c, b, n) = Panicked
  PROVE  FindBestMode(d, n) = 0
<1>1. ErrUnsatisfiable.error # Panicked.error /\ NoError # Panicked.error
  BY DEF ErrUnsatisfiable, Panicked, NoError
<1>2. SUFFICES ASSUME FindBestMode(d, n) # 0 PROVE FALSE
  OBVIOUS
<1>3. NewROSpec(d, c, b, n).error # Panicked.error
  BY <1>1, <1>2 DEF NewROSpec
<1> QED BY <1>3

\* The flags of a query.
LEMMA QueryFlags ==
  ASSUME NEW session, NEW state, NEW filter \in BOOLEAN, NEW stops \in BOOLEAN
  PROVE  /\ Query(session, state, filter, stops).filter = filter
         /\ Query(session, state, filter, stops).stops = stops
BY DEF Query

\* The queries of a deep scan, by what the reader can do.
LEMMA DeepQueries ==
  ASSUME NEW d, NEW aware \in BOOLEAN, NEW n \in Nat \ {0},
         d.stateAware = aware, d.nSpecsPerRO = n
  PROVE  BasicQueries(d, "Deep") =
           IF aware /\ n >= 2 THEN <<Query(2, "A", FALSE, TRUE), Query(2, "B", FALSE, TRUE)>>
                              ELSE <<Query(2, "B", TRUE, FALSE)>>
<1>1. n = 1 \/ n >= 2
  OBVIOUS
<1>2. CASE aware /\ n >= 2
  BY <1>2 DEF BasicQueries
<1>3. CASE ~(aware /\ n >= 2)
  BY <1>1, <1>3 DEF BasicQueries
<1> QED BY <1>2, <1>3

\* Whoever asks for a ROSpec gets an error if and only if this reader lacks the
\* port, or a power level low enough, or, where it may not hop, a permitted
\* frequency (behavior.go 471-502, 661-672): for tables of every length and order.
THEOREM OnlyWhatCannotBe == Spec => []RejectsWhatCannotBe
<1>1. Inv => RejectsWhatCannotBe
  <2> SUFFICES ASSUME Inv, asked # Nothing
               PROVE  LET b == asked.behavior
                      IN answer = ErrUnsatisfiable <=>
                           \/ b.gpiPort \notin Ports \/ Within(b) = {}
                           \/ (~caps.hopping /\ Common(b) = {})
    BY DEF RejectsWhatCannotBe
  <2> DEFINE b == asked.behavior
             t == Transmit(device, caps, b)
  <2>1. /\ caps \in Capabilities /\ Complete(caps) /\ device \in Devices(caps)
        /\ b \in Behaviors /\ answer = NewROSpec(device, caps, b, asked.nReaders)
    BY DEF Inv
  <2> HIDE DEF b, t
  <2>2. answer = ErrUnsatisfiable <=> ~ValidPort(device, b) \/ t.error # NoError
    <3> QED BY <2>1, AnswerIsError, Zenon DEF t
  <2>3. t.error # NoError <=> Within(b) = {} \/ (~caps.hopping /\ Common(b) = {})
    BY <2>1, Transmits DEF t, Within, Levels, Common
  <2>4. ValidPort(device, b) <=> b.gpiPort \in Ports
    BY <2>1, Digested DEF ValidPort, Ports
  <2> QED BY <2>2, <2>3, <2>4 DEF b
<1> QED BY <1>1, Invariant, PTL

\* Where the reader hops, it transmits at the highest of its levels that the
\* target allows (behavior.go 474-488, 516-541).
THEOREM HighestAllowed == Spec => []PowerAsHighAsAllowed
<1>1. Inv => PowerAsHighAsAllowed
  <2> SUFFICES ASSUME Inv, Answered, caps.hopping
               PROVE  \E l \in Within(asked.behavior) :
                        /\ l.index = answer.transmit.power
                        /\ \A other \in Within(asked.behavior) : other.power <= l.power
    BY DEF PowerAsHighAsAllowed
  <2> DEFINE b == asked.behavior
             t == Transmit(device, caps, b)
  <2>1. /\ caps \in Capabilities /\ Complete(caps) /\ device \in Devices(caps)
        /\ b \in Behaviors /\ answer = NewROSpec(device, caps, b, asked.nReaders)
        /\ answer.error = NoError
    BY DEF Inv, Answered
  <2> HIDE DEF b, t
  <2>2. t.error = NoError /\ answer.transmit = t
    BY <2>1, AnswerParts DEF t
  <2>3. \E l \in Within(b) : /\ l.index = t.power
                             /\ \A other \in Within(b) : other.power <= l.power
    BY <2>1, <2>2, Transmits DEF t, Within, Levels
  <2> QED BY <2>2, <2>3 DEF b
<1> QED BY <1>1, Invariant, PTL

\* Where it does not, the channel is one of its own, of a permitted frequency
\* (behavior.go 489-501).
THEOREM OnlyPermittedChannels == Spec => []ChannelPermitted
<1>1. Inv => ChannelPermitted
  <2> SUFFICES ASSUME Inv, Answered, ~caps.hopping
               PROVE  /\ answer.transmit.channel \in DOMAIN caps.fixed
                      /\ Permitted(asked.behavior, caps.fixed[answer.transmit.channel])
    BY DEF ChannelPermitted
  <2> DEFINE b == asked.behavior
             t == Transmit(device, caps, b)
  <2>1. /\ caps \in Capabilities /\ Complete(caps) /\ device \in Devices(caps)
        /\ b \in Behaviors /\ answer = NewROSpec(device, caps, b, asked.nReaders)
        /\ answer.error = NoError
    BY DEF Inv, Answered
  <2> HIDE DEF b, t
  <2>2. t.error = NoError /\ answer.transmit = t
    BY <2>1, AnswerParts DEF t
  <2>3. t.channel \in DOMAIN caps.fixed /\ Permitted(b, caps.fixed[t.channel])
    BY <2>1, <2>2, Transmits DEF t
  <2> QED BY <2>2, <2>3 DEF b
<1> QED BY <1>1, Invariant, PTL

\* A deep scan reaches tags in either state of their flag, within the number of
\* specs that the reader allows (behavior.go 727-815, 886-895).
THEOREM DeepScansComplete == Spec => []DeepScanFindsAll
<1>1. Inv => DeepScanFindsAll
  <2> SUFFICES ASSUME Inv, Answered, asked.behavior.scan = "Deep", caps.nSpecsPerRO > 0
               PROVE  LET q == answer.queries
                      IN /\ Len(q) <= caps.nSpecsPerRO
                         /\ \A i \in DOMAIN q :
                              q[i].session = 2 /\ (Len(q) > 1 => q[i].stops)
                         /\ \/ caps.impinj /\ answer.search = "DualTargetWithReset"
                            \/ \E i \in DOMAIN q : q[i].filter
                            \/ {q[i].state : i \in DOMAIN q} = {"A", "B"}
    BY DEF DeepScanFindsAll
  <2> DEFINE b == asked.behavior
             q == answer.queries
             n == caps.nSpecsPerRO
  <2>1. /\ caps \in Capabilities /\ Complete(caps) /\ device \in Devices(caps)
        /\ answer = NewROSpec(device, caps, b, asked.nReaders) /\ answer.error = NoError
    BY DEF Inv, Answered
  <2>2. q = Queries(device, b) /\ answer.search = SearchMode(device, b)
    BY <2>1, AnswerParts
  <2>3. /\ device.impinj = caps.impinj /\ device.nSpecsPerRO = n
        /\ device.stateAware = caps.stateAware
    BY <2>1, Digested
  <2>4. n \in Nat /\ caps.impinj \in BOOLEAN /\ caps.stateAware \in BOOLEAN
    BY <2>1, GenerationAssumption
  <2>5. CASE caps.impinj
    <3>1. q = <<Query(2, Nothing, FALSE, FALSE)>>
      BY <2>2, <2>3, <2>5 DEF Queries, ImpinjSession
    <3>2. answer.search = "DualTargetWithReset"
      BY <2>2, <2>3, <2>5 DEF SearchMode, ImpinjSearchMode
    <3>3. Len(q) = 1 /\ DOMAIN q = {1} /\ q[1].session = 2
      BY <3>1 DEF Query
    <3> HIDE DEF q
    <3> QED BY <2>4, <2>5, <3>2, <3>3 DEF q
  <2>6. ASSUME ~caps.impinj
        PROVE  q = IF caps.stateAware /\ n >= 2
                   THEN <<Query(2, "A", FALSE, TRUE), Query(2, "B", FALSE, TRUE)>>
                   ELSE <<Query(2, "B", TRUE, FALSE)>>
    <3>1. n \in Nat \ {0}
      BY <2>4
    <3> HIDE DEF q, n
    <3>2. BasicQueries(device, "Deep") =
            IF caps.stateAware /\ n >= 2
            THEN <<Query(2, "A", FALSE, TRUE), Query(2, "B", FALSE, TRUE)>>
            ELSE <<Query(2, "B", TRUE, FALSE)>>
      BY <2>3, <2>4, <3>1, DeepQueries
    <3>3. q = BasicQueries(device, "Deep")
      BY <2>2, <2>3, <2>6 DEF Queries
    <3> QED BY <3>2, <3>3, Zenon
  <2>7. CASE ~caps.impinj /\ caps.stateAware /\ n >= 2
    <3>1. q = <<Query(2, "A", FALSE, TRUE), Query(2, "B", FALSE, TRUE)>>
      BY <2>6, <2>7
    <3>2. /\ Len(q) = 2 /\ DOMAIN q = {1, 2}
          /\ q[1].session = 2 /\ q[2].session = 2
          /\ q[1].stops /\ q[2].stops
          /\ q[1].state = "A" /\ q[2].state = "B"
      <4>1. Len(q) = 2 /\ q[1] = Query(2, "A", FALSE, TRUE) /\ q[2] = Query(2, "B", FALSE, TRUE)
        BY <3>1
      <4>2. DOMAIN q = {1, 2}
        BY <3>1
      <4> HIDE DEF q
      <4>3. /\ q[1].session = 2 /\ q[2].session = 2
            /\ q[1].state = "A" /\ q[2].state = "B"
        BY <4>1 DEF Query
      <4>4. q[1].stops = TRUE /\ q[2].stops = TRUE
        BY <4>1, QueryFlags, Zenon
      <4> QED BY <4>1, <4>2, <4>3, <4>4
    <3> HIDE DEF q
    <3>3. {q[i].state : i \in DOMAIN q} = {"A", "B"}
      BY <3>2
    <3> QED BY <2>7, <3>2, <3>3 DEF q
  <2>8. CASE ~caps.impinj /\ ~(caps.stateAware /\ n >= 2)
    <3>1. q = <<Query(2, "B", TRUE, FALSE)>>
      BY <2>6, <2>8
    <3>2. Len(q) = 1 /\ DOMAIN q = {1} /\ q[1].session = 2 /\ q[1].filter
      <4>1. Len(q) = 1 /\ DOMAIN q = {1} /\ q[1] = Query(2, "B", TRUE, FALSE)
        BY <3>1
      <4> HIDE DEF q
      <4>2. q[1].session = 2
        BY <4>1 DEF Query
      <4>3. q[1].filter = TRUE
        BY <4>1, QueryFlags, Zenon
      <4> QED BY <4>1, <4>2, <4>3
    <3> HIDE DEF q
    <3>3. \E i \in DOMAIN q : q[i].filter
      BY <3>2
    <3>4. Len(q) <= n /\ \A i \in DOMAIN q : q[i].session = 2 /\ ~(Len(q) > 1)
      BY <2>4, <3>2
    <3> QED BY <3>3, <3>4 DEF q
  <2> QED BY <2>5, <2>7, <2>8
<1> QED BY <1>1, Invariant, PTL

\* The modes that the answer is chosen from.
LEMMA ModesAsked ==
  ASSUME Inv, asked # Nothing
  PROVE  /\ device.modes \in Seq(Mode) /\ ToSet(device.modes) = RealModes
         /\ MaskTarget(asked.nReaders, device.nFreqs) = Needed
         /\ Needed \in Nat /\ asked.nReaders \in Nat /\ device.nFreqs \in Nat
         /\ answer = NewROSpec(device, caps, asked.behavior, asked.nReaders)
<1>1. /\ caps \in Capabilities /\ Complete(caps) /\ device \in Devices(caps)
      /\ answer = NewROSpec(device, caps, asked.behavior, asked.nReaders)
      /\ asked.nReaders \in Nat
  BY GenerationAssumption DEF Inv
<1>2. /\ device.modes \in Seq(Mode) /\ ToSet(device.modes) = RealModes
      /\ device.nFreqs = Len(Frequencies(caps)) /\ device.nFreqs \in Nat
  BY <1>1, ModesDigested DEF RealModes
<1>3. MaskTarget(asked.nReaders, device.nFreqs) = Needed
  <2> DEFINE n == asked.nReaders
             f == device.nFreqs
  <2>1. n \in Nat /\ f \in Nat /\ (Crowded <=> n > 1 /\ 2 * n > f)
    BY <1>1, <1>2 DEF Crowded
  <2>2. MaskTarget(n, f) = IF n <= 1 THEN n
                           ELSE IF n >= f \/ 2 * n > f THEN Dense ELSE Dense - 1
    BY DEF MaskTarget
  <2>3. Needed = IF n <= 1 THEN n ELSE IF Crowded THEN Dense ELSE Dense - 1
    BY DEF Needed
  <2> HIDE DEF n, f
  <2>4. n <= 1 \/ ((n >= f \/ 2 * n > f) <=> Crowded)
    BY <2>1
  <2>5. MaskTarget(n, f) = Needed
    BY <2>1, <2>2, <2>3, <2>4
  <2> QED BY <2>5 DEF n, f
<1>4. Needed \in Nat
  BY <1>1 DEF Needed, Dense
<1> QED BY <1>1, <1>2, <1>3, <1>4

\* A ROSpec is asked of whatever reader, for whatever number of readers near:
\* a mode is found (behavior.go 566-585), but for a reader whose modes are all
\* Impinj's own.
THEOREM ModeIsFound == Spec => []ModeAlwaysFound
<1>1. Inv => ModeAlwaysFound
  <2> SUFFICES ASSUME Inv, asked # Nothing, answer = Panicked, RealModes # {} PROVE FALSE
    BY DEF ModeAlwaysFound
  <2>1. FindBestMode(device, asked.nReaders) = 0
    BY ModesAsked, PanicsWithoutMode
  <2>2. device.modes \in Seq(Mode) /\ device.modes # <<>>
    <3>1. ToSet(device.modes) # {}
      BY ModesAsked
    <3> QED BY <3>1, ModesAsked DEF ToSet
  <2>3. FindBestMode(device, asked.nReaders) \in 1..Len(device.modes)
    BY <2>2, ModesAsked, ModeFound
  <2> QED BY <2>1, <2>2, <2>3
<1> QED BY <1>1, Invariant, PTL

\* The mode is as robust as is called for, or as the reader has, and the best
\* of those, by the rates it really has (behavior.go 551-585, 608-644, 261-270).
THEOREM BestModeFound == Spec => []BestRobustMode
<1>1. Inv => BestRobustMode
  <2> SUFFICES ASSUME Inv, Answered
               PROVE  /\ answer.mode \in RealModes
                      /\ AsRobust(answer.mode)
                      /\ \A m \in RealModes :
                           AsRobust(m) => ~Less(Score(m), Score(answer.mode))
    BY DEF BestRobustMode
  <2> DEFINE modes == device.modes
             best  == FindBestMode(device, asked.nReaders)
             masks == {x.mask : x \in RealModes}
  <2>1. /\ modes \in Seq(Mode) /\ ToSet(modes) = RealModes
        /\ MaskTarget(asked.nReaders, device.nFreqs) = Needed
        /\ Needed \in Nat /\ asked.nReaders \in Nat /\ device.nFreqs \in Nat
        /\ best # 0 /\ answer.mode = modes[best]
    BY ModesAsked, AnswerParts DEF Answered
  <2>2. /\ \A i \in 1..Len(modes) : modes[i] \in RealModes /\ modes[i].mask \in 0..255
        /\ \A m \in RealModes : \E i \in 1..Len(modes) : m = modes[i]
        /\ Len(modes) \in Nat
    <3>1. DOMAIN modes = 1..Len(modes) /\ \A i \in 1..Len(modes) : modes[i] \in Mode
      BY <2>1
    <3> QED BY <2>1, <3>1, MaskIsNumber DEF ToSet
  <2>3. modes # <<>>
    <3>1. SUFFICES ASSUME modes = <<>> PROVE FALSE
      OBVIOUS
    <3>2. Len(modes) = 0 /\ 0..0 = {0}
      BY <3>1
    <3>3. ASSUME NEW m \in 0..Needed PROVE FastestAt(modes, m) = 0
      <4>1. m \in Nat /\ modes \in Seq(Mode)
        BY <2>1
      <4> HIDE DEF modes
      <4>2. BestOf(modes, m, Len(modes), FastestAt(modes, m))
        BY <4>1, FastestIsBest
      <4> QED BY <3>2, <4>2 DEF BestOf
    <3>4. {m \in 0..Needed : FastestAt(modes, m) # 0} = {}
      BY <3>3
    <3> QED BY <2>1, <3>4 DEF FindBestMode
  <2>4. best \in 1..Len(modes)
    BY <2>1, <2>3, ModeFound
  <2>5. PICK k \in 0..Needed :
          /\ modes[best].mask >= k
          /\ k = Needed \/ \A i \in 1..Len(modes) : modes[i].mask <= k
          /\ \A i \in 1..Len(modes) : modes[i].mask >= k =>
               ~Less(Score(modes[i]), Score(modes[best]))
    BY <2>1, <2>3, ModeFound
  <2> HIDE DEF modes, best
  <2>6. Min({Needed, Max(masks)}) = k
    <3>1. masks \subseteq 0..255 /\ masks # {} /\ modes[best].mask \in masks
      <4>1. ASSUME NEW m \in RealModes PROVE m.mask \in 0..255
        BY <2>2
      <4>2. modes[best] \in RealModes
        BY <2>2, <2>4
      <4>3. masks \subseteq 0..255
        BY <4>1
      <4> QED BY <4>2, <4>3
    <3>2. Max(masks) \in masks /\ \A y \in masks : y <= Max(masks)
      <4> HIDE DEF masks
      <4> QED BY <3>1, MaxIsGreatest
    <3>3. Max(masks) \in Nat /\ k <= Max(masks)
      <4>1. Max(masks) \in 0..255 /\ modes[best].mask <= Max(masks)
        BY <3>1, <3>2
      <4>2. modes[best].mask \in 0..255 /\ modes[best].mask >= k /\ k \in Int
        BY <2>1, <2>2, <2>4, <2>5
      <4> DEFINE found == modes[best].mask
                 high  == Max(masks)
      <4>3. found \in 0..255 /\ high \in 0..255 /\ found <= high /\ found >= k /\ k \in Int
        BY <4>1, <4>2
      <4> HIDE DEF found, high
      <4>4. high \in Nat /\ k <= high
        BY <4>3
      <4> QED BY <4>4 DEF high
    <3>4. k = Needed \/ Max(masks) <= k
      BY <2>2, <2>5, <3>2
    <3> DEFINE high == Max(masks)
               S    == {Needed, high}
    <3>5. Min(S) \in S /\ \A y \in S : Min(S) <= y
      <4>1. S \subseteq Nat /\ S # {}
        BY <2>1, <3>3
      <4> HIDE DEF S
      <4> QED BY <4>1, MinIsLeast
    <3> HIDE DEF high, masks
    <3>6. high \in Nat /\ k <= high /\ (k = Needed \/ high <= k) /\ k \in Nat /\ k <= Needed
      BY <2>1, <3>3, <3>4 DEF high
    <3>7. Min(S) = k
      BY <2>1, <3>5, <3>6
    <3> QED BY <3>7 DEF high
  <2>7. \A m \in RealModes : AsRobust(m) <=> m.mask >= k
    BY <2>6 DEF AsRobust
  <2>8. answer.mode \in RealModes /\ AsRobust(answer.mode)
    BY <2>1, <2>2, <2>4, <2>5, <2>7
  <2>9. ASSUME NEW m \in RealModes, AsRobust(m) PROVE ~Less(Score(m), Score(answer.mode))
    <3>1. PICK i \in 1..Len(modes) : m = modes[i]
      BY <2>2
    <3>2. modes[i].mask >= k
      BY <2>7, <2>9, <3>1
    <3> QED BY <2>1, <2>5, <3>1, <3>2
  <2> QED BY <2>8, <2>9
<1> QED BY <1>1, Invariant, PTL
=============================================================================
