--------------------------- MODULE IterationProofs ---------------------------
(***************************************************************************)
(* What the proofs about passes over a table rest on: a pass is a          *)
(* recursive function over the indices, whose existence is proved here     *)
(* once, and what holds of it from index to index holds to the end.        *)
(***************************************************************************)
EXTENDS Integers, WellFoundedInduction, TLAPS

\* A set of numbers has a least one.
LEMMA HasLeast ==
  ASSUME NEW S, S \subseteq Nat, S # {}
  PROVE  \E x \in S : \A y \in S : x <= y
<1>1. PICK x \in S : \A y \in S : ~(<<y, x>> \in OpToRel(<, Nat))
  BY NatLessThanWellFounded, WFMin
<1>2. \A y \in S : x <= y
  <2> TAKE y \in S
  <2>1. ~(y < x)
    BY <1>1 DEF OpToRel
  <2> QED BY <2>1
<1> QED BY <1>2

\* A set of numbers none of which is above n has a greatest one.
LEMMA HasGreatest ==
  ASSUME NEW n \in Nat, NEW S, S \subseteq 0..n, S # {}
  PROVE  \E x \in S : \A y \in S : y <= x
<1> DEFINE T == {n - y : y \in S}
<1>1. T \subseteq Nat /\ T # {}
  OBVIOUS
<1>2. PICK t \in T : \A u \in T : t <= u
  <2> HIDE DEF T
  <2> QED BY <1>1, HasLeast
<1>3. PICK x \in S : t = n - x
  OBVIOUS
<1>4. \A y \in S : y <= x
  <2> TAKE y \in S
  <2>1. n - x <= n - y
    BY <1>2, <1>3
  <2>2. x \in Int /\ y \in Int
    OBVIOUS
  <2> QED BY <2>1, <2>2
<1> QED BY <1>4

\* What holds at 0 and from one index to the next holds up to n.
LEMMA StepByStep ==
  ASSUME NEW n \in Nat, NEW S,
         0 \in S, \A i \in 0..n-1 : i \in S => i + 1 \in S
  PROVE  \A i \in 0..n : i \in S
<1> DEFINE bad == {i \in 0..n : i \notin S}
<1>1. SUFFICES ASSUME bad # {} PROVE FALSE
  OBVIOUS
<1>2. PICK k \in bad : \A j \in bad : k <= j
  <2>1. bad \subseteq Nat
    OBVIOUS
  <2> HIDE DEF bad
  <2> QED BY <1>1, <2>1, HasLeast
<1>3. k \in 0..n /\ k \notin S /\ k # 0
  OBVIOUS
<1>4. k - 1 \in 0..n-1 /\ k - 1 \notin bad
  BY <1>2, <1>3
<1>5. k - 1 \in S
  BY <1>4
<1> QED BY <1>3, <1>4, <1>5

\* A pass: what starts as x0 and becomes, at each index, what that index makes
\* of it.
Passes(f, n, x0, G) == f[0] = x0 /\ \A i \in 1..n : f[i] = G[i][f[i-1]]

LEMMA PassExists ==
  ASSUME NEW n \in Nat, NEW V, NEW x0 \in V, NEW G \in [1..n -> [V -> V]]
  PROVE  \E f \in [0..n -> V] : Passes(f, n, x0, G)
<1> DEFINE S == {k \in 0..n : \E f \in [0..k -> V] : Passes(f, k, x0, G)}
<1>1. 0 \in S
  <2> DEFINE f == [i \in 0..0 |-> x0]
  <2>1. f \in [0..0 -> V] /\ Passes(f, 0, x0, G)
    BY DEF Passes
  <2> HIDE DEF f
  <2> QED BY <2>1
<1>2. ASSUME NEW k \in 0..n-1, k \in S PROVE k + 1 \in S
  <2>1. PICK f \in [0..k -> V] : Passes(f, k, x0, G)
    BY <1>2
  <2> DEFINE g == [i \in 0..k+1 |-> IF i = k + 1 THEN G[k + 1][f[k]] ELSE f[i]]
  <2>2. G[k + 1][f[k]] \in V
    <3>1. k + 1 \in 1..n /\ k \in 0..k
      OBVIOUS
    <3> QED BY <3>1
  <2>3. g \in [0..k+1 -> V]
    BY <2>2
  <2>4. /\ g[k + 1] = G[k + 1][f[k]]
        /\ \A i \in 0..k : g[i] = f[i]
    OBVIOUS
  <2> HIDE DEF g
  <2>5. Passes(g, k + 1, x0, G)
    <3>1. g[0] = x0
      BY <2>1, <2>4 DEF Passes
    <3>2. ASSUME NEW i \in 1..k+1 PROVE g[i] = G[i][g[i-1]]
      <4>1. CASE i = k + 1
        BY <2>4, <4>1
      <4>2. CASE i \in 1..k
        <5>1. i \in 0..k /\ i - 1 \in 0..k
          BY <4>2
        <5> QED BY <2>1, <2>4, <4>2, <5>1 DEF Passes
      <4> QED BY <4>1, <4>2
    <3> QED BY <3>1, <3>2 DEF Passes
  <2>6. k + 1 \in 0..n
    OBVIOUS
  <2> QED BY <2>3, <2>5, <2>6
<1>3. n \in S
  <2> HIDE DEF S
  <2>1. \A i \in 0..n : i \in S
    BY <1>1, <1>2, StepByStep
  <2> QED BY <2>1
<1> QED BY <1>3
=============================================================================
