--------------------------- MODULE InductionLemmas --------------------------
(***************************************************************************)
(* Induction and recursion over the numbers up to n, in the one form that  *)
(* first-order provers can use: about sets of numbers and about functions, *)
(* where the library's theorems speak of operators.                        *)
(***************************************************************************)
EXTENDS Integers, FiniteSetTheorems, TLAPS

\* A set of numbers up to n has a greatest one.
LEMMA LastExists ==
    ASSUME NEW n \in Nat, NEW S \in SUBSET (0..n), S # {}
    PROVE  \E i \in S : \A j \in S : j <= i
<1> DEFINE After(k) == {j \in S : j > k}
           T == {After(k) : k \in S}
           R == StrictSubsetOrdering(0..n)
<1>1. \A k \in S : k \in Int
  OBVIOUS
<1>2. FiniteSubsetsOf(0..n) = SUBSET (0..n)
  <2>1. IsFiniteSet(0..n)
    BY FS_Interval, 0 \in Int, n \in Int
  <2> QED  BY <2>1, FS_FiniteSubsetsOfFinite
<1>3. \A k \in S : After(k) \in SUBSET (0..n)
  OBVIOUS
<1>4. T # {} /\ T \subseteq SUBSET (0..n)
  BY <1>3
<1>5. IsWellFoundedOn(R, SUBSET (0..n))
  BY <1>2, FS_StrictSubsetOrderingWellFounded
<1>6. \E t \in T : \A u \in T : <<u, t>> \notin R
  <2> HIDE DEF T, R
  <2> QED  BY <1>4, <1>5, WFMin
<1>7. PICK i \in S : \A u \in T : <<u, After(i)>> \notin R
  BY <1>6
<1>8. ASSUME NEW j \in S, j > i PROVE FALSE
  <2>1. After(j) \in T
    OBVIOUS
  <2>2. \A k \in After(j) : k \in After(i)
    BY <1>1, <1>8
  <2>3. j \in After(i) /\ j \notin After(j)
    BY <1>1, <1>8
  <2>4. After(j) \in SUBSET (0..n) /\ After(i) \in SUBSET (0..n)
    BY <1>3
  <2> HIDE DEF After
  <2>5. <<After(j), After(i)>> \in R
    BY <2>2, <2>3, <2>4 DEF StrictSubsetOrdering
  <2> QED  BY <1>7, <2>1, <2>5
<1> QED  BY <1>1, <1>8

\* What holds of 0, and of i + 1 when of i, holds of the numbers up to n.
LEMMA Climb ==
    ASSUME NEW n \in Nat, NEW G, 0 \in G, \A i \in 0..(n - 1) : i \in G => i + 1 \in G
    PROVE  \A i \in 0..n : i \in G
<1> SUFFICES ASSUME NEW b \in 0..n, b \notin G PROVE FALSE
  OBVIOUS
<1> DEFINE B == {k \in 0..b : k \in G}
<1>1. B \in SUBSET (0..b) /\ B # {} /\ b \in Nat
  OBVIOUS
<1> HIDE DEF B
<1>2. PICK k \in B : \A j \in B : j <= k
  BY <1>1, LastExists
<1>3. k \in 0..b /\ k \in G /\ k # b
  BY <1>2 DEF B
<1>4. k \in 0..(n - 1) /\ k + 1 \in 0..b
  BY <1>3
<1>5. k + 1 \in B
  BY <1>3, <1>4 DEF B
<1> QED  BY <1>2, <1>3, <1>5

\* A step of a recursive definition over 0..n gives each value from those before.
LooksBack(step, n, S) ==
    /\ step \in [[0..n -> S] -> [0..n -> S]]
    /\ \A f, g \in [0..n -> S] : \A i \in 0..n :
          (\A j \in 0..(i - 1) : f[j] = g[j]) => step[f][i] = step[g][i]

\* Some function satisfies such a definition.
LEMMA Recursion ==
    ASSUME NEW n \in Nat, NEW S, S # {}, NEW step, LooksBack(step, n, S)
    PROVE  \E f \in [0..n -> S] : \A i \in 0..n : f[i] = step[f][i]
<1> USE DEF LooksBack
<1> DEFINE Upto(f, m) == \A i \in 0..n : i < m => f[i] = step[f][i]
           G == {m \in 0..(n + 1) : \E f \in [0..n -> S] : Upto(f, m)}
<1>1. 0 \in G
  <2>1. PICK s \in S : TRUE
    OBVIOUS
  <2>2. [i \in 0..n |-> s] \in [0..n -> S] /\ Upto([i \in 0..n |-> s], 0)
    BY <2>1
  <2> QED  BY <2>2
<1>2. ASSUME NEW m \in 0..n, m \in G PROVE m + 1 \in G
  <2>1. PICK f \in [0..n -> S] : Upto(f, m)
    BY <1>2
  <2> DEFINE g == [f EXCEPT ![m] = step[f][m]]
  <2>2. g \in [0..n -> S]
    OBVIOUS
  <2>3. \A j \in 0..n : j # m => g[j] = f[j]
    BY <2>1
  <2>4. g[m] = step[f][m]
    BY <2>1
  <2> HIDE DEF g
  <2>5. \A i \in 0..n : i <= m => step[f][i] = step[g][i]
    <3> SUFFICES ASSUME NEW i \in 0..n, i <= m PROVE step[f][i] = step[g][i]
      OBVIOUS
    <3>1. \A j \in 0..(i - 1) : j \in 0..n /\ j # m
      OBVIOUS
    <3>2. \A j \in 0..(i - 1) : f[j] = g[j]
      BY <2>3, <3>1
    <3> QED  BY <2>2, <3>2
  <2>6. Upto(g, m + 1)
    <3> SUFFICES ASSUME NEW i \in 0..n, i < m + 1 PROVE g[i] = step[g][i]
      OBVIOUS
    <3>1. CASE i = m
      BY <2>4, <2>5, <3>1
    <3>2. CASE i # m
      <4>1. i < m
        BY <3>2
      <4>2. f[i] = step[f][i]
        BY <2>1, <4>1
      <4> QED  BY <2>3, <2>5, <3>2, <4>1, <4>2
    <3> QED  BY <3>1, <3>2
  <2>7. m + 1 \in 0..(n + 1)
    OBVIOUS
  <2> QED  BY <2>2, <2>6, <2>7
<1> HIDE DEF G
<1>3. n + 1 \in Nat /\ 0..(n + 1 - 1) = 0..n /\ n + 1 \in 0..(n + 1)
  OBVIOUS
<1>4. n + 1 \in G
  BY <1>1, <1>2, <1>3, Climb
<1>5. PICK f \in [0..n -> S] : Upto(f, n + 1)
  BY <1>4 DEF G
<1> QED  BY <1>5
=============================================================================
