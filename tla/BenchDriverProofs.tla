------------------------- MODULE BenchDriverProofs --------------------------
(***************************************************************************)
(* What the driver reports is right for every workload, every number of    *)
(* threads, operations, blocks and repeats. The inductive invariant says   *)
(* where the main thread and the workers can be at the same time, how far  *)
(* each worker is in its piece of the operations, and, once the clock has  *)
(* stopped, how far a worker that has not noticed can have come since.     *)
(*                                                                         *)
(* First come facts about the operators of BenchDriver, for every          *)
(* workload: what the bounds of the phases are, and the sums over the      *)
(* threads.                                                                *)
(***************************************************************************)
EXTENDS BenchDriver, WellFoundedInduction, FiniteSetTheorems, TLAPS

\* Induction up to n, over the set of the numbers that have a property.
LEMMA Induction ==
  ASSUME NEW n \in Nat, NEW S, 0 \in S, \A k \in 0..n - 1 : k \in S => k + 1 \in S
  PROVE  n \in S /\ \A k \in 0..n : k \in S
<1> DEFINE Bad == {k \in 0..n : k \notin S}
<1>0. n \in 0..n
  OBVIOUS
<1> SUFFICES ASSUME Bad # {} PROVE FALSE
  BY <1>0
<1>1. Bad \in SUBSET Nat
  OBVIOUS
<1> HIDE DEF Bad
<1>2. PICK m \in Bad : \A k \in Bad : ~(<<k, m>> \in OpToRel(<, Nat))
  BY <1>1, WFMin, NatLessThanWellFounded
<1>3. m \in 0..n /\ m \notin S
  BY <1>2 DEF Bad
<1>4. m # 0
  BY <1>3
<1>5. m - 1 \in 0..n - 1 /\ m - 1 \in Nat /\ m \in Nat /\ m - 1 < m /\ m - 1 + 1 = m
  BY <1>3, <1>4
<1>6. m - 1 \notin Bad
  BY <1>2, <1>5 DEF OpToRel
<1>7. m - 1 \in S
  BY <1>5, <1>6 DEF Bad
<1> QED
  BY <1>3, <1>5, <1>7

\* A set of naturals that is not empty has a least element, which is what Min
\* chooses.
LEMMA MinOfSet ==
  ASSUME NEW S \in SUBSET Nat, S # {}
  PROVE  Min(S) \in S /\ \A k \in S : Min(S) <= k
<1>1. PICK m \in S : \A k \in S : ~(<<k, m>> \in OpToRel(<, Nat))
  BY WFMin, NatLessThanWellFounded
<1>2. \A k \in S : ~(k < m)
  BY <1>1 DEF OpToRel
<1>3. \E j \in S : \A k \in S : j <= k
  BY <1>2
<1> QED
  BY <1>3 DEF Min

\* A set of naturals up to m that is not empty has a greatest element.
LEMMA MaxOfSet ==
  ASSUME NEW m \in Nat, NEW S \in SUBSET (0..m), S # {}
  PROVE  Max(S) \in S /\ \A k \in S : k <= Max(S)
<1> DEFINE T == {m - k : k \in S}
<1>1. T \in SUBSET Nat
  OBVIOUS
<1>0. T # {}
  <2>1. PICK k \in S : TRUE
    OBVIOUS
  <2>2. m - k \in T
    BY <2>1
  <2> QED
    BY <2>2
<1>2. PICK t \in T : \A k \in T : t <= k
  <2> HIDE DEF T
  <2> QED
    BY <1>0, <1>1, MinOfSet
<1>3. PICK x \in S : t = m - x
  BY <1>2
<1>4. \A k \in S : x >= k
  <2> SUFFICES ASSUME NEW k \in S PROVE x >= k
    OBVIOUS
  <2>1. m - k \in T
    OBVIOUS
  <2>2. m - x <= m - k
    BY <1>2, <1>3, <2>1
  <2>3. m \in Int /\ x \in Int /\ k \in Int
    OBVIOUS
  <2> HIDE DEF T
  <2> QED
    BY <2>2, <2>3
<1>5. Max(S) \in S /\ \A k \in S : Max(S) >= k
  BY <1>4 DEF Max
<1> QED
  BY <1>5

\* The constructor's loop stops at the first operation of the other kind, or at
\* the end.
LEMMA NextBoundFacts ==
  ASSUME NEW ops \in Seq(STRING), NEW c \in 0..Len(ops), NEW odd \in BOOLEAN
  PROVE  /\ NextBound(ops, c, odd) \in c..Len(ops)
         /\ \A k \in c..NextBound(ops, c, odd) - 1 : ops[k + 1] = INSERT <=> odd
         /\ NextBound(ops, c, odd) < Len(ops) =>
              ~(ops[NextBound(ops, c, odd) + 1] = INSERT <=> odd)
<1> DEFINE ends == {k \in c..Len(ops) - 1 : (ops[k + 1] = INSERT) # odd}
<1>1. ends \in SUBSET Nat
  OBVIOUS
<1>0. \A k \in c..Len(ops) - 1 : k \in ends <=> ~(ops[k + 1] = INSERT <=> odd)
  BY Zenon
<1>2. CASE ends = {}
  <2>1. NextBound(ops, c, odd) = Len(ops)
    BY <1>2 DEF NextBound
  <2> HIDE DEF ends
  <2>2. \A k \in c..Len(ops) - 1 : k \notin ends
    BY <1>2
  <2>3. Len(ops) \in Nat
    OBVIOUS
  <2>4. \A k \in c..Len(ops) - 1 : ops[k + 1] = INSERT <=> odd
    BY <1>0, <2>2, Zenon
  <2>5. Len(ops) \in c..Len(ops)
    OBVIOUS
  <2>6. ~(Len(ops) < Len(ops))
    BY <2>3
  <2> QED
    BY <2>1, <2>4, <2>5, <2>6, Zenon
<1>3. CASE ends # {}
  <2>1. Min(ends) \in ends /\ \A k \in ends : Min(ends) <= k
    BY <1>1, <1>3, MinOfSet
  <2>2. NextBound(ops, c, odd) = Min(ends)
    BY <1>3 DEF NextBound
  <2>3. ends \subseteq c..Len(ops) - 1
    OBVIOUS
  <2> HIDE DEF ends
  <2>4. Min(ends) \in c..Len(ops) - 1
    BY <2>1, <2>3
  <2>5. \A k \in c..Min(ends) - 1 : ops[k + 1] = INSERT <=> odd
    BY <1>0, <2>1, <2>4
  <2> QED
    BY <1>0, <2>1, <2>2, <2>4, <2>5
<1> QED
  BY <1>2, <1>3

\* The same for the parity of a bound, which is how the constructor calls it.
LEMMA ParityBound ==
  ASSUME NEW ops \in Seq(STRING), NEW c \in 0..Len(ops), NEW j \in Nat
  PROVE  /\ NextBound(ops, c, j % 2 = 1) \in 0..Len(ops)
         /\ NextBound(ops, c, j % 2 = 1) >= c
<1> DEFINE odd == j % 2 = 1
<1>1. odd \in BOOLEAN
  OBVIOUS
<1> HIDE DEF odd
<1>2. NextBound(ops, c, odd) \in c..Len(ops)
  BY <1>1, NextBoundFacts
<1>3. NextBound(ops, c, odd) \in 0..Len(ops) /\ NextBound(ops, c, odd) >= c
  BY <1>2
<1> QED
  BY <1>3, Zenon DEF odd

\* BlockBounds is the function its recursive definition describes: such a
\* function exists on every initial part of the domain.
LEMMA BlockBoundsDef ==
  ASSUME NEW ops \in Seq(STRING), NEW n \in Nat
  PROVE  /\ BlockBounds(ops, n) \in [0..2 * n -> 0..Len(ops)]
         /\ BlockBounds(ops, n)[0] = 0
         /\ \A j \in 1..2 * n :
              BlockBounds(ops, n)[j] =
                NextBound(ops, BlockBounds(ops, n)[j - 1], j % 2 = 1)
<1> DEFINE N(j, c) == NextBound(ops, c, j % 2 = 1)
           Part(f, m) == /\ f \in [0..m -> 0..Len(ops)] /\ f[0] = 0
                         /\ \A j \in 1..m : f[j] = N(j, f[j - 1])
           Rec(f) == f = [j \in 0..2 * n |-> IF j = 0 THEN 0 ELSE N(j, f[j - 1])]
           S == {m \in Nat : \E f : Part(f, m)}
<1>1. Len(ops) \in Nat /\ 2 * n \in Nat
  OBVIOUS
<1>2. \A j \in Nat, c \in 0..Len(ops) : N(j, c) \in 0..Len(ops)
  BY ParityBound
<1> DEFINE b == CHOOSE f : Rec(f)
<1>0. BlockBounds(ops, n) = b
  BY Zenon DEF BlockBounds
<1> HIDE DEF N
<1>3. 0 \in S
  <2>1. Part([j \in 0..0 |-> 0], 0)
    BY <1>1
  <2> QED
    BY <2>1
<1>4. ASSUME NEW m \in Nat, m \in S PROVE m + 1 \in S
  <2>1. PICK f : Part(f, m)
    BY <1>4
  <2> DEFINE g == [j \in 0..m + 1 |->
                     IF j = m + 1 THEN N(m + 1, f[m]) ELSE f[j]]
  <2>2. N(m + 1, f[m]) \in 0..Len(ops)
    <3>1. f[m] \in 0..Len(ops) /\ m + 1 \in Nat
      BY <2>1
    <3> QED
      BY <1>2, <3>1
  <2>3. g \in [0..m + 1 -> 0..Len(ops)] /\ g[0] = 0
    BY <2>1, <2>2
  <2>4. ASSUME NEW j \in 1..m + 1 PROVE g[j] = N(j, g[j - 1])
    <3>1. CASE j = m + 1
      BY <2>1, <3>1
    <3>2. CASE j # m + 1
      <4>1. j \in 1..m /\ j - 1 \in 0..m /\ j - 1 # m + 1 /\ j \in 0..m + 1
        BY <2>4, <3>2
      <4> QED
        BY <2>1, <4>1
    <3> QED
      BY <3>1, <3>2
  <2>5. Part(g, m + 1)
    BY <2>3, <2>4
  <2>6. m + 1 \in Nat /\ \E h : Part(h, m + 1)
    <3> HIDE DEF g, Part
    <3> QED
      BY <2>5
  <2> QED
    BY <2>6
<1>5. 2 * n \in S
  <2> HIDE DEF S
  <2> QED
    BY <1>1, <1>3, <1>4, Induction
<1>6. PICK f : Part(f, 2 * n)
  BY <1>5
<1>7. Rec(f)
  BY <1>1, <1>6
<1>8. Rec(b)
  <2> HIDE DEF Rec
  <2> QED
    BY <1>7
<1> HIDE DEF b
<1>9. b[0] = 0
  BY <1>1, <1>8
<1>10. \A j \in 1..2 * n : b[j] = N(j, b[j - 1])
  BY <1>1, <1>8
<1>11. \A j \in 0..2 * n : b[j] \in 0..Len(ops)
  <2> DEFINE T == {j \in Nat : b[j] \in 0..Len(ops)}
  <2>1. 0 \in T
    BY <1>1, <1>9
  <2>2. ASSUME NEW k \in 0..2 * n - 1, k \in T PROVE k + 1 \in T
    <3>1. k \in Nat /\ k + 1 \in Nat /\ k + 1 \in 1..2 * n /\ k + 1 - 1 = k
      BY <1>1, <2>2
    <3>2. b[k + 1] = N(k + 1, b[k])
      BY <1>10, <3>1
    <3>3. N(k + 1, b[k]) \in 0..Len(ops)
      BY <1>2, <2>2, <3>1
    <3> QED
      BY <3>1, <3>2, <3>3
  <2> HIDE DEF T
  <2>3. \A k \in 0..2 * n : k \in T
    BY <1>1, <2>1, <2>2, Induction
  <2> QED
    BY <2>3 DEF T
<1>12. b \in [0..2 * n -> 0..Len(ops)]
  BY <1>1, <1>8, <1>11
<1> QED
  BY <1>0, <1>9, <1>10, <1>12, Zenon DEF N

\* The bounds of the workload at hand.
LEMMA BlockBoundDef ==
  ASSUME args \in Workloads
  PROVE  /\ BlockBound \in [0..2 * NumBlocks -> 0..Len(Ops[1])]
         /\ BlockBound[0] = 0
         /\ \A j \in 1..2 * NumBlocks :
              BlockBound[j] = NextBound(Ops[1], BlockBound[j - 1], j % 2 = 1)
<1>1. Ops[1] \in Seq(STRING) /\ NumBlocks \in Nat
  BY DriverAssumption DEF Ops, NumBlocks
<1> QED
  BY <1>1, BlockBoundsDef, Zenon DEF BlockBound

\* SumTo adds one element after the other.
LEMMA SumSteps ==
  ASSUME NEW n \in Nat, NEW f \in [1..n -> Int]
  PROVE  /\ SumTo(f, 0) = 0
         /\ \A k \in 0..n : SumTo(f, k) \in Int
         /\ \A k \in 0..n - 1 : SumTo(f, k + 1) = SumTo(f, k) + f[k + 1]
<1> DEFINE Sum(g, k) ==
             g = [j \in 0..k |-> IF j = 0 THEN 0 ELSE g[j - 1] + f[j]]
           Good(g, k) == /\ g \in [0..k -> Int] /\ g[0] = 0
                         /\ \A j \in 1..k : g[j] = g[j - 1] + f[j]
           S == {k \in Nat : \E g : Good(g, k)}
<1>1. 0 \in S
  <2>1. Good([j \in 0..0 |-> 0], 0)
    OBVIOUS
  <2> QED
    BY <2>1
<1>2. ASSUME NEW k \in 0..n - 1, k \in S PROVE k + 1 \in S
  <2>1. PICK h : Good(h, k)
    BY <1>2
  <2> DEFINE g == [j \in 0..k + 1 |-> IF j = k + 1 THEN h[k] + f[k + 1] ELSE h[j]]
  <2>2. g \in [0..k + 1 -> Int] /\ g[0] = 0
    BY <2>1
  <2>3. ASSUME NEW j \in 1..k + 1 PROVE g[j] = g[j - 1] + f[j]
    <3>1. CASE j = k + 1
      BY <2>1, <3>1
    <3>2. CASE j # k + 1
      <4>1. j \in 1..k /\ j - 1 \in 0..k /\ j - 1 # k + 1 /\ j \in 0..k + 1
        BY <2>3, <3>2
      <4> QED
        BY <2>1, <4>1
    <3> QED
      BY <3>1, <3>2
  <2>4. Good(g, k + 1)
    BY <2>2, <2>3
  <2>5. k + 1 \in Nat /\ \E u : Good(u, k + 1)
    <3> HIDE DEF g, Good
    <3> QED
      BY <2>4
  <2> QED
    BY <2>5
<1>3. \A k \in 0..n : k \in S
  <2> HIDE DEF S
  <2> QED
    BY <1>1, <1>2, Induction
<1>4. PICK h : Good(h, n)
  <2> HIDE DEF Good
  <2> QED
    BY <1>3
<1>5. ASSUME NEW k \in 0..n PROVE SumTo(f, k) = h[k]
  <2> DEFINE s == CHOOSE g : Sum(g, k)
  <2>1. PICK g : Good(g, k)
    <3> HIDE DEF Good
    <3> QED
      BY <1>3
  <2>2. Sum(g, k)
    BY <2>1
  <2>3. Sum(s, k)
    <3> HIDE DEF Sum
    <3> QED
      BY <2>2
  <2>4. SumTo(f, k) = s[k]
    BY Zenon DEF SumTo
  <2> HIDE DEF s
  <2>5. s[0] = 0 /\ \A j \in 1..k : s[j] = s[j - 1] + f[j]
    BY <2>3
  <2> DEFINE T == {j \in Nat : s[j] = h[j]}
  <2>6. 0 \in T
    BY <1>4, <2>5
  <2>7. ASSUME NEW j \in 0..k - 1, j \in T PROVE j + 1 \in T
    BY <1>4, <2>5, <2>7
  <2>8. k \in T
    <3>1. k \in Nat /\ k \in 0..k
      OBVIOUS
    <3> HIDE DEF T
    <3> QED
      BY <2>6, <2>7, <3>1, Induction
  <2> QED
    BY <2>4, <2>8
<1>6. ASSUME NEW k \in 0..n - 1 PROVE SumTo(f, k + 1) = SumTo(f, k) + f[k + 1]
  <2>1. k \in 0..n /\ k + 1 \in 0..n /\ k + 1 \in 1..n /\ k + 1 - 1 = k
    OBVIOUS
  <2>2. h[k + 1] = h[k] + f[k + 1]
    BY <1>4, <2>1
  <2> QED
    BY <1>5, <2>1, <2>2
<1> QED
  BY <1>4, <1>5, <1>6

\* A sum is at most another one that is at least as large in every place.
LEMMA SumMonotone ==
  ASSUME NEW n \in Nat, NEW f \in [1..n -> Int], NEW g \in [1..n -> Int],
         \A k \in 1..n : f[k] <= g[k]
  PROVE  \A k \in 0..n : SumTo(f, k) <= SumTo(g, k)
<1> DEFINE S == {k \in Nat : SumTo(f, k) <= SumTo(g, k)}
<1>1. 0 \in S
  <2>1. SumTo(f, 0) = 0 /\ SumTo(g, 0) = 0
    BY SumSteps
  <2> QED
    BY <2>1
<1>2. ASSUME NEW k \in 0..n - 1, k \in S PROVE k + 1 \in S
  <2>1. k \in 0..n /\ k + 1 \in 1..n /\ k + 1 \in 0..n /\ k + 1 - 1 = k /\ k + 1 \in Nat
    OBVIOUS
  <2>2. SumTo(f, k + 1) = SumTo(f, k) + f[k + 1] /\ SumTo(g, k + 1) = SumTo(g, k) + g[k + 1]
    BY SumSteps
  <2>3. SumTo(f, k) \in Int /\ SumTo(g, k) \in Int
    BY <2>1, SumSteps
  <2>4. f[k + 1] <= g[k + 1] /\ f[k + 1] \in Int /\ g[k + 1] \in Int
    BY <2>1
  <2>5. SumTo(f, k) <= SumTo(g, k)
    BY <1>2
  <2>6. SumTo(f, k + 1) <= SumTo(g, k + 1)
    BY <2>2, <2>3, <2>4, <2>5
  <2> QED
    BY <2>1, <2>6
<1> HIDE DEF S
<1>3. \A k \in 0..n : k \in S
  BY <1>1, <1>2, Induction
<1> QED
  BY <1>3 DEF S

\* The sum of differences is the difference of the sums.
LEMMA SumMinus ==
  ASSUME NEW n \in Nat, NEW f \in [1..n -> Int], NEW g \in [1..n -> Int],
         NEW d \in [1..n -> Int], \A k \in 1..n : d[k] = f[k] - g[k]
  PROVE  \A k \in 0..n : SumTo(d, k) = SumTo(f, k) - SumTo(g, k)
<1> DEFINE S == {k \in Nat : SumTo(d, k) = SumTo(f, k) - SumTo(g, k)}
<1>1. 0 \in S
  <2>1. SumTo(f, 0) = 0 /\ SumTo(g, 0) = 0 /\ SumTo(d, 0) = 0
    BY SumSteps
  <2> QED
    BY <2>1
<1>2. ASSUME NEW k \in 0..n - 1, k \in S PROVE k + 1 \in S
  <2>1. k \in 0..n /\ k + 1 \in 1..n /\ k + 1 \in 0..n /\ k + 1 - 1 = k /\ k + 1 \in Nat
    OBVIOUS
  <2>2. /\ SumTo(f, k + 1) = SumTo(f, k) + f[k + 1]
        /\ SumTo(g, k + 1) = SumTo(g, k) + g[k + 1]
        /\ SumTo(d, k + 1) = SumTo(d, k) + d[k + 1]
    BY SumSteps
  <2>3. SumTo(f, k) \in Int /\ SumTo(g, k) \in Int
    BY <2>1, SumSteps
  <2>4. d[k + 1] = f[k + 1] - g[k + 1] /\ f[k + 1] \in Int /\ g[k + 1] \in Int
    BY <2>1
  <2>5. SumTo(d, k) = SumTo(f, k) - SumTo(g, k)
    BY <1>2
  <2>6. SumTo(d, k + 1) = SumTo(f, k + 1) - SumTo(g, k + 1)
    BY <2>2, <2>3, <2>4, <2>5
  <2> QED
    BY <2>1, <2>6
<1> HIDE DEF S
<1>3. \A k \in 0..n : k \in S
  BY <1>1, <1>2, Induction
<1> QED
  BY <1>3 DEF S

\* Every number below a sum falls into the part of one place: the parts that
\* the workers get of individual_ns leave no gap.
LEMMA SumCovers ==
  ASSUME NEW n \in Nat, NEW f \in [1..n -> Nat]
  PROVE  \A s \in Nat : s < SumTo(f, n) =>
           \E k \in 1..n : SumTo(f, k - 1) <= s /\ s < SumTo(f, k - 1) + f[k]
<1> SUFFICES ASSUME NEW s \in Nat,
                    ~ \E k \in 1..n : SumTo(f, k - 1) <= s /\ s < SumTo(f, k - 1) + f[k]
             PROVE  ~(s < SumTo(f, n))
  OBVIOUS
<1> DEFINE S == {k \in Nat : SumTo(f, k) <= s}
<1>0. f \in [1..n -> Int]
  OBVIOUS
<1>1. 0 \in S
  BY <1>0, SumSteps
<1>2. ASSUME NEW k \in 0..n - 1, k \in S PROVE k + 1 \in S
  <2>1. k \in 0..n /\ k + 1 \in 1..n /\ k + 1 \in 0..n /\ k + 1 - 1 = k /\ k + 1 \in Nat
    OBVIOUS
  <2>2. SumTo(f, k + 1) = SumTo(f, k) + f[k + 1]
    BY <1>0, SumSteps
  <2>3. SumTo(f, k) \in Int /\ f[k + 1] \in Nat
    BY <1>0, SumSteps
  <2>4. SumTo(f, k) <= s
    BY <1>2
  <2>5. ~(s < SumTo(f, k) + f[k + 1])
    BY <2>1, <2>4
  <2>6. SumTo(f, k + 1) <= s
    BY <2>2, <2>3, <2>5
  <2> QED
    BY <2>1, <2>6
<1> HIDE DEF S
<1>3. n \in S
  BY <1>1, <1>2, Induction
<1>4. SumTo(f, n) \in Int
  BY <1>0, SumSteps
<1>5. SumTo(f, n) <= s
  BY <1>3 DEF S
<1> QED
  BY <1>4, <1>5

\* A partial sum of naturals is at most the whole one, with room for the next
\* element.
LEMMA SumRoom ==
  ASSUME NEW n \in Nat, NEW f \in [1..n -> Nat]
  PROVE  \A k \in 1..n : /\ SumTo(f, k - 1) \in Nat
                         /\ SumTo(f, k - 1) + f[k] <= SumTo(f, n)
<1>0. f \in [1..n -> Int]
  OBVIOUS
<1> DEFINE S == {j \in Nat : SumTo(f, j) >= 0}
<1>1. 0 \in S
  BY <1>0, SumSteps
<1>2. ASSUME NEW k \in 0..n - 1, k \in S PROVE k + 1 \in S
  <2>1. k \in 0..n /\ k + 1 \in 1..n /\ k + 1 \in 0..n /\ k + 1 - 1 = k /\ k + 1 \in Nat
    OBVIOUS
  <2>2. SumTo(f, k + 1) = SumTo(f, k) + f[k + 1]
    BY <1>0, SumSteps
  <2>3. SumTo(f, k) \in Int /\ f[k + 1] \in Nat
    BY <1>0, SumSteps
  <2>4. SumTo(f, k) >= 0
    BY <1>2
  <2> QED
    BY <2>1, <2>2, <2>3, <2>4
<1>3. \A k \in 0..n : SumTo(f, k) \in Nat
  <2> HIDE DEF S
  <2>1. \A k \in 0..n : k \in S
    BY <1>1, <1>2, Induction
  <2> QED
    BY <1>0, <2>1, SumSteps DEF S
<1>4. ASSUME NEW k \in 1..n PROVE SumTo(f, k) <= SumTo(f, n)
  <2> DEFINE T == {j \in Nat : j >= k => SumTo(f, k) <= SumTo(f, j)}
  <2>1. 0 \in T
    OBVIOUS
  <2>2. ASSUME NEW j \in 0..n - 1, j \in T PROVE j + 1 \in T
    <3>1. j \in 0..n /\ j + 1 \in 1..n /\ j + 1 \in 0..n /\ j + 1 - 1 = j /\ j + 1 \in Nat
      OBVIOUS
    <3>2. SumTo(f, j + 1) = SumTo(f, j) + f[j + 1]
      BY <1>0, SumSteps
    <3>3. SumTo(f, j) \in Int /\ f[j + 1] \in Nat /\ SumTo(f, k) \in Int
      BY <1>0, SumSteps
    <3>4. CASE j >= k
      <4>1. SumTo(f, k) <= SumTo(f, j)
        BY <2>2, <3>4
      <4>2. SumTo(f, k) <= SumTo(f, j + 1)
        BY <3>2, <3>3, <4>1
      <4> QED
        BY <3>1, <4>2
    <3>5. CASE ~(j >= k)
      <4>1. j + 1 >= k => j + 1 = k
        BY <3>5
      <4>2. j + 1 >= k => SumTo(f, k) <= SumTo(f, j + 1)
        BY <3>3, <4>1
      <4> QED
        BY <3>1, <4>2
    <3> QED
      BY <3>4, <3>5
  <2>3. n \in T
    <3> HIDE DEF T
    <3> QED
      BY <2>1, <2>2, Induction
  <2>4. n >= k
    OBVIOUS
  <2> QED
    BY <2>3, <2>4
<1>5. ASSUME NEW k \in 1..n PROVE SumTo(f, k) = SumTo(f, k - 1) + f[k] /\ k - 1 \in 0..n
  <2>1. k - 1 \in 0..n - 1 /\ k - 1 \in 0..n /\ k - 1 + 1 = k
    OBVIOUS
  <2>2. \A j \in 0..n - 1 : SumTo(f, j + 1) = SumTo(f, j) + f[j + 1]
    BY <1>0, SumSteps
  <2> QED
    BY <2>1, <2>2
<1> QED
  BY <1>3, <1>4, <1>5
\* What the members of Benchmark that describe a workload can be.
LEMMA WorkloadFacts ==
  ASSUME args \in Workloads
  PROVE  /\ NumThreads \in Nat \ {0} /\ 1 \in Threads /\ Ops \in Seq(Seq(STRING))
         /\ \A w \in Threads : Ops[w] \in Seq(STRING) /\ Len(Ops[w]) \in Nat
         /\ NumBlocks \in Nat \ {0} /\ NumRepeats \in Nat \ {0} /\ Flag \in {0, 1}
         /\ BuildOnly \in BOOLEAN /\ Through \in BOOLEAN
         /\ NumBlocks > 1 => Flag = 0 /\ Threads = {1} /\ InBlocks(Ops[1], NumBlocks)
         /\ NumPhases \in Nat
<1>1. NumThreads \in Nat \ {0} /\ 1 \in Threads /\ Ops \in Seq(Seq(STRING))
  BY DriverAssumption DEF NumThreads, Ops, Threads
<1>2. \A w \in Threads : Ops[w] \in Seq(STRING) /\ Len(Ops[w]) \in Nat
  BY <1>1 DEF Threads, NumThreads, Ops
<1>3. /\ NumBlocks \in Nat \ {0} /\ NumRepeats \in Nat \ {0} /\ Flag \in {0, 1}
      /\ NumBlocks > 1 => Flag = 0 /\ NumThreads = 1 /\ InBlocks(Ops[1], NumBlocks)
  BY DriverAssumption DEF NumBlocks, NumRepeats, Flag, NumThreads, Ops
<1>4. BuildOnly \in BOOLEAN /\ Through \in BOOLEAN
  BY DriverAssumption DEF BuildOnly, Through
<1>5. NumPhases \in Nat
  BY <1>3 DEF NumPhases
<1>6. NumThreads = 1 => Threads = {1}
  BY DEF Threads
<1> QED
  BY <1>1, <1>2, <1>3, <1>4, <1>5, <1>6

\* The leading inserts of a thread end at InsertBound.
LEMMA InsertBoundFacts ==
  ASSUME args \in Workloads, NEW w \in Threads
  PROVE  /\ InsertBound(w) \in 0..Len(Ops[w])
         /\ \A k \in 0..InsertBound(w) - 1 : Ops[w][k + 1] = INSERT
         /\ InsertBound(w) < Len(Ops[w]) => Ops[w][InsertBound(w) + 1] # INSERT
<1>1. Ops[w] \in Seq(STRING) /\ Len(Ops[w]) \in Nat
  BY WorkloadFacts
<1> DEFINE odd == TRUE
<1>2. odd \in BOOLEAN /\ odd
  OBVIOUS
<1>3. InsertBound(w) = NextBound(Ops[w], 0, odd)
  BY Zenon DEF InsertBound
<1>4. 0 \in 0..Len(Ops[w])
  BY <1>1
<1> HIDE DEF odd
<1>5. /\ NextBound(Ops[w], 0, odd) \in 0..Len(Ops[w])
      /\ \A k \in 0..NextBound(Ops[w], 0, odd) - 1 : Ops[w][k + 1] = INSERT <=> odd
      /\ NextBound(Ops[w], 0, odd) < Len(Ops[w]) =>
           ~(Ops[w][NextBound(Ops[w], 0, odd) + 1] = INSERT <=> odd)
  BY <1>1, <1>2, <1>4, NextBoundFacts
<1> DEFINE b == NextBound(Ops[w], 0, odd)
<1> HIDE DEF b
<1>6. /\ b \in 0..Len(Ops[w])
      /\ \A k \in 0..b - 1 : Ops[w][k + 1] = INSERT
      /\ b < Len(Ops[w]) => Ops[w][b + 1] # INSERT
  BY <1>2, <1>5, Zenon DEF b
<1> QED
  BY <1>3, <1>6, Zenon DEF b

\* The bounds of the phases cut every thread's operations into consecutive
\* pieces, from the first operation on.
LEMMA PhaseBounds ==
  ASSUME args \in Workloads
  PROVE  \A w \in Threads, i \in 0..NumPhases - 1 :
           /\ Start(w, i) \in Nat /\ Limit(w, i) \in Nat
           /\ Start(w, i) <= Limit(w, i) /\ Limit(w, i) <= Len(Ops[w])
           /\ i = 0 => Start(w, i) = 0
           /\ i > 0 => Start(w, i) = Limit(w, i - 1)
<1> SUFFICES ASSUME NEW w \in Threads, NEW i \in 0..NumPhases - 1
             PROVE  /\ Start(w, i) \in Nat /\ Limit(w, i) \in Nat
                    /\ Start(w, i) <= Limit(w, i) /\ Limit(w, i) <= Len(Ops[w])
                    /\ i = 0 => Start(w, i) = 0
                    /\ i > 0 => Start(w, i) = Limit(w, i - 1)
  BY Zenon
<1>1. /\ NumBlocks \in Nat \ {0} /\ Flag \in {0, 1} /\ NumPhases \in Nat
      /\ NumBlocks > 1 => Flag = 0 /\ Threads = {1}
      /\ Ops[w] \in Seq(STRING) /\ Len(Ops[w]) \in Nat
  BY WorkloadFacts
<1>2. CASE NumBlocks > 1
  <2>1. w = 1 /\ Flag = 0 /\ i + 1 \in 1..2 * NumBlocks /\ i \in 0..2 * NumBlocks /\ i \in Nat
    BY <1>1, <1>2 DEF NumPhases
  <2>2. BlockBound[i] \in 0..Len(Ops[1]) /\ BlockBound[i + 1] \in 0..Len(Ops[1])
    BY <1>1, <2>1, BlockBoundDef
  <2>3. BlockBound[0] = 0
    BY BlockBoundDef
  <2>4. BlockBound[i + 1] = NextBound(Ops[1], BlockBound[i], (i + 1) % 2 = 1)
    <3>1. i + 1 - 1 = i
      BY <2>1
    <3> QED
      BY <2>1, <3>1, BlockBoundDef
  <2>5. NextBound(Ops[1], BlockBound[i], (i + 1) % 2 = 1) >= BlockBound[i]
    BY <1>1, <2>1, <2>2, ParityBound
  <2> DEFINE a == BlockBound[i]
             b == BlockBound[i + 1]
             c == BlockBound[i - 1 + 1]
  <2>6. a \in Nat /\ b \in Nat /\ a <= b /\ b <= Len(Ops[w])
    <3>1. b >= a
      BY <2>4, <2>5
    <3> QED
      BY <2>1, <2>2, <3>1
  <2>7. Start(w, i) = a /\ Limit(w, i) = b /\ Limit(w, i - 1) = c
    BY <1>2 DEF Start, Limit
  <2>8. c = a
    BY <2>1
  <2> QED
    BY <2>3, <2>6, <2>7, <2>8
<1>3. CASE ~(NumBlocks > 1)
  <2>1. InsertBound(w) \in 0..Len(Ops[w])
    BY InsertBoundFacts
  <2>2. NumBlocks = 1 /\ i \in 0..1 /\ (Flag = 1 => i = 0)
    BY <1>1, <1>3 DEF NumPhases
  <2> QED
    BY <1>1, <1>3, <2>1, <2>2 DEF Start, Limit
<1> QED
  BY <1>2, <1>3

\* The last phase ends with the last operation of every thread.
LEMMA LastBound ==
  ASSUME args \in Workloads, NumPhases > 0
  PROVE  \A w \in Threads : Limit(w, NumPhases - 1) = Len(Ops[w])
<1> SUFFICES ASSUME NEW w \in Threads PROVE Limit(w, NumPhases - 1) = Len(Ops[w])
  OBVIOUS
<1>1. /\ NumBlocks \in Nat \ {0} /\ Flag \in {0, 1} /\ NumPhases \in Nat
      /\ NumBlocks > 1 => Flag = 0 /\ Threads = {1} /\ InBlocks(Ops[1], NumBlocks)
      /\ Ops[w] \in Seq(STRING) /\ Len(Ops[w]) \in Nat
  BY WorkloadFacts
<1>2. CASE NumBlocks > 1
  <2>1. w = 1 /\ NumPhases = 2 * NumBlocks /\ 2 * NumBlocks \in Nat
    BY <1>1, <1>2 DEF NumPhases
  <2>2. PICK cut \in [0..2 * NumBlocks -> 0..Len(Ops[1])] :
          /\ cut[0] = 0 /\ cut[2 * NumBlocks] = Len(Ops[1])
          /\ \A j \in 1..2 * NumBlocks : \A k \in cut[j - 1]..cut[j] - 1 :
               Ops[1][k + 1] = INSERT <=> j % 2 = 1
    BY <1>1, <1>2, Zenon DEF InBlocks
  <2> DEFINE S == {j \in Nat : BlockBound[j] >= cut[j]}
  <2>3. 0 \in S
    <3>1. BlockBound[0] = 0
      BY BlockBoundDef
    <3> QED
      BY <2>2, <3>1
  <2>4. ASSUME NEW j \in 0..2 * NumBlocks - 1, j \in S PROVE j + 1 \in S
    <3>1. /\ j \in Nat /\ j \in 0..2 * NumBlocks /\ j + 1 \in 1..2 * NumBlocks
          /\ j + 1 \in 0..2 * NumBlocks /\ j + 1 - 1 = j /\ j + 1 \in Nat
      BY <2>1
    <3> DEFINE a == BlockBound[j]
               b == BlockBound[j + 1]
               odd == (j + 1) % 2 = 1
    <3>2. a \in 0..Len(Ops[1]) /\ b \in 0..Len(Ops[1]) /\ odd \in BOOLEAN
      BY <3>1, BlockBoundDef
    <3>3. b = NextBound(Ops[1], a, odd)
      BY <3>1, BlockBoundDef
    <3>4. cut[j] \in 0..Len(Ops[1]) /\ cut[j + 1] \in 0..Len(Ops[1])
      BY <2>2, <3>1
    <3>5. \A k \in cut[j]..cut[j + 1] - 1 : Ops[1][k + 1] = INSERT <=> odd
      <4>1. \A k \in cut[j + 1 - 1]..cut[j + 1] - 1 : Ops[1][k + 1] = INSERT <=> odd
        BY <2>2, <3>1
      <4> QED
        BY <3>1, <4>1
    <3>6. a >= cut[j]
      BY <2>4
    <3> HIDE DEF a, b, odd
    <3>7. b >= a /\ (b < Len(Ops[1]) => ~(Ops[1][b + 1] = INSERT <=> odd))
      <4>1. Ops[1] \in Seq(STRING)
        BY <1>1, <2>1
      <4>2. /\ NextBound(Ops[1], a, odd) \in a..Len(Ops[1])
            /\ NextBound(Ops[1], a, odd) < Len(Ops[1]) =>
                 ~(Ops[1][NextBound(Ops[1], a, odd) + 1] = INSERT <=> odd)
        BY <3>2, <4>1, NextBoundFacts
      <4>3. b \in a..Len(Ops[1])
        BY <3>3, <4>2
      <4>4. b < Len(Ops[1]) => ~(Ops[1][b + 1] = INSERT <=> odd)
        BY <3>3, <4>2, Zenon
      <4> QED
        BY <3>2, <4>3, <4>4
    <3>8. b >= cut[j + 1]
      <4> SUFFICES ASSUME b < cut[j + 1] PROVE FALSE
        BY <3>2, <3>4
      <4>1. b \in cut[j]..cut[j + 1] - 1 /\ b < Len(Ops[1])
        BY SMTT(30), <3>2, <3>4, <3>6, <3>7, <1>1, <2>1
      <4> QED
        BY <3>5, <3>7, <4>1, Zenon
    <3> QED
      BY <3>1, <3>8 DEF b
  <2>5. 2 * NumBlocks \in S
    <3> HIDE DEF S
    <3> QED
      BY <2>1, <2>3, <2>4, Induction
  <2>6. BlockBound[2 * NumBlocks] \in 0..Len(Ops[1])
    BY <2>1, BlockBoundDef
  <2>7. BlockBound[2 * NumBlocks] = Len(Ops[1])
    <3>1. BlockBound[2 * NumBlocks] >= Len(Ops[1])
      BY <2>2, <2>5
    <3> QED
      BY <1>1, <2>1, <2>6, <3>1
  <2>8. 2 * NumBlocks - 1 + 1 = 2 * NumBlocks
    BY <2>1
  <2> QED
    BY <1>2, <2>1, <2>7, <2>8 DEF Limit
<1>3. CASE ~(NumBlocks > 1)
  BY <1>1, <1>3 DEF NumPhases, Limit
<1> QED
  BY <1>2, <1>3

\* In a workload of two phases the first holds the inserts of every thread and
\* nothing else.
LEMMA InsertPhase ==
  ASSUME args \in Workloads, Flag = 0, NumBlocks = 1
  PROVE  \A w \in Threads :
           /\ \A k \in 0..InsertBound(w) - 1 : Ops[w][k + 1] = INSERT
           /\ \A j \in 1..Len(Ops[w]) : Ops[w][j] = INSERT => j <= InsertBound(w)
<1> SUFFICES ASSUME NEW w \in Threads
             PROVE  /\ \A k \in 0..InsertBound(w) - 1 : Ops[w][k + 1] = INSERT
                    /\ \A j \in 1..Len(Ops[w]) : Ops[w][j] = INSERT => j <= InsertBound(w)
  OBVIOUS
<1>1. Ops[w] \in Seq(STRING) /\ Len(Ops[w]) \in Nat
  BY WorkloadFacts
<1>2. InsertsFirst(Ops[w])
  BY DriverAssumption DEF Flag, NumBlocks, Ops, Threads, NumThreads
<1> DEFINE b == InsertBound(w)
<1>3. /\ b \in 0..Len(Ops[w])
      /\ \A k \in 0..b - 1 : Ops[w][k + 1] = INSERT
      /\ b < Len(Ops[w]) => Ops[w][b + 1] # INSERT
  BY InsertBoundFacts
<1> HIDE DEF b
<1>4. ASSUME NEW j \in 1..Len(Ops[w]), Ops[w][j] = INSERT PROVE j <= b
  <2> SUFFICES ASSUME b < j PROVE FALSE
    BY <1>1, <1>3
  <2>1. b < Len(Ops[w]) /\ b + 1 \in DOMAIN Ops[w] /\ j \in DOMAIN Ops[w]
    BY <1>1, <1>3
  <2>2. b + 1 = j \/ b + 1 < j
    BY <1>3
  <2> QED
    BY <1>2, <1>3, <1>4, <2>1, <2>2 DEF InsertsFirst
<1> QED
  BY <1>3, <1>4 DEF b

\* Between them the workers get the first exe_cnt slots of individual_ns, and
\* the array is long enough for the largest phase.
LEMMA SlotFacts ==
  ASSUME args \in Workloads, NEW i \in 0..NumPhases - 1
  PROVE  /\ ExeCnt(i) \in Nat /\ SlotCount \in Nat /\ ExeCnt(i) <= SlotCount
         /\ \A w \in Threads :
              /\ SlotBase(w, i) \in Nat
              /\ SlotBase(w, i) + (Limit(w, i) - Start(w, i)) <= ExeCnt(i)
         /\ \A s \in 0..ExeCnt(i) - 1 : \E w \in Threads :
              /\ SlotBase(w, i) <= s
              /\ s < SlotBase(w, i) + (Limit(w, i) - Start(w, i))
<1> DEFINE n == NumThreads
           sz == Sizes(i)
<1>1. n \in Nat \ {0} /\ Threads = 1..n
  BY WorkloadFacts DEF Threads
<1>2. /\ NumBlocks \in Nat \ {0} /\ Flag \in {0, 1} /\ NumPhases \in Nat
      /\ NumBlocks > 1 => Flag = 0 /\ Threads = {1}
      /\ \A w \in Threads : Len(Ops[w]) \in Nat
  BY WorkloadFacts
<1>3. ASSUME NEW w \in Threads
      PROVE  /\ Start(w, i) \in Nat /\ Limit(w, i) \in Nat
             /\ Limit(w, i) - Start(w, i) \in Nat /\ Limit(w, i) <= Len(Ops[w])
  BY PhaseBounds
<1>4. sz \in [1..n -> Nat] /\ \A w \in Threads : sz[w] = Limit(w, i) - Start(w, i)
  BY <1>1, <1>3 DEF Sizes
<1>5. ExeCnt(i) = SumTo(sz, n) /\ \A w \in Threads : SlotBase(w, i) = SumTo(sz, w - 1)
  BY DEF ExeCnt, SlotBase
<1> HIDE DEF n, sz
<1>6. \A w \in 1..n : SumTo(sz, w - 1) \in Nat /\ SumTo(sz, w - 1) + sz[w] <= SumTo(sz, n)
  BY <1>1, <1>4, SumRoom
<1>7. SumTo(sz, n) \in Nat
  <2>1. sz \in [1..n -> Int] /\ n \in 0..n /\ n \in 1..n
    BY <1>1, <1>4
  <2>2. SumTo(sz, n) \in Int
    BY <1>1, <2>1, SumSteps
  <2>3. SumTo(sz, n - 1) \in Nat /\ sz[n] \in Nat /\ SumTo(sz, n - 1) + sz[n] <= SumTo(sz, n)
    BY <1>4, <1>6, <2>1
  <2> QED
    BY <2>2, <2>3
<1>8. \A s \in Nat : s < SumTo(sz, n) =>
        \E w \in 1..n : SumTo(sz, w - 1) <= s /\ s < SumTo(sz, w - 1) + sz[w]
  BY <1>1, <1>4, SumCovers
<1>9. SlotCount \in Nat /\ ExeCnt(i) <= SlotCount
  <2>1. CASE NumBlocks > 1
    <3> DEFINE S == {BlockBound[j] - BlockBound[j - 1] : j \in 1..2 * NumBlocks}
    <3>1. n = 1 /\ Flag = 0 /\ i + 1 \in 1..2 * NumBlocks /\ i + 1 - 1 = i
      <4>1. Flag = 0 /\ 1..n = {1}
        BY <1>1, <1>2, <2>1
      <4>2. n \in 1..n /\ n \in Nat
        BY <1>1
      <4>3. i \in 0..2 * NumBlocks - 1
        BY <1>2, <4>1 DEF NumPhases
      <4>4. n = 1
        BY <4>1, <4>2
      <4>5. i + 1 \in 1..2 * NumBlocks /\ i + 1 - 1 = i
        BY <1>2, <4>3
      <4> QED
        BY <4>1, <4>4, <4>5
    <3>2. S \in SUBSET (0..Len(Ops[1]))
      <4> SUFFICES ASSUME NEW j \in 1..2 * NumBlocks
                   PROVE  BlockBound[j] - BlockBound[j - 1] \in 0..Len(Ops[1])
        OBVIOUS
      <4>1. j - 1 \in 0..2 * NumBlocks /\ j \in 0..2 * NumBlocks /\ j \in Nat
        BY <1>2
      <4>2. BlockBound[j] \in 0..Len(Ops[1]) /\ BlockBound[j - 1] \in 0..Len(Ops[1])
        BY <4>1, BlockBoundDef
      <4>3. BlockBound[j] = NextBound(Ops[1], BlockBound[j - 1], j % 2 = 1)
        BY BlockBoundDef
      <4>4. Ops[1] \in Seq(STRING)
        BY WorkloadFacts
      <4>5. NextBound(Ops[1], BlockBound[j - 1], j % 2 = 1) >= BlockBound[j - 1]
        BY <4>1, <4>2, <4>4, ParityBound
      <4>6. BlockBound[j] >= BlockBound[j - 1]
        BY <4>3, <4>5
      <4> QED
        BY <1>1, <1>2, <4>2, <4>6
    <3>3. BlockBound[i + 1] - BlockBound[i] \in S
      BY <3>1
    <3>4. SlotCount = Max(S)
      BY <2>1 DEF SlotCount
    <3>5. 1 \in Threads /\ Len(Ops[1]) \in Nat
      BY <1>1, <1>2
    <3>6. SumTo(sz, 1) = sz[1]
      <4>1. sz \in [1..1 -> Int] /\ 0 \in 0..1 - 1 /\ sz[1] \in Int
        BY <1>4, <3>1
      <4>2. SumTo(sz, 0) = 0 /\ SumTo(sz, 0 + 1) = SumTo(sz, 0) + sz[0 + 1]
        BY <4>1, SumSteps
      <4> QED
        BY <4>1, <4>2
    <3>7. sz[1] = BlockBound[i + 1] - BlockBound[i]
      BY <1>4, <2>1, <3>5 DEF Limit, Start
    <3> HIDE DEF S
    <3>8. Max(S) \in S /\ \A k \in S : k <= Max(S)
      BY <3>2, <3>3, <3>5, MaxOfSet
    <3>9. Max(S) \in Nat
      <4>1. Max(S) \in 0..Len(Ops[1])
        BY <3>2, <3>8, Zenon
      <4> QED
        BY <3>5, <4>1
    <3> QED
      BY <1>5, <3>1, <3>3, <3>4, <3>6, <3>7, <3>8, <3>9
  <2>2. CASE ~(NumBlocks > 1)
    <3> DEFINE L == [w \in Threads |-> Len(Ops[w])]
               B == [w \in Threads |-> InsertBound(w)]
    <3>1. NumBlocks = 1 /\ i \in 0..1 /\ (Flag = 1 => i = 0)
      BY <1>2, <2>2 DEF NumPhases
    <3>2. \A w \in Threads : InsertBound(w) \in 0..Len(Ops[w])
      BY InsertBoundFacts
    <3>3. L \in [1..n -> Int] /\ B \in [1..n -> Int] /\ n \in 0..n
      BY <1>1, <1>2, <3>2
    <3>4. \A w \in Threads : L[w] = Len(Ops[w]) /\ B[w] = InsertBound(w)
      OBVIOUS
    <3> DEFINE tot == SumTo(L, n)
               ins == IF Flag = 1 THEN 0 ELSE SumTo(B, n)
    <3>5. SlotCount = Max({ins, tot - ins})
      BY <2>2 DEF SlotCount, n
    <3> HIDE DEF L, B
    <3>6. SumTo(L, n) \in Int /\ SumTo(B, n) \in Int
      BY <1>1, <3>3, SumSteps
    <3>7. tot \in Int /\ ins \in Int
      BY <3>6
    <3>8. /\ Max({ins, tot - ins}) \in {ins, tot - ins}
          /\ Max({ins, tot - ins}) >= ins /\ Max({ins, tot - ins}) >= tot - ins
      <4> HIDE DEF ins, tot
      <4>1. \E x \in {ins, tot - ins} : \A y \in {ins, tot - ins} : x >= y
        BY <3>7
      <4> QED
        BY <4>1 DEF Max
    <3>9. SumTo(sz, n) = ins \/ SumTo(sz, n) = tot - ins
      <4>1. CASE Flag = 1
        <5>1. i = 0
          BY <3>1, <4>1
        <5>2. \A w \in Threads : sz[w] = L[w]
          BY <1>4, <1>2, <3>1, <3>4, <4>1, <5>1 DEF Start, Limit
        <5>3. sz = L
          BY <1>1, <1>4, <3>3, <5>2
        <5> QED
          BY <3>6, <4>1, <5>3
      <4>2. CASE Flag = 0 /\ i = 0
        <5>1. \A w \in Threads : sz[w] = B[w]
          BY <1>4, <3>1, <3>2, <3>4, <4>2, <1>2 DEF Start, Limit
        <5>2. sz = B
          BY <1>1, <1>4, <3>3, <5>1
        <5> QED
          BY <4>2, <5>2
      <4>3. CASE Flag = 0 /\ i = 1
        <5>1. \A w \in 1..n : sz[w] = L[w] - B[w]
          BY <1>1, <1>4, <3>1, <3>4, <4>3, <1>2 DEF Start, Limit
        <5>2. sz \in [1..n -> Int]
          BY <1>4
        <5>3. SumTo(sz, n) = SumTo(L, n) - SumTo(B, n)
          <6>0. n \in Nat
            BY <1>1
          <6>1. \A k \in 0..n : SumTo(sz, k) = SumTo(L, k) - SumTo(B, k)
            BY <3>3, <5>1, <5>2, <6>0, SumMinus, Zenon
          <6> QED
            BY <3>3, <6>1
        <5> QED
          BY <4>3, <5>3
      <4> QED
        BY <1>2, <3>1, <4>1, <4>2, <4>3
    <3> HIDE DEF ins, tot
    <3> QED
      BY <1>5, <1>7, <3>5, <3>7, <3>8, <3>9
  <2> QED
    BY <2>1, <2>2
<1>10. ASSUME NEW w \in Threads
       PROVE  /\ SlotBase(w, i) \in Nat
              /\ SlotBase(w, i) + (Limit(w, i) - Start(w, i)) <= ExeCnt(i)
  BY <1>1, <1>4, <1>5, <1>6
<1>11. ASSUME NEW s \in 0..ExeCnt(i) - 1
       PROVE  \E w \in Threads : /\ SlotBase(w, i) <= s
                                 /\ s < SlotBase(w, i) + (Limit(w, i) - Start(w, i))
  <2>1. s \in Nat /\ s < SumTo(sz, n)
    BY <1>5, <1>7
  <2>2. PICK w \in 1..n : SumTo(sz, w - 1) <= s /\ s < SumTo(sz, w - 1) + sz[w]
    BY <1>8, <2>1
  <2> QED
    BY <1>1, <1>4, <1>5, <2>2
<1>12. ExeCnt(i) \in Nat
  BY <1>5, <1>7
<1> QED
  BY <1>9, <1>10, <1>11, <1>12

\* None of them changes: the workload of a process stays the same.
LEMMA BoundsKept ==
  ASSUME args' = args
  PROVE  /\ Threads' = Threads /\ NumThreads' = NumThreads /\ NumPhases' = NumPhases
         /\ NumRepeats' = NumRepeats /\ BuildOnly' = BuildOnly /\ Through' = Through
         /\ Flag' = Flag /\ NumBlocks' = NumBlocks /\ Ops' = Ops
         /\ \A w, i : Start(w, i)' = Start(w, i) /\ Limit(w, i)' = Limit(w, i)
<1>1. /\ Threads' = Threads /\ NumThreads' = NumThreads /\ NumPhases' = NumPhases
      /\ NumRepeats' = NumRepeats /\ BuildOnly' = BuildOnly /\ Through' = Through
      /\ Flag' = Flag /\ NumBlocks' = NumBlocks /\ Ops' = Ops
  BY
     DEF Threads, NumThreads, NumPhases, NumRepeats, BuildOnly, Through, Flag,
         NumBlocks, Ops
<1>2. BlockBound' = BlockBound /\ \A w : InsertBound(w)' = InsertBound(w)
  BY <1>1 DEF BlockBound, InsertBound
<1>3. \A w, i : Start(w, i)' = Start(w, i) /\ Limit(w, i)' = Limit(w, i)
  BY <1>1, <1>2 DEF Start, Limit
<1> QED
  BY <1>1, <1>3

\* Nor do the sums over the threads.
LEMMA SlotsKept ==
  ASSUME args' = args
  PROVE  /\ SlotCount' = SlotCount
         /\ \A i : ExeCnt(i)' = ExeCnt(i) /\ \A w : SlotBase(w, i)' = SlotBase(w, i)
<1>1. /\ Threads' = Threads /\ NumThreads' = NumThreads /\ Flag' = Flag
      /\ NumBlocks' = NumBlocks /\ Ops' = Ops
      /\ \A w, i : Start(w, i)' = Start(w, i) /\ Limit(w, i)' = Limit(w, i)
  BY BoundsKept
<1>2. BlockBound' = BlockBound /\ \A w : InsertBound(w)' = InsertBound(w)
  BY <1>1 DEF BlockBound, InsertBound
<1>3. ASSUME NEW i PROVE Sizes(i)' = Sizes(i)
  BY <1>1 DEF Sizes
<1>4. ASSUME NEW i PROVE ExeCnt(i)' = ExeCnt(i) /\ \A w : SlotBase(w, i)' = SlotBase(w, i)
  BY <1>1, <1>3 DEF ExeCnt, SlotBase
<1> DEFINE D == {BlockBound[j] - BlockBound[j - 1] : j \in 1..2 * NumBlocks}
           L == [w \in Threads |-> Len(Ops[w])]
           B == [w \in Threads |-> InsertBound(w)]
           tot == SumTo(L, NumThreads)
           ins == IF Flag = 1 THEN 0 ELSE SumTo(B, NumThreads)
<1>5. D' = D
  BY <1>1, <1>2
<1>6. L' = L
  BY <1>1
<1>7. B' = B
  BY <1>1, <1>2
<1>8. SlotCount = IF NumBlocks > 1 THEN Max(D) ELSE Max({ins, tot - ins})
  BY DEF SlotCount
<1>9. SlotCount' = IF NumBlocks' > 1 THEN Max(D') ELSE Max({ins', tot' - ins'})
  BY DEF SlotCount
<1> HIDE DEF D, L, B
<1>10. tot' = tot /\ ins' = ins
  BY <1>1, <1>6, <1>7
<1> HIDE DEF tot, ins
<1>11. SlotCount' = SlotCount
  BY <1>1, <1>5, <1>8, <1>9, <1>10
<1> QED
  BY <1>4, <1>11

-----------------------------------------------------------------------------
(* The inductive invariant.                                                 *)

\* The main thread is inside an iteration of DoOps.
InPhase == mpc \in {"single", "spawn", "wait", "run", "join", "check"}

\* The types of the variables but for ready and ns, whose ranges are a count
\* and a sum.
Typed ==
  /\ args \in Workloads
  /\ mpc \in {"start", "build", "phase", "single", "spawn", "wait", "run", "join",
              "check", "print"}
  /\ run \in 0..NumRuns
  /\ rep \in 0..NumRepeats
  /\ phase \in 0..NumPhases
  /\ running \in BOOLEAN /\ run_failed \in BOOLEAN
  /\ wpc \in [Threads -> {"none", "ready", "spin", "top", "op", "chk", "cnt", "done"}]
  /\ idx \in [Threads -> Nat]
  /\ flag \in [Threads -> BOOLEAN]
  /\ op_cnt \in [Threads -> Nat \cup {Uninit}]
  /\ results \in Seq(Int)
  /\ applied \in [Threads -> Nat]
  /\ doneAtStop \in [Threads -> Nat]

\* Where the workers are while the main thread is somewhere.
Control ==
  /\ InPhase => phase < NumPhases
  /\ mpc \notin {"start", "print"} => rep < NumRepeats
  /\ mpc = "print" => rep = NumRepeats
  /\ mpc \in {"start", "build", "phase", "print"} =>
       \A w \in Threads : wpc[w] \in {"none", "done"}
  /\ mpc = "check" => \A w \in Threads : wpc[w] = "done"
  /\ mpc = "single" => ~running /\ NumThreads = 1 /\ \A w \in Threads : wpc[w] = "none"
  /\ mpc \in {"spawn", "wait"} =>
       ~running /\ \A w \in Threads : wpc[w] \in {"none", "ready", "spin"}
  /\ mpc = "spawn" => wpc[NumThreads] = "none"

\* How far worker w is in its operations of this phase.
InPiece(w) ==
  /\ Start(w, phase) <= idx[w] /\ idx[w] <= Limit(w, phase) /\ idx[w] <= applied[w]
  /\ wpc[w] \in {"none", "ready", "spin", "top", "op"} => applied[w] = idx[w]
  /\ wpc[w] \in {"op", "chk"} => idx[w] < Limit(w, phase)
  /\ wpc[w] = "chk" => applied[w] = idx[w] + 1
  /\ wpc[w] = "cnt" => idx[w] = Limit(w, phase) /\ applied[w] = idx[w]
  /\ wpc[w] = "done" /\ ~run_failed => idx[w] = Limit(w, phase) /\ applied[w] = idx[w]

\* Between two phases every worker has applied the pieces of the earlier ones.
Progress ==
  /\ mpc = "phase" =>
       \A w \in Threads : applied[w] = IF phase = 0 THEN 0 ELSE Limit(w, phase - 1)
  /\ InPhase => \A w \in Threads : InPiece(w)

\* After the stop: what worker w had finished then, by where it is now.
SinceStop(w, d, n) ==
  /\ wpc[w] = "top" /\ ~flag[w] => d = n - 1 \/ d = n
  /\ wpc[w] = "op" /\ ~flag[w] => d = n
  /\ wpc[w] = "chk" /\ ~flag[w] => d = n \/ d = n + 1
  /\ wpc[w] = "cnt" => d = n - 1 \/ d = n
  /\ flag[w] \/ (wpc[w] = "done" /\ ~run_failed) => op_cnt[w] = d \/ op_cnt[w] = d + 1

\* While the clock runs nobody has noticed a stop or is through.
Clock ==
  InPhase =>
    /\ mpc \in {"single", "spawn", "wait"} => \A w \in Threads : ~flag[w]
    /\ running => \A w \in Threads :
         ~flag[w] /\ wpc[w] # "cnt" /\ (wpc[w] = "done" => run_failed)
    /\ ~running => \A w \in Threads :
         SinceStop(w, doneAtStop[w], idx[w] - Start(w, phase))

\* The count of a worker that has taken it is a number of its operations.
Counted ==
  InPhase => \A w \in Threads :
    flag[w] \/ (wpc[w] = "done" /\ ~run_failed) =>
      op_cnt[w] \in 0..Limit(w, phase) - Start(w, phase)

\* The workers that have added themselves to ready_threads.
Waiting == {w \in Threads : wpc[w] \notin {"none", "ready"}}

ReadyCount ==
  /\ ready \in 0..NumThreads
  /\ InPhase => ready = Cardinality(Waiting)

\* Each worker has filled the slots of the operations it has finished.
Slots ==
  /\ ns \in [0..SlotCount - 1 -> (Nat \X Nat) \cup {Never}]
  /\ InPhase /\ ~Through =>
       \A w \in Threads : \A k \in 0..idx[w] - Start(w, phase) - 1 :
         ns[SlotBase(w, phase) + k] = <<rep, phase>>

\* The row holds the results of the repeats and phases so far.
Rows ==
  mpc # "start" =>
    /\ Len(results) = rep * NumPhases + (IF mpc \in {"build", "print"} THEN 0 ELSE phase)
    /\ \A k \in DOMAIN results : results[k] \in 0..ExeCnt((k - 1) % NumPhases)

IInv == Typed /\ Control /\ Progress /\ Clock /\ Counted /\ ReadyCount /\ Slots /\ Rows

-----------------------------------------------------------------------------
\* No step changes the workload.
LEMMA SameArgs == [Next]_vars => args' = args
BY DEF Next, Main, Worker, Exited, vars, mainVars, BeginRun, Build,
       StartPhase, CallSingle,
       Spawn, Release, StopClock, Join, Collect, EndRepeat, PrintResult, Ready, LeaveSpin,
       LoopHead, Execute, AfterOp, LoopEnd, CountAll

\* A worker in the loop: the main thread waits for it or joins, and every
\* worker is in its piece of the operations.
LEMMA InLoop ==
  ASSUME Typed, Control, Progress, NEW w \in Threads, wpc[w] \in {"top", "op", "chk", "cnt"}
  PROVE  /\ mpc \in {"run", "join"} /\ InPhase /\ phase \in 0..NumPhases - 1
         /\ \A u \in Threads :
              /\ InPiece(u) /\ idx[u] \in Nat /\ applied[u] \in Nat
              /\ Start(u, phase) \in Nat /\ Limit(u, phase) \in Nat
<1>1. mpc \in {"run", "join"}
  BY DEF Typed, Control
<1>2. InPhase
  BY <1>1 DEF InPhase
<1>3. phase < NumPhases /\ phase \in 0..NumPhases
  BY <1>2 DEF Typed, Control
<1>4. NumPhases \in Nat
  BY WorkloadFacts DEF Typed
<1>5. phase \in 0..NumPhases - 1
  BY <1>3, <1>4
<1>6. ASSUME NEW u \in Threads PROVE idx[u] \in Nat /\ applied[u] \in Nat
  BY DEF Typed
<1>7. ASSUME NEW u \in Threads PROVE Start(u, phase) \in Nat /\ Limit(u, phase) \in Nat
  BY <1>5, PhaseBounds DEF Typed
<1>8. \A u \in Threads : InPiece(u)
  BY <1>2 DEF Progress
<1> QED
  BY <1>1, <1>2, <1>5, <1>6, <1>7, <1>8

\* Every step keeps the main thread and the workers together.
LEMMA NextControl ==
  ASSUME Typed, Control, [Next]_vars
  PROVE  Control'
<1>0. /\ Threads' = Threads /\ NumThreads' = NumThreads /\ NumPhases' = NumPhases
      /\ NumRepeats' = NumRepeats /\ args' = args
      /\ \A w, i : Start(w, i)' = Start(w, i) /\ Limit(w, i)' = Limit(w, i)
  BY SameArgs, BoundsKept
<1>a. /\ NumThreads \in Nat \ {0} /\ Threads = 1..NumThreads /\ NumPhases \in Nat
      /\ NumRepeats \in Nat \ {0}
      /\ \A w \in Threads, i \in 0..NumPhases - 1 :
           /\ Start(w, i) \in Nat /\ Limit(w, i) \in Nat
           /\ Start(w, i) <= Limit(w, i) /\ Limit(w, i) <= Len(Ops[w])
           /\ i = 0 => Start(w, i) = 0
           /\ i > 0 => Start(w, i) = Limit(w, i - 1)
  BY WorkloadFacts, PhaseBounds DEF Typed, Threads
<1>1. CASE BeginRun
  BY <1>0, <1>a, <1>1
     DEF BeginRun, mainVars, shared, history, Typed, Control, InPhase
<1>2. CASE Build
  BY <1>0, <1>a, <1>2
     DEF Build, mainVars, shared, history, Typed, Control, InPhase
<1>3. CASE StartPhase
  BY <1>0, <1>a, <1>3
     DEF StartPhase, mainVars, shared, history, Typed, Control, InPhase
<1>4. CASE CallSingle
  BY <1>0, <1>a, <1>4
     DEF CallSingle, mainVars, shared, history, Typed, Control, InPhase
<1>5. CASE Spawn
  BY <1>0, <1>a, <1>5
     DEF Spawn, mainVars, shared, history, Typed, Control, InPhase
<1>6. CASE Release
  BY <1>0, <1>a, <1>6
     DEF Release, mainVars, shared, history, Typed, Control, InPhase
<1>7. CASE StopClock
  BY <1>0, <1>a, <1>7
     DEF StopClock, mainVars, shared, history, Typed, Control, InPhase
<1>8. CASE Join
  BY <1>0, <1>a, <1>8
     DEF Join, AllDone, mainVars, shared, history, Typed, Control, InPhase
<1>9. CASE Collect
  BY <1>0, <1>a, <1>9
     DEF Collect, mainVars, shared, history, Typed, Control, InPhase
<1>10. CASE EndRepeat
  BY <1>0, <1>a, <1>10
     DEF EndRepeat, MoreRepeats, mainVars, shared, history, Typed, Control,
         InPhase
<1>11. CASE PrintResult
  BY <1>0, <1>a, <1>11
     DEF PrintResult, mainVars, shared, history, Typed, Control, InPhase
<1>12. ASSUME NEW w \in Threads, Ready(w) PROVE Control'
  BY SMTT(30), <1>0, <1>a, <1>12
     DEF Ready, mainVars, shared, history, Typed, Control, InPhase
<1>13. ASSUME NEW w \in Threads, LeaveSpin(w) PROVE Control'
  BY <1>0, <1>a, <1>13
     DEF LeaveSpin, mainVars, shared, history, Typed, Control, InPhase
<1>14. ASSUME NEW w \in Threads, LoopHead(w) PROVE Control'
  BY <1>0, <1>a, <1>14
     DEF LoopHead, mainVars, shared, history, Typed, Control, InPhase
<1>15. ASSUME NEW w \in Threads, Execute(w) PROVE Control'
  BY <1>0, <1>a, <1>15
     DEF Execute, mainVars, shared, history, Typed, Control, InPhase
<1>16. ASSUME NEW w \in Threads, AfterOp(w) PROVE Control'
  BY <1>0, <1>a, <1>16
     DEF AfterOp, mainVars, shared, history, Typed, Control, InPhase
<1>17. ASSUME NEW w \in Threads, LoopEnd(w) PROVE Control'
  BY <1>0, <1>a, <1>17
     DEF LoopEnd, mainVars, shared, history, Typed, Control, InPhase
<1>18. ASSUME NEW w \in Threads, CountAll(w) PROVE Control'
  BY <1>0, <1>a, <1>18
     DEF CountAll, mainVars, shared, history, Typed, Control, InPhase
<1>19. CASE UNCHANGED vars
  BY <1>0, <1>a, <1>19
     DEF vars, mainVars, shared, history, Typed, Control, InPhase
<1> QED
  BY <1>1, <1>2, <1>3, <1>4, <1>5, <1>6, <1>7, <1>8, <1>9, <1>10, <1>11,
     <1>12, <1>13, <1>14, <1>15, <1>16, <1>17, <1>18, <1>19
     DEF Next, Main, Worker, Exited

\* What DoOps records of a phase is a number.
LEMMA ResultInt ==
  ASSUME Typed, phase \in 0..NumPhases - 1
  PROVE  PhaseResult \in Int
<1>1. /\ NumThreads \in Nat /\ Threads = 1..NumThreads /\ NumThreads \in 0..NumThreads
      /\ \A w \in Threads : Limit(w, phase) \in Nat /\ Start(w, phase) \in Nat
  BY WorkloadFacts, PhaseBounds, SMTT(30) DEF Typed, Threads
<1>2. op_cnt \in [1..NumThreads -> Int]
  BY <1>1 DEF Typed, Uninit
<1>4. Sizes(phase) \in [1..NumThreads -> Int]
  BY <1>1 DEF Sizes
<1>3. SumTo(op_cnt, NumThreads) \in Int /\ SumTo(Sizes(phase), NumThreads) \in Int
  BY <1>1, <1>2, <1>4, SumSteps
<1> QED
  BY <1>3 DEF PhaseResult, ExeCnt

\* Every step keeps the types.
LEMMA NextTyped ==
  ASSUME Typed, Control, Progress, [Next]_vars
  PROVE  Typed'
<1>0. /\ Threads' = Threads /\ NumThreads' = NumThreads /\ NumPhases' = NumPhases
      /\ NumRepeats' = NumRepeats /\ args' = args
      /\ \A w, i : Start(w, i)' = Start(w, i) /\ Limit(w, i)' = Limit(w, i)
  BY SameArgs, BoundsKept
<1>a. /\ NumThreads \in Nat \ {0} /\ Threads = 1..NumThreads /\ NumPhases \in Nat
      /\ NumRepeats \in Nat \ {0}
      /\ \A w \in Threads, i \in 0..NumPhases - 1 :
           /\ Start(w, i) \in Nat /\ Limit(w, i) \in Nat
           /\ Start(w, i) <= Limit(w, i) /\ Limit(w, i) <= Len(Ops[w])
           /\ i = 0 => Start(w, i) = 0
           /\ i > 0 => Start(w, i) = Limit(w, i - 1)
  BY WorkloadFacts, PhaseBounds DEF Typed, Threads
<1>1. CASE BeginRun
  <2>1. run' \in 0..NumRuns
    BY <1>1, DriverAssumption DEF BeginRun, Typed
  <2>2. results' \in Seq(Int)
    <3>1. results \in Seq(Int) /\ <<>> \in Seq(Int)
      BY DEF Typed
    <3> QED
      BY <1>1, <3>1 DEF BeginRun
  <2>3. rep' \in 0..NumRepeats
    BY <1>a, <1>1 DEF BeginRun, Typed
  <2>4. run_failed' \in BOOLEAN
    BY <1>1 DEF BeginRun, Typed
  <2> QED
    BY <1>0, <1>1, <2>1, <2>2, <2>3, <2>4 DEF BeginRun, history, Typed
<1>2. CASE Build
  BY <1>0, <1>a, <1>2
     DEF Build, mainVars, shared, history, Typed, Control, InPhase, Uninit
<1>3. CASE StartPhase
  <2>1. phase \in 0..NumPhases - 1
    BY <1>a, <1>3 DEF StartPhase, Typed
  <2>2. \A w \in Threads : Start(w, phase) \in Nat
    BY <1>a, <2>1
  <2>3. idx' \in [Threads -> Nat] /\ op_cnt' \in [Threads -> Nat \cup {Uninit}]
    BY <1>0, <1>3, <2>2 DEF StartPhase
  <2>4. flag' \in [Threads -> BOOLEAN]
    BY <1>0, <1>3 DEF StartPhase
  <2> QED
    BY <1>0, <1>a, <1>3, <2>3, <2>4 DEF StartPhase, history, Typed
<1>4. CASE CallSingle
  BY <1>0, <1>a, <1>4
     DEF CallSingle, mainVars, shared, history, Typed, Control, InPhase,
         Uninit
<1>5. CASE Spawn
  BY <1>0, <1>a, <1>5
     DEF Spawn, mainVars, shared, history, Typed, Control, InPhase, Uninit
<1>6. CASE Release
  BY <1>0, <1>a, <1>6
     DEF Release, mainVars, shared, history, Typed, Control, InPhase, Uninit
<1>7. CASE StopClock
  BY <1>0, <1>a, <1>7
     DEF StopClock, mainVars, shared, history, Typed, Control, InPhase, Uninit
<1>8. CASE Join
  BY <1>0, <1>a, <1>8
     DEF Join, AllDone, mainVars, shared, history, Typed, Control, InPhase,
         Uninit
<1>9. CASE Collect
  <2>1. phase \in 0..NumPhases - 1
    BY <1>a, <1>9 DEF Collect, Typed, Control, InPhase
  <2>2. PhaseResult \in Int
    BY <2>1, ResultInt
  <2>3. results' \in Seq(Int)
    <3>1. results \in Seq(Int) /\ Append(results, PhaseResult) \in Seq(Int)
      BY <2>2 DEF Typed
    <3> QED
      BY <1>9, <3>1 DEF Collect
  <2>4. phase' \in 0..NumPhases
    BY <1>a, <1>9, <2>1 DEF Collect
  <2> QED
    BY <1>0, <1>9, <2>3, <2>4 DEF Collect, shared, history, Typed
<1>10. CASE EndRepeat
  BY <1>0, <1>a, <1>10
     DEF EndRepeat, MoreRepeats, mainVars, shared, history, Typed, Control,
         InPhase, Uninit
<1>11. CASE PrintResult
  BY <1>0, <1>a, <1>11
     DEF PrintResult, mainVars, shared, history, Typed, Control, InPhase,
         Uninit
<1>12. ASSUME NEW w \in Threads, Ready(w) PROVE Typed'
  BY <1>0, <1>a, <1>12
     DEF Ready, mainVars, shared, history, Typed, Control, InPhase, Uninit
<1>13. ASSUME NEW w \in Threads, LeaveSpin(w) PROVE Typed'
  BY <1>0, <1>a, <1>13
     DEF LeaveSpin, mainVars, shared, history, Typed, Control, InPhase, Uninit
<1>14. ASSUME NEW w \in Threads, LoopHead(w) PROVE Typed'
  <2>1. InPiece(w) /\ idx[w] \in Nat /\ Start(w, phase) \in Nat
    BY <1>14, InLoop DEF LoopHead
  <2>2. idx[w] - Start(w, phase) \in Nat
    BY <2>1 DEF InPiece
  <2>3. (flag[w] \/ NoticesStop(w)) \in BOOLEAN
    OBVIOUS
  <2>4. flag' \in [Threads -> BOOLEAN]
    BY <1>0, <1>14, <2>3 DEF LoopHead, Typed
  <2>5. op_cnt' \in [Threads -> Nat \cup {Uninit}]
    BY <1>0, <1>14, <2>2 DEF LoopHead, Typed
  <2> QED
    BY <1>0, <1>14, <2>4, <2>5 DEF LoopHead, mainVars, shared, history, Typed
<1>15. ASSUME NEW w \in Threads, Execute(w) PROVE Typed'
  <2>1. run_failed' \in BOOLEAN
    BY <1>15 DEF Execute, Typed
  <2> QED
    BY <1>0, <1>15, <2>1 DEF Execute, mainVars, Typed
<1>16. ASSUME NEW w \in Threads, AfterOp(w) PROVE Typed'
  <2>0. idx \in [Threads -> Nat] /\ idx[w] + 1 \in Nat
    BY DEF Typed
  <2>1. idx' \in [Threads' -> Nat]
    BY <1>0, <1>16, <2>0 DEF AfterOp
  <2>2. wpc' \in [Threads -> {"none", "ready", "spin", "top", "op", "chk", "cnt", "done"}]
    BY <1>0, <1>16 DEF AfterOp, Typed
  <2> QED
    BY <1>0, <1>16, <2>1, <2>2 DEF AfterOp, mainVars, shared, history, Typed
<1>17. ASSUME NEW w \in Threads, LoopEnd(w) PROVE Typed'
  <2>1. \A u \in Threads : /\ InPiece(u) /\ idx[u] \in Nat /\ applied[u] \in Nat
                           /\ Start(u, phase) \in Nat
    BY <1>17, InLoop DEF LoopEnd
  <2>2. \A u \in Threads : applied[u] - Start(u, phase) \in Nat
    BY <2>1 DEF InPiece
  <2>3. doneAtStop' \in [Threads -> Nat]
    BY <1>0, <1>17, <2>2 DEF LoopEnd, Typed
  <2>4. wpc' \in [Threads -> {"none", "ready", "spin", "top", "op", "chk", "cnt", "done"}]
    BY <1>0, <1>17 DEF LoopEnd, Typed
  <2>5. running' \in BOOLEAN
    BY <1>17 DEF LoopEnd, Typed
  <2> QED
    BY <1>0, <1>17, <2>3, <2>4, <2>5 DEF LoopEnd, mainVars, Typed
<1>18. ASSUME NEW w \in Threads, CountAll(w) PROVE Typed'
  <2>1. phase \in 0..NumPhases - 1
    BY <1>18, InLoop DEF CountAll
  <2>2. Limit(w, phase) - Start(w, phase) \in Nat
    BY <1>a, <2>1
  <2> QED
    BY <1>0, <1>18, <2>2 DEF CountAll, mainVars, shared, history, Typed
<1>19. CASE UNCHANGED vars
  BY <1>0, <1>a, <1>19
     DEF vars, mainVars, shared, history, Typed, Control, InPhase, Uninit
<1> QED
  BY <1>1, <1>2, <1>3, <1>4, <1>5, <1>6, <1>7, <1>8, <1>9, <1>10, <1>11,
     <1>12, <1>13, <1>14, <1>15, <1>16, <1>17, <1>18, <1>19
     DEF Next, Main, Worker, Exited


\* Every step keeps the workers in their pieces, and the pieces in order.
LEMMA NextProgress ==
  ASSUME Typed, Control, Progress, [Next]_vars
  PROVE  Progress'
<1>0. /\ Threads' = Threads /\ NumThreads' = NumThreads /\ NumPhases' = NumPhases
      /\ NumRepeats' = NumRepeats /\ args' = args
      /\ \A w, i : Start(w, i)' = Start(w, i) /\ Limit(w, i)' = Limit(w, i)
  BY SameArgs, BoundsKept
<1>a. /\ NumThreads \in Nat \ {0} /\ Threads = 1..NumThreads /\ NumPhases \in Nat
      /\ NumRepeats \in Nat \ {0}
      /\ \A w \in Threads, i \in 0..NumPhases - 1 :
           /\ Start(w, i) \in Nat /\ Limit(w, i) \in Nat
           /\ Start(w, i) <= Limit(w, i) /\ Limit(w, i) <= Len(Ops[w])
           /\ i = 0 => Start(w, i) = 0
           /\ i > 0 => Start(w, i) = Limit(w, i - 1)
  BY WorkloadFacts, PhaseBounds DEF Typed, Threads
<1>1. CASE BeginRun
  BY <1>0, <1>a, <1>1
     DEF BeginRun, mainVars, shared, history, Typed, Control, InPhase,
         Progress, InPiece
<1>2. CASE Build
  BY <1>0, <1>2 DEF Build, Progress, InPhase
<1>3. CASE StartPhase
  <2>1. phase \in 0..NumPhases - 1 /\ phase' = phase
    BY <1>a, <1>3 DEF StartPhase, Typed
  <2>2. ASSUME NEW w \in Threads PROVE InPiece(w)'
    <3>1. applied[w] = IF phase = 0 THEN 0 ELSE Limit(w, phase - 1)
      BY <1>3 DEF StartPhase, Progress
    <3>2. /\ Start(w, phase) \in Nat /\ Limit(w, phase) \in Nat
          /\ Start(w, phase) <= Limit(w, phase)
          /\ Start(w, phase) = IF phase = 0 THEN 0 ELSE Limit(w, phase - 1)
      BY <1>a, <2>1
    <3>3. idx'[w] = Start(w, phase) /\ wpc'[w] = "none" /\ applied' = applied
      BY <1>3 DEF StartPhase, history
    <3> QED
      BY <1>0, <2>1, <3>1, <3>2, <3>3 DEF InPiece
  <2> QED
    BY <1>0, <1>3, <2>2 DEF StartPhase, Progress
<1>4. CASE CallSingle
  <2>1. InPhase /\ mpc' # "phase"
    BY <1>4 DEF CallSingle, InPhase
  <2>2. ASSUME NEW w \in Threads PROVE InPiece(w)'
    <3>1. InPiece(w)
      BY <2>1 DEF Progress
    <3> QED
      BY <1>0, <1>4, <3>1
         DEF CallSingle, shared, history, InPiece, Control, Typed
  <2> QED
    BY <1>0, <2>1, <2>2 DEF Progress
<1>5. CASE Spawn
  <2>1. InPhase /\ mpc' # "phase"
    BY <1>5 DEF Spawn, InPhase
  <2>2. ASSUME NEW w \in Threads PROVE InPiece(w)'
    <3>1. InPiece(w)
      BY <2>1 DEF Progress
    <3> QED
      BY <1>0, <1>5, <3>1 DEF Spawn, shared, history, InPiece, Control, Typed
  <2> QED
    BY <1>0, <2>1, <2>2 DEF Progress
<1>6. CASE Release
  <2>1. InPhase /\ mpc' # "phase"
    BY <1>6 DEF Release, InPhase
  <2>2. ASSUME NEW w \in Threads PROVE InPiece(w)'
    <3>1. InPiece(w)
      BY <2>1 DEF Progress
    <3> QED
      BY <1>0, <1>6, <3>1 DEF Release, shared, history, InPiece
  <2> QED
    BY <1>0, <2>1, <2>2 DEF Progress
<1>7. CASE StopClock
  <2>1. InPhase /\ mpc' # "phase"
    BY <1>7 DEF StopClock, InPhase
  <2>2. ASSUME NEW w \in Threads PROVE InPiece(w)'
    <3>1. InPiece(w)
      BY <2>1 DEF Progress
    <3> QED
      BY <1>0, <1>7, <3>1 DEF StopClock, shared, history, InPiece
  <2> QED
    BY <1>0, <2>1, <2>2 DEF Progress
<1>8. CASE Join
  <2>1. InPhase /\ mpc' # "phase"
    BY <1>8 DEF Join, InPhase
  <2>2. ASSUME NEW w \in Threads PROVE InPiece(w)'
    <3>1. InPiece(w)
      BY <2>1 DEF Progress
    <3> QED
      BY <1>0, <1>8, <3>1 DEF Join, shared, history, InPiece
  <2> QED
    BY <1>0, <2>1, <2>2 DEF Progress
<1>9. CASE Collect
  <2>1. InPhase /\ phase \in 0..NumPhases - 1
    BY <1>a, <1>9 DEF Collect, InPhase, Control, Typed
  <2>2. mpc' \in {"start", "phase"}
    BY <1>9 DEF Collect
  <2>3. ASSUME mpc' = "phase", NEW w \in Threads
        PROVE  applied'[w] = IF phase' = 0 THEN 0 ELSE Limit(w, phase' - 1)
    <3>1. ~run_failed /\ phase' = phase + 1 /\ applied' = applied
      BY <1>9, <2>3 DEF Collect, history
    <3>2. wpc[w] = "done" /\ InPiece(w)
      BY <1>9, <2>1 DEF Collect, Control, Progress
    <3>3. applied[w] = Limit(w, phase)
      BY <3>1, <3>2 DEF InPiece
    <3>4. phase' - 1 = phase /\ phase' # 0
      BY <2>1, <3>1
    <3> QED
      BY <3>1, <3>3, <3>4
  <2> QED
    BY <1>0, <2>2, <2>3 DEF Progress, InPhase
<1>10. CASE EndRepeat
  BY <1>0, <1>a, <1>10
     DEF EndRepeat, MoreRepeats, mainVars, shared, history, Typed, Control,
         InPhase, Progress, InPiece
<1>11. CASE PrintResult
  BY <1>0, <1>a, <1>11
     DEF PrintResult, mainVars, shared, history, Typed, Control, InPhase,
         Progress, InPiece
<1>12. ASSUME NEW w \in Threads, Ready(w) PROVE Progress'
  <2>1. InPhase /\ \A u \in Threads : InPiece(u)
    BY <1>12 DEF Ready, InPhase, Control, Typed, Progress
  <2>2. ASSUME NEW u \in Threads PROVE InPiece(u)'
    <3>1. InPiece(u)
      BY <2>1
    <3> QED
      BY <1>0, <1>12, <3>1
         DEF Ready, mainVars, shared, history, InPiece, Typed
  <2>3. mpc' = mpc
    BY <1>12 DEF Ready, mainVars
  <2> QED
    BY <1>0, <2>1, <2>2, <2>3 DEF Progress, InPhase
<1>13. ASSUME NEW w \in Threads, LeaveSpin(w) PROVE Progress'
  <2>1. InPhase /\ \A u \in Threads : InPiece(u)
    BY <1>13 DEF LeaveSpin, InPhase, Control, Typed, Progress
  <2>2. ASSUME NEW u \in Threads PROVE InPiece(u)'
    <3>1. InPiece(u)
      BY <2>1
    <3> QED
      BY <1>0, <1>13, <3>1
         DEF LeaveSpin, mainVars, shared, history, InPiece, Typed
  <2>3. mpc' = mpc
    BY <1>13 DEF LeaveSpin, mainVars
  <2> QED
    BY <1>0, <2>1, <2>2, <2>3 DEF Progress, InPhase
<1>14. ASSUME NEW w \in Threads, LoopHead(w) PROVE Progress'
  <2>1. /\ InPhase /\ wpc[w] \in {"top", "op", "chk", "cnt"}
        /\ \A u \in Threads : /\ InPiece(u) /\ idx[u] \in Nat /\ applied[u] \in Nat
                              /\ Start(u, phase) \in Nat /\ Limit(u, phase) \in Nat
    BY <1>14, InLoop DEF LoopHead
  <2>2. ASSUME NEW u \in Threads PROVE InPiece(u)'
    <3>1. /\ InPiece(u) /\ idx[u] \in Nat /\ applied[u] \in Nat
          /\ Start(u, phase) \in Nat /\ Limit(u, phase) \in Nat
      BY <2>1
    <3>2. /\ Start(u, phase)' = Start(u, phase) /\ Limit(u, phase)' = Limit(u, phase)
          /\ phase' = phase
      BY <1>0, <1>14 DEF LoopHead, mainVars
    <3> QED
      BY <1>14, <3>1, <3>2
         DEF LoopHead, mainVars, shared, history, InPiece, Typed
  <2>3. mpc' = mpc
    BY <1>14 DEF LoopHead, mainVars
  <2> QED
    BY <1>0, <2>1, <2>2, <2>3 DEF Progress, InPhase
<1>15. ASSUME NEW w \in Threads, Execute(w) PROVE Progress'
  <2>1. /\ InPhase /\ wpc[w] \in {"top", "op", "chk", "cnt"}
        /\ \A u \in Threads : /\ InPiece(u) /\ idx[u] \in Nat /\ applied[u] \in Nat
                              /\ Start(u, phase) \in Nat /\ Limit(u, phase) \in Nat
    BY <1>15, InLoop DEF Execute
  <2>2. ASSUME NEW u \in Threads PROVE InPiece(u)'
    <3>1. /\ InPiece(u) /\ idx[u] \in Nat /\ applied[u] \in Nat
          /\ Start(u, phase) \in Nat /\ Limit(u, phase) \in Nat
      BY <2>1
    <3>2. /\ Start(u, phase)' = Start(u, phase) /\ Limit(u, phase)' = Limit(u, phase)
          /\ phase' = phase
      BY <1>0, <1>15 DEF Execute, mainVars
    <3> QED
      BY <1>15, <3>1, <3>2
         DEF Execute, mainVars, shared, history, InPiece, Typed
  <2>3. mpc' = mpc
    BY <1>15 DEF Execute, mainVars
  <2> QED
    BY <1>0, <2>1, <2>2, <2>3 DEF Progress, InPhase
<1>16. ASSUME NEW w \in Threads, AfterOp(w) PROVE Progress'
  <2>1. /\ InPhase /\ wpc[w] \in {"top", "op", "chk", "cnt"}
        /\ \A u \in Threads : /\ InPiece(u) /\ idx[u] \in Nat /\ applied[u] \in Nat
                              /\ Start(u, phase) \in Nat /\ Limit(u, phase) \in Nat
    BY <1>16, InLoop DEF AfterOp
  <2>2. ASSUME NEW u \in Threads PROVE InPiece(u)'
    <3>1. /\ InPiece(u) /\ idx[u] \in Nat /\ applied[u] \in Nat
          /\ Start(u, phase) \in Nat /\ Limit(u, phase) \in Nat
      BY <2>1
    <3>2. /\ Start(u, phase)' = Start(u, phase) /\ Limit(u, phase)' = Limit(u, phase)
          /\ phase' = phase
      BY <1>0, <1>16 DEF AfterOp, mainVars
    <3> QED
      BY <1>16, <3>1, <3>2
         DEF AfterOp, mainVars, shared, history, InPiece, Typed
  <2>3. mpc' = mpc
    BY <1>16 DEF AfterOp, mainVars
  <2> QED
    BY <1>0, <2>1, <2>2, <2>3 DEF Progress, InPhase
<1>17. ASSUME NEW w \in Threads, LoopEnd(w) PROVE Progress'
  <2>1. /\ InPhase /\ wpc[w] \in {"top", "op", "chk", "cnt"}
        /\ \A u \in Threads : /\ InPiece(u) /\ idx[u] \in Nat /\ applied[u] \in Nat
                              /\ Start(u, phase) \in Nat /\ Limit(u, phase) \in Nat
    BY <1>17, InLoop DEF LoopEnd
  <2>2. ASSUME NEW u \in Threads PROVE InPiece(u)'
    <3>1. /\ InPiece(u) /\ idx[u] \in Nat /\ applied[u] \in Nat
          /\ Start(u, phase) \in Nat /\ Limit(u, phase) \in Nat
      BY <2>1
    <3>2. /\ Start(u, phase)' = Start(u, phase) /\ Limit(u, phase)' = Limit(u, phase)
          /\ phase' = phase
      BY <1>0, <1>17 DEF LoopEnd, mainVars
    <3> QED
      BY <1>17, <3>1, <3>2
         DEF LoopEnd, mainVars, shared, history, InPiece, Typed
  <2>3. mpc' = mpc
    BY <1>17 DEF LoopEnd, mainVars
  <2> QED
    BY <1>0, <2>1, <2>2, <2>3 DEF Progress, InPhase
<1>18. ASSUME NEW w \in Threads, CountAll(w) PROVE Progress'
  <2>1. /\ InPhase /\ wpc[w] \in {"top", "op", "chk", "cnt"}
        /\ \A u \in Threads : /\ InPiece(u) /\ idx[u] \in Nat /\ applied[u] \in Nat
                              /\ Start(u, phase) \in Nat /\ Limit(u, phase) \in Nat
    BY <1>18, InLoop DEF CountAll
  <2>2. ASSUME NEW u \in Threads PROVE InPiece(u)'
    <3>1. /\ InPiece(u) /\ idx[u] \in Nat /\ applied[u] \in Nat
          /\ Start(u, phase) \in Nat /\ Limit(u, phase) \in Nat
      BY <2>1
    <3>2. /\ Start(u, phase)' = Start(u, phase) /\ Limit(u, phase)' = Limit(u, phase)
          /\ phase' = phase
      BY <1>0, <1>18 DEF CountAll, mainVars
    <3> QED
      BY <1>18, <3>1, <3>2
         DEF CountAll, mainVars, shared, history, InPiece, Typed
  <2>3. mpc' = mpc
    BY <1>18 DEF CountAll, mainVars
  <2> QED
    BY <1>0, <2>1, <2>2, <2>3 DEF Progress, InPhase
<1>19. CASE UNCHANGED vars
  BY ZenonT(40), <1>0, <1>a, <1>19
     DEF vars, mainVars, shared, history, Typed, Control, InPhase, Progress,
         InPiece
<1> QED
  BY <1>1, <1>2, <1>3, <1>4, <1>5, <1>6, <1>7, <1>8, <1>9, <1>10, <1>11,
     <1>12, <1>13, <1>14, <1>15, <1>16, <1>17, <1>18, <1>19
     DEF Next, Main, Worker, Exited


\* Every step keeps what is known of the clock and of the workers that have
\* not noticed its stop.
LEMMA NextClock ==
  ASSUME Typed, Control, Progress, Clock, [Next]_vars
  PROVE  Clock'
<1>0. /\ Threads' = Threads /\ NumThreads' = NumThreads /\ NumPhases' = NumPhases
      /\ NumRepeats' = NumRepeats /\ args' = args
      /\ \A w, i : Start(w, i)' = Start(w, i) /\ Limit(w, i)' = Limit(w, i)
  BY SameArgs, BoundsKept
<1>a. /\ NumThreads \in Nat \ {0} /\ Threads = 1..NumThreads /\ NumPhases \in Nat
      /\ NumRepeats \in Nat \ {0}
      /\ \A w \in Threads, i \in 0..NumPhases - 1 :
           /\ Start(w, i) \in Nat /\ Limit(w, i) \in Nat
           /\ Start(w, i) <= Limit(w, i) /\ Limit(w, i) <= Len(Ops[w])
           /\ i = 0 => Start(w, i) = 0
           /\ i > 0 => Start(w, i) = Limit(w, i - 1)
  BY WorkloadFacts, PhaseBounds DEF Typed, Threads
<1>1. CASE BeginRun
  BY <1>1 DEF BeginRun, Clock, InPhase
<1>2. CASE Build
  BY <1>2 DEF Build, Clock, InPhase
<1>3. CASE StartPhase
  <2>1. \A w \in Threads : ~flag'[w] /\ wpc'[w] = "none"
    BY <1>3 DEF StartPhase
  <2>2. \A w \in Threads : SinceStop(w, doneAtStop[w], idx[w] - Start(w, phase))'
    BY <1>0, <2>1 DEF SinceStop
  <2>3. ~running'
    BY <1>3 DEF StartPhase
  <2> QED
    BY <1>0, <2>1, <2>2, <2>3 DEF Clock
<1>4. CASE CallSingle
  <2>1. \A w \in Threads : ~flag'[w] /\ wpc'[w] \in {"none", "ready"}
    BY <1>4 DEF CallSingle, Control, Clock, InPhase, Typed
  <2>2. running' /\ mpc' = "join"
    BY <1>4 DEF CallSingle
  <2> QED
    BY <1>0, <2>1, <2>2 DEF Clock
<1>5. CASE Spawn
  <2>1. \A w \in Threads : ~flag'[w] /\ wpc'[w] \in {"none", "ready", "spin"}
    BY <1>5 DEF Spawn, Control, Clock, InPhase, Typed
  <2>2. \A w \in Threads : SinceStop(w, doneAtStop[w], idx[w] - Start(w, phase))'
    BY <1>0, <2>1 DEF SinceStop
  <2>3. ~running'
    BY <1>5 DEF Spawn, shared, Control
  <2> QED
    BY <1>0, <2>1, <2>2, <2>3 DEF Clock
<1>6. CASE Release
  <2>1. \A w \in Threads : ~flag'[w] /\ wpc'[w] \in {"none", "ready", "spin"}
    BY <1>6 DEF Release, Control, Clock, InPhase
  <2>2. running' /\ mpc' = "run"
    BY <1>6 DEF Release
  <2> QED
    BY <1>0, <2>1, <2>2 DEF Clock
<1>7. CASE StopClock
  <2>1. InPhase /\ mpc' \notin {"single", "spawn", "wait"}
    BY <1>7 DEF StopClock, InPhase
  <2>2. UNCHANGED <<running, run_failed, wpc, idx, flag, op_cnt, doneAtStop, phase>>
    BY <1>7 DEF StopClock, shared, history
  <2> QED
    BY <1>0, <2>1, <2>2 DEF Clock, SinceStop
<1>8. CASE Join
  <2>1. InPhase /\ mpc' \notin {"single", "spawn", "wait"}
    BY <1>8 DEF Join, InPhase
  <2>2. UNCHANGED <<running, run_failed, wpc, idx, flag, op_cnt, doneAtStop, phase>>
    BY <1>8 DEF Join, shared, history
  <2> QED
    BY <1>0, <2>1, <2>2 DEF Clock, SinceStop
<1>9. CASE Collect
  BY <1>9 DEF Collect, Clock, InPhase
<1>10. CASE EndRepeat
  BY <1>10 DEF EndRepeat, MoreRepeats, Clock, InPhase
<1>11. CASE PrintResult
  BY <1>11 DEF PrintResult, Clock, InPhase
<1>12. ASSUME NEW w \in Threads, Ready(w) PROVE Clock'
  <2>1. InPhase
    BY <1>12 DEF Ready, InPhase, Control, Typed
  <2>2. /\ running => \A u \in Threads :
              ~flag[u] /\ wpc[u] # "cnt" /\ (wpc[u] = "done" => run_failed)
        /\ ~running => \A u \in Threads :
              SinceStop(u, doneAtStop[u], idx[u] - Start(u, phase))
    BY <2>1 DEF Clock
  <2>3. /\ mpc' = mpc /\ phase' = phase
        /\ \A u \in Threads : Start(u, phase)' = Start(u, phase)
    BY <1>0, <1>12 DEF Ready, mainVars
  <2>4. ASSUME running', NEW u \in Threads
        PROVE  ~flag'[u] /\ wpc'[u] # "cnt" /\ (wpc'[u] = "done" => run_failed')
    BY <1>12, <2>2, <2>4 DEF Ready, mainVars, shared, history, Typed
  <2>5. ASSUME ~running', NEW u \in Threads
        PROVE  SinceStop(u, doneAtStop[u], idx[u] - Start(u, phase))'
    <3>1. SinceStop(u, doneAtStop[u], idx[u] - Start(u, phase)) /\ ~running
      BY <1>12, <2>2, <2>5 DEF Ready, shared
    <3> QED
      BY <1>12, <2>3, <3>1 DEF Ready, shared, history, SinceStop, Typed
  <2>6. flag' = flag
    BY <1>12 DEF Ready
  <2> QED
    BY <1>0, <2>1, <2>3, <2>4, <2>5, <2>6 DEF Clock
<1>13. ASSUME NEW w \in Threads, LeaveSpin(w) PROVE Clock'
  <2>1. InPhase
    BY <1>13 DEF LeaveSpin, InPhase, Control, Typed
  <2>2. /\ running => \A u \in Threads :
              ~flag[u] /\ wpc[u] # "cnt" /\ (wpc[u] = "done" => run_failed)
        /\ ~running => \A u \in Threads :
              SinceStop(u, doneAtStop[u], idx[u] - Start(u, phase))
    BY <2>1 DEF Clock
  <2>3. /\ mpc' = mpc /\ phase' = phase
        /\ \A u \in Threads : Start(u, phase)' = Start(u, phase)
    BY <1>0, <1>13 DEF LeaveSpin, mainVars
  <2>4. ASSUME running', NEW u \in Threads
        PROVE  ~flag'[u] /\ wpc'[u] # "cnt" /\ (wpc'[u] = "done" => run_failed')
    BY <1>13, <2>2, <2>4 DEF LeaveSpin, mainVars, shared, history, Typed
  <2>5. ASSUME ~running', NEW u \in Threads
        PROVE  SinceStop(u, doneAtStop[u], idx[u] - Start(u, phase))'
    <3>1. SinceStop(u, doneAtStop[u], idx[u] - Start(u, phase)) /\ ~running
      BY <1>13, <2>2, <2>5 DEF LeaveSpin, shared
    <3> QED
      BY <1>13, <2>3, <3>1 DEF LeaveSpin, shared, history, SinceStop, Typed
  <2>6. flag' = flag
    BY <1>13 DEF LeaveSpin
  <2> QED
    BY <1>0, <2>1, <2>3, <2>4, <2>5, <2>6 DEF Clock
<1>14. ASSUME NEW w \in Threads, LoopHead(w) PROVE Clock'
  <2>1. /\ InPhase /\ mpc \in {"run", "join"}
        /\ \A u \in Threads : /\ InPiece(u) /\ idx[u] \in Nat /\ applied[u] \in Nat
                              /\ Start(u, phase) \in Nat /\ Limit(u, phase) \in Nat
    BY <1>14, InLoop DEF LoopHead
  <2>2. /\ running => \A u \in Threads :
              ~flag[u] /\ wpc[u] # "cnt" /\ (wpc[u] = "done" => run_failed)
        /\ ~running => \A u \in Threads :
              SinceStop(u, doneAtStop[u], idx[u] - Start(u, phase))
    BY <2>1 DEF Clock
  <2>3. /\ mpc' = mpc /\ phase' = phase
        /\ \A u \in Threads : Start(u, phase)' = Start(u, phase)
    BY <1>0, <1>14 DEF LoopHead, mainVars
  <2>4. ASSUME running', NEW u \in Threads
        PROVE  ~flag'[u] /\ wpc'[u] # "cnt" /\ (wpc'[u] = "done" => run_failed')
    BY <1>14, <2>2, <2>4
       DEF LoopHead, NoticesStop, mainVars, shared, history, Typed
  <2>5. ASSUME ~running', NEW u \in Threads
        PROVE  SinceStop(u, doneAtStop[u], idx[u] - Start(u, phase))'
    <3>1. /\ InPiece(u) /\ idx[u] \in Nat /\ Start(u, phase) \in Nat /\ doneAtStop[u] \in Nat
      BY <2>1 DEF Typed
    <3>2. SinceStop(u, doneAtStop[u], idx[u] - Start(u, phase)) /\ ~running
      BY <1>14, <2>2, <2>5 DEF LoopHead, shared
    <3>3. doneAtStop'[u] = doneAtStop[u] /\ run_failed' = run_failed
      BY <1>14 DEF LoopHead, history, shared
    <3>4. CASE u # w
      <4>1. /\ wpc'[u] = wpc[u] /\ flag'[u] = flag[u] /\ op_cnt'[u] = op_cnt[u]
            /\ idx'[u] = idx[u]
        BY <1>14, <3>4 DEF LoopHead, Typed
      <4> QED
        BY <2>3, <3>2, <3>3, <4>1 DEF SinceStop
    <3>5. CASE u = w
      <4>1. wpc[u] = "top" /\ wpc'[u] = "op" /\ idx'[u] = idx[u]
        BY <1>14, <3>5 DEF LoopHead, Typed
      <4>2. op_cnt'[u] = IF ~flag[u] THEN idx[u] - Start(u, phase) ELSE op_cnt[u]
        BY <1>14, <3>2, <3>5 DEF LoopHead, NoticesStop, Typed
      <4>3. flag'[u]
        BY <1>14, <3>2, <3>5 DEF LoopHead, NoticesStop, Typed
      <4> QED
        BY <2>3, <3>1, <3>2, <3>3, <4>1, <4>2, <4>3 DEF SinceStop
    <3> QED
      BY <3>4, <3>5
  <2> QED
    BY <1>0, <2>1, <2>3, <2>4, <2>5 DEF Clock
<1>15. ASSUME NEW w \in Threads, Execute(w) PROVE Clock'
  <2>1. /\ InPhase /\ mpc \in {"run", "join"}
        /\ \A u \in Threads : /\ InPiece(u) /\ idx[u] \in Nat /\ applied[u] \in Nat
                              /\ Start(u, phase) \in Nat /\ Limit(u, phase) \in Nat
    BY <1>15, InLoop DEF Execute
  <2>2. /\ running => \A u \in Threads :
              ~flag[u] /\ wpc[u] # "cnt" /\ (wpc[u] = "done" => run_failed)
        /\ ~running => \A u \in Threads :
              SinceStop(u, doneAtStop[u], idx[u] - Start(u, phase))
    BY <2>1 DEF Clock
  <2>3. /\ mpc' = mpc /\ phase' = phase
        /\ \A u \in Threads : Start(u, phase)' = Start(u, phase)
    BY <1>0, <1>15 DEF Execute, mainVars
  <2>4. ASSUME running', NEW u \in Threads
        PROVE  ~flag'[u] /\ wpc'[u] # "cnt" /\ (wpc'[u] = "done" => run_failed')
    BY <1>15, <2>2, <2>4 DEF Execute, mainVars, shared, history, Typed
  <2>5. ASSUME ~running', NEW u \in Threads
        PROVE  SinceStop(u, doneAtStop[u], idx[u] - Start(u, phase))'
    <3>1. /\ InPiece(u) /\ idx[u] \in Nat /\ applied[u] \in Nat
          /\ Start(u, phase) \in Nat /\ Limit(u, phase) \in Nat
      BY <2>1
    <3>2. SinceStop(u, doneAtStop[u], idx[u] - Start(u, phase)) /\ ~running
      BY <1>15, <2>2, <2>5 DEF Execute, shared
    <3>3. doneAtStop[u] \in Nat
      BY DEF Typed
    <3> QED
      BY <1>15, <2>3, <3>1, <3>2, <3>3
         DEF Execute, mainVars, shared, history, SinceStop, InPiece, Typed
  <2> QED
    BY <1>0, <2>1, <2>3, <2>4, <2>5 DEF Clock
<1>16. ASSUME NEW w \in Threads, AfterOp(w) PROVE Clock'
  <2>1. /\ InPhase /\ mpc \in {"run", "join"}
        /\ \A u \in Threads : /\ InPiece(u) /\ idx[u] \in Nat /\ applied[u] \in Nat
                              /\ Start(u, phase) \in Nat /\ Limit(u, phase) \in Nat
    BY <1>16, InLoop DEF AfterOp
  <2>2. /\ running => \A u \in Threads :
              ~flag[u] /\ wpc[u] # "cnt" /\ (wpc[u] = "done" => run_failed)
        /\ ~running => \A u \in Threads :
              SinceStop(u, doneAtStop[u], idx[u] - Start(u, phase))
    BY <2>1 DEF Clock
  <2>3. /\ mpc' = mpc /\ phase' = phase
        /\ \A u \in Threads : Start(u, phase)' = Start(u, phase)
    BY <1>0, <1>16 DEF AfterOp, mainVars
  <2>4. ASSUME running', NEW u \in Threads
        PROVE  ~flag'[u] /\ wpc'[u] # "cnt" /\ (wpc'[u] = "done" => run_failed')
    BY <1>16, <2>2, <2>4 DEF AfterOp, mainVars, shared, history, Typed
  <2>5. ASSUME ~running', NEW u \in Threads
        PROVE  SinceStop(u, doneAtStop[u], idx[u] - Start(u, phase))'
    <3>1. /\ InPiece(u) /\ idx[u] \in Nat /\ Start(u, phase) \in Nat /\ doneAtStop[u] \in Nat
      BY <2>1 DEF Typed
    <3>2. SinceStop(u, doneAtStop[u], idx[u] - Start(u, phase)) /\ ~running
      BY <1>16, <2>2, <2>5 DEF AfterOp, shared
    <3>3. doneAtStop'[u] = doneAtStop[u] /\ run_failed' = run_failed
      BY <1>16 DEF AfterOp, history, shared
    <3>4. CASE u # w
      <4>1. /\ wpc'[u] = wpc[u] /\ flag'[u] = flag[u] /\ op_cnt'[u] = op_cnt[u]
            /\ idx'[u] = idx[u]
        BY <1>16, <3>4 DEF AfterOp, Typed
      <4> QED
        BY <2>3, <3>2, <3>3, <4>1 DEF SinceStop
    <3>5. CASE u = w /\ run_failed
      <4>1. wpc[u] = "chk" /\ wpc'[u] = "done" /\ idx'[u] = idx[u]
        BY <1>16, <3>5 DEF AfterOp, Typed
      <4>2. flag'[u] = flag[u] /\ op_cnt'[u] = op_cnt[u]
        BY <1>16 DEF AfterOp
      <4> QED
        BY <2>3, <3>2, <3>3, <3>5, <4>1, <4>2 DEF SinceStop
    <3>6. CASE u = w /\ ~run_failed
      <4>1. wpc[u] = "chk" /\ wpc'[u] = "top" /\ idx'[u] = idx[u] + 1
        BY <1>16, <3>6 DEF AfterOp, Typed
      <4>2. flag'[u] = flag[u] /\ op_cnt'[u] = op_cnt[u]
        BY <1>16 DEF AfterOp
      <4> QED
        BY <2>3, <3>1, <3>2, <3>3, <4>1, <4>2 DEF SinceStop
    <3> QED
      BY <3>4, <3>5, <3>6
  <2> QED
    BY <1>0, <2>1, <2>3, <2>4, <2>5 DEF Clock
<1>17. ASSUME NEW w \in Threads, LoopEnd(w) PROVE Clock'
  <2>1. /\ InPhase /\ mpc \in {"run", "join"}
        /\ \A u \in Threads : /\ InPiece(u) /\ idx[u] \in Nat /\ applied[u] \in Nat
                              /\ Start(u, phase) \in Nat /\ Limit(u, phase) \in Nat
    BY <1>17, InLoop DEF LoopEnd
  <2>2. /\ running => \A u \in Threads :
              ~flag[u] /\ wpc[u] # "cnt" /\ (wpc[u] = "done" => run_failed)
        /\ ~running => \A u \in Threads :
              SinceStop(u, doneAtStop[u], idx[u] - Start(u, phase))
    BY <2>1 DEF Clock
  <2>3. /\ mpc' = mpc /\ phase' = phase
        /\ \A u \in Threads : Start(u, phase)' = Start(u, phase)
    BY <1>0, <1>17 DEF LoopEnd, mainVars
  <2>4. ASSUME running', NEW u \in Threads
        PROVE  ~flag'[u] /\ wpc'[u] # "cnt" /\ (wpc'[u] = "done" => run_failed')
    BY <1>17, <2>2, <2>4
       DEF LoopEnd, StopsClock, mainVars, shared, history, Typed
  <2>5. ASSUME ~running', NEW u \in Threads
        PROVE  SinceStop(u, doneAtStop[u], idx[u] - Start(u, phase))'
    <3>1. /\ InPiece(u) /\ idx[u] \in Nat /\ applied[u] \in Nat
          /\ Start(u, phase) \in Nat /\ Limit(u, phase) \in Nat
      BY <2>1
    <3>2. CASE running
      <4>1. doneAtStop'[u] = applied[u] - Start(u, phase) /\ ~flag[u] /\ ~flag[w]
        BY <1>17, <2>2, <2>5, <3>2 DEF LoopEnd, StopsClock
      <4>2. /\ wpc' = [wpc EXCEPT ![w] = "cnt"] /\ idx' = idx /\ flag' = flag
            /\ op_cnt' = op_cnt /\ run_failed' = run_failed
        BY <1>17, <2>5, <3>2, <4>1 DEF LoopEnd, StopsClock
      <4>3. wpc[u] # "cnt" /\ (wpc[u] = "done" => run_failed)
        BY <2>2, <3>2
      <4>4. wpc[w] = "top"
        BY <1>17 DEF LoopEnd
      <4> QED
        BY <2>3, <3>1, <4>1, <4>2, <4>3, <4>4 DEF SinceStop, InPiece, Typed
    <3>3. CASE ~running
      <4>1. SinceStop(u, doneAtStop[u], idx[u] - Start(u, phase))
        BY <2>2, <3>3
      <4>2. wpc[w] = "top" /\ doneAtStop' = doneAtStop
        BY <1>17, <3>3 DEF LoopEnd
      <4> QED
        BY <1>17, <2>3, <3>1, <4>1, <4>2
           DEF LoopEnd, StopsClock, SinceStop, InPiece, Typed
    <3> QED
      BY <3>2, <3>3
  <2> QED
    BY <1>0, <2>1, <2>3, <2>4, <2>5 DEF Clock
<1>18. ASSUME NEW w \in Threads, CountAll(w) PROVE Clock'
  <2>1. /\ InPhase /\ mpc \in {"run", "join"}
        /\ \A u \in Threads : /\ InPiece(u) /\ idx[u] \in Nat /\ applied[u] \in Nat
                              /\ Start(u, phase) \in Nat /\ Limit(u, phase) \in Nat
    BY <1>18, InLoop DEF CountAll
  <2>2. /\ running => \A u \in Threads :
              ~flag[u] /\ wpc[u] # "cnt" /\ (wpc[u] = "done" => run_failed)
        /\ ~running => \A u \in Threads :
              SinceStop(u, doneAtStop[u], idx[u] - Start(u, phase))
    BY <2>1 DEF Clock
  <2>3. /\ mpc' = mpc /\ phase' = phase
        /\ \A u \in Threads : Start(u, phase)' = Start(u, phase)
    BY <1>0, <1>18 DEF CountAll, mainVars
  <2>4. ASSUME running', NEW u \in Threads
        PROVE  ~flag'[u] /\ wpc'[u] # "cnt" /\ (wpc'[u] = "done" => run_failed')
    BY <1>18, <2>2, <2>4 DEF CountAll, mainVars, shared, history, Typed
  <2>5. ASSUME ~running', NEW u \in Threads
        PROVE  SinceStop(u, doneAtStop[u], idx[u] - Start(u, phase))'
    <3>1. /\ InPiece(u) /\ idx[u] \in Nat /\ applied[u] \in Nat
          /\ Start(u, phase) \in Nat /\ Limit(u, phase) \in Nat
      BY <2>1
    <3>2. SinceStop(u, doneAtStop[u], idx[u] - Start(u, phase)) /\ ~running
      BY <1>18, <2>2, <2>5 DEF CountAll, shared
    <3>3. doneAtStop[u] \in Nat
      BY DEF Typed
    <3> QED
      BY SMTT(30), <1>18, <2>3, <3>1, <3>2, <3>3
         DEF CountAll, mainVars, shared, history, SinceStop, InPiece, Typed
  <2> QED
    BY <1>0, <2>1, <2>3, <2>4, <2>5 DEF Clock
<1>19. CASE UNCHANGED vars
  BY <1>0, <1>a, <1>19
     DEF vars, mainVars, shared, history, Clock, InPhase, SinceStop
<1> QED
  BY <1>1, <1>2, <1>3, <1>4, <1>5, <1>6, <1>7, <1>8, <1>9, <1>10, <1>11,
     <1>12, <1>13, <1>14, <1>15, <1>16, <1>17, <1>18, <1>19
     DEF Next, Main, Worker, Exited

\* Every step keeps the counts within the pieces.
LEMMA NextCounted ==
  ASSUME Typed, Control, Progress, Clock, Counted, [Next]_vars
  PROVE  Counted'
<1>0. /\ Threads' = Threads /\ NumThreads' = NumThreads /\ NumPhases' = NumPhases
      /\ NumRepeats' = NumRepeats /\ args' = args
      /\ \A w, i : Start(w, i)' = Start(w, i) /\ Limit(w, i)' = Limit(w, i)
  BY SameArgs, BoundsKept
<1>a. /\ NumThreads \in Nat \ {0} /\ Threads = 1..NumThreads /\ NumPhases \in Nat
      /\ NumRepeats \in Nat \ {0}
      /\ \A w \in Threads, i \in 0..NumPhases - 1 :
           /\ Start(w, i) \in Nat /\ Limit(w, i) \in Nat
           /\ Start(w, i) <= Limit(w, i) /\ Limit(w, i) <= Len(Ops[w])
           /\ i = 0 => Start(w, i) = 0
           /\ i > 0 => Start(w, i) = Limit(w, i - 1)
  BY WorkloadFacts, PhaseBounds DEF Typed, Threads
<1>1. CASE BeginRun
  BY <1>1 DEF BeginRun, Counted, InPhase
<1>2. CASE Build
  BY <1>2 DEF Build, Counted, InPhase
<1>3. CASE StartPhase
  <2>1. \A w \in Threads : ~flag'[w] /\ wpc'[w] # "done"
    BY <1>0, <1>3 DEF StartPhase, Control, Clock, InPhase, Typed
  <2> QED
    BY <1>0, <2>1 DEF Counted
<1>4. CASE CallSingle
  <2>1. \A w \in Threads : ~flag'[w] /\ wpc'[w] # "done"
    BY <1>0, <1>4 DEF CallSingle, Control, Clock, InPhase, Typed
  <2> QED
    BY <1>0, <2>1 DEF Counted
<1>5. CASE Spawn
  <2>1. \A w \in Threads : ~flag'[w] /\ wpc'[w] # "done"
    BY <1>0, <1>5 DEF Spawn, Control, Clock, InPhase, Typed
  <2> QED
    BY <1>0, <2>1 DEF Counted
<1>6. CASE Release
  <2>1. \A w \in Threads : ~flag'[w] /\ wpc'[w] # "done"
    BY <1>0, <1>6 DEF Release, Control, Clock, InPhase, Typed
  <2> QED
    BY <1>0, <2>1 DEF Counted
<1>7. CASE StopClock
  <2>1. InPhase /\ UNCHANGED <<run_failed, wpc, flag, op_cnt, phase>>
    BY <1>7 DEF StopClock, InPhase, shared
  <2> QED
    BY <1>0, <2>1 DEF Counted
<1>8. CASE Join
  <2>1. InPhase /\ UNCHANGED <<run_failed, wpc, flag, op_cnt, phase>>
    BY <1>8 DEF Join, InPhase, shared
  <2> QED
    BY <1>0, <2>1 DEF Counted
<1>9. CASE Collect
  BY <1>9 DEF Collect, Counted, InPhase
<1>10. CASE EndRepeat
  BY <1>10 DEF EndRepeat, MoreRepeats, Counted, InPhase
<1>11. CASE PrintResult
  BY <1>11 DEF PrintResult, Counted, InPhase
<1>12. ASSUME NEW w \in Threads, Ready(w) PROVE Counted'
  <2>1. InPhase
    BY <1>12 DEF Ready, InPhase, Control, Typed
  <2>2. /\ mpc' = mpc /\ phase' = phase
        /\ \A u \in Threads : /\ Start(u, phase)' = Start(u, phase)
                              /\ Limit(u, phase)' = Limit(u, phase)
    BY <1>0, <1>12 DEF Ready, mainVars
  <2>3. ASSUME NEW u \in Threads, flag'[u] \/ (wpc'[u] = "done" /\ ~run_failed')
        PROVE  op_cnt'[u] \in 0..Limit(u, phase) - Start(u, phase)
    <3>1. flag[u] \/ (wpc[u] = "done" /\ ~run_failed) =>
            op_cnt[u] \in 0..Limit(u, phase) - Start(u, phase)
      BY <2>1 DEF Counted
    <3> QED
      BY <1>12, <2>3, <3>1 DEF Ready, shared, Typed
  <2> QED
    BY <1>0, <2>1, <2>2, <2>3 DEF Counted
<1>13. ASSUME NEW w \in Threads, LeaveSpin(w) PROVE Counted'
  <2>1. InPhase
    BY <1>13 DEF LeaveSpin, InPhase, Control, Typed
  <2>2. /\ mpc' = mpc /\ phase' = phase
        /\ \A u \in Threads : /\ Start(u, phase)' = Start(u, phase)
                              /\ Limit(u, phase)' = Limit(u, phase)
    BY <1>0, <1>13 DEF LeaveSpin, mainVars
  <2>3. ASSUME NEW u \in Threads, flag'[u] \/ (wpc'[u] = "done" /\ ~run_failed')
        PROVE  op_cnt'[u] \in 0..Limit(u, phase) - Start(u, phase)
    <3>1. flag[u] \/ (wpc[u] = "done" /\ ~run_failed) =>
            op_cnt[u] \in 0..Limit(u, phase) - Start(u, phase)
      BY <2>1 DEF Counted
    <3> QED
      BY <1>13, <2>3, <3>1 DEF LeaveSpin, shared, Typed
  <2> QED
    BY <1>0, <2>1, <2>2, <2>3 DEF Counted
<1>14. ASSUME NEW w \in Threads, LoopHead(w) PROVE Counted'
  <2>1. /\ InPhase
        /\ \A u \in Threads : /\ InPiece(u) /\ idx[u] \in Nat /\ applied[u] \in Nat
                              /\ Start(u, phase) \in Nat /\ Limit(u, phase) \in Nat
    BY <1>14, InLoop DEF LoopHead
  <2>2. /\ mpc' = mpc /\ phase' = phase
        /\ \A u \in Threads : /\ Start(u, phase)' = Start(u, phase)
                              /\ Limit(u, phase)' = Limit(u, phase)
    BY <1>0, <1>14 DEF LoopHead, mainVars
  <2>3. ASSUME NEW u \in Threads, flag'[u] \/ (wpc'[u] = "done" /\ ~run_failed')
        PROVE  op_cnt'[u] \in 0..Limit(u, phase) - Start(u, phase)
    <3>1. flag[u] \/ (wpc[u] = "done" /\ ~run_failed) =>
            op_cnt[u] \in 0..Limit(u, phase) - Start(u, phase)
      BY <2>1 DEF Counted
    <3>2. /\ InPiece(u) /\ idx[u] \in Nat
          /\ Start(u, phase) \in Nat /\ Limit(u, phase) \in Nat
      BY <2>1
    <3> QED
      BY <1>14, <2>3, <3>1, <3>2
         DEF LoopHead, mainVars, shared, history, InPiece, Typed
  <2> QED
    BY <1>0, <2>1, <2>2, <2>3 DEF Counted
<1>15. ASSUME NEW w \in Threads, Execute(w) PROVE Counted'
  <2>1. /\ InPhase
        /\ \A u \in Threads : /\ InPiece(u) /\ idx[u] \in Nat /\ applied[u] \in Nat
                              /\ Start(u, phase) \in Nat /\ Limit(u, phase) \in Nat
    BY <1>15, InLoop DEF Execute
  <2>2. /\ mpc' = mpc /\ phase' = phase
        /\ \A u \in Threads : /\ Start(u, phase)' = Start(u, phase)
                              /\ Limit(u, phase)' = Limit(u, phase)
    BY <1>0, <1>15 DEF Execute, mainVars
  <2>3. ASSUME NEW u \in Threads, flag'[u] \/ (wpc'[u] = "done" /\ ~run_failed')
        PROVE  op_cnt'[u] \in 0..Limit(u, phase) - Start(u, phase)
    <3>1. flag[u] \/ (wpc[u] = "done" /\ ~run_failed) =>
            op_cnt[u] \in 0..Limit(u, phase) - Start(u, phase)
      BY <2>1 DEF Counted
    <3>2. /\ InPiece(u) /\ idx[u] \in Nat
          /\ Start(u, phase) \in Nat /\ Limit(u, phase) \in Nat
      BY <2>1
    <3> QED
      BY <1>15, <2>3, <3>1, <3>2
         DEF Execute, mainVars, shared, history, InPiece, Typed
  <2> QED
    BY <1>0, <2>1, <2>2, <2>3 DEF Counted
<1>16. ASSUME NEW w \in Threads, AfterOp(w) PROVE Counted'
  <2>1. /\ InPhase
        /\ \A u \in Threads : /\ InPiece(u) /\ idx[u] \in Nat /\ applied[u] \in Nat
                              /\ Start(u, phase) \in Nat /\ Limit(u, phase) \in Nat
    BY <1>16, InLoop DEF AfterOp
  <2>2. /\ mpc' = mpc /\ phase' = phase
        /\ \A u \in Threads : /\ Start(u, phase)' = Start(u, phase)
                              /\ Limit(u, phase)' = Limit(u, phase)
    BY <1>0, <1>16 DEF AfterOp, mainVars
  <2>3. ASSUME NEW u \in Threads, flag'[u] \/ (wpc'[u] = "done" /\ ~run_failed')
        PROVE  op_cnt'[u] \in 0..Limit(u, phase) - Start(u, phase)
    <3>1. flag[u] \/ (wpc[u] = "done" /\ ~run_failed) =>
            op_cnt[u] \in 0..Limit(u, phase) - Start(u, phase)
      BY <2>1 DEF Counted
    <3>2. /\ InPiece(u) /\ idx[u] \in Nat
          /\ Start(u, phase) \in Nat /\ Limit(u, phase) \in Nat
      BY <2>1
    <3> QED
      BY <1>16, <2>3, <3>1, <3>2
         DEF AfterOp, mainVars, shared, history, InPiece, Typed
  <2> QED
    BY <1>0, <2>1, <2>2, <2>3 DEF Counted
<1>17. ASSUME NEW w \in Threads, LoopEnd(w) PROVE Counted'
  <2>1. /\ InPhase
        /\ \A u \in Threads : /\ InPiece(u) /\ idx[u] \in Nat /\ applied[u] \in Nat
                              /\ Start(u, phase) \in Nat /\ Limit(u, phase) \in Nat
    BY <1>17, InLoop DEF LoopEnd
  <2>2. /\ mpc' = mpc /\ phase' = phase
        /\ \A u \in Threads : /\ Start(u, phase)' = Start(u, phase)
                              /\ Limit(u, phase)' = Limit(u, phase)
    BY <1>0, <1>17 DEF LoopEnd, mainVars
  <2>3. ASSUME NEW u \in Threads, flag'[u] \/ (wpc'[u] = "done" /\ ~run_failed')
        PROVE  op_cnt'[u] \in 0..Limit(u, phase) - Start(u, phase)
    <3>1. flag[u] \/ (wpc[u] = "done" /\ ~run_failed) =>
            op_cnt[u] \in 0..Limit(u, phase) - Start(u, phase)
      BY <2>1 DEF Counted
    <3>2. /\ InPiece(u) /\ idx[u] \in Nat
          /\ Start(u, phase) \in Nat /\ Limit(u, phase) \in Nat
      BY <2>1
    <3> QED
      BY <1>17, <2>3, <3>1, <3>2
         DEF LoopEnd, StopsClock, mainVars, shared, history, InPiece, Typed
  <2> QED
    BY <1>0, <2>1, <2>2, <2>3 DEF Counted
<1>18. ASSUME NEW w \in Threads, CountAll(w) PROVE Counted'
  <2>1. /\ InPhase
        /\ \A u \in Threads : /\ InPiece(u) /\ idx[u] \in Nat /\ applied[u] \in Nat
                              /\ Start(u, phase) \in Nat /\ Limit(u, phase) \in Nat
    BY <1>18, InLoop DEF CountAll
  <2>2. /\ mpc' = mpc /\ phase' = phase
        /\ \A u \in Threads : /\ Start(u, phase)' = Start(u, phase)
                              /\ Limit(u, phase)' = Limit(u, phase)
    BY <1>0, <1>18 DEF CountAll, mainVars
  <2>3. ASSUME NEW u \in Threads, flag'[u] \/ (wpc'[u] = "done" /\ ~run_failed')
        PROVE  op_cnt'[u] \in 0..Limit(u, phase) - Start(u, phase)
    <3>1. flag[u] \/ (wpc[u] = "done" /\ ~run_failed) =>
            op_cnt[u] \in 0..Limit(u, phase) - Start(u, phase)
      BY <2>1 DEF Counted
    <3>2. /\ InPiece(u) /\ idx[u] \in Nat
          /\ Start(u, phase) \in Nat /\ Limit(u, phase) \in Nat
      BY <2>1
    <3> QED
      BY <1>18, <2>3, <3>1, <3>2
         DEF CountAll, mainVars, shared, history, InPiece, Typed
  <2> QED
    BY <1>0, <2>1, <2>2, <2>3 DEF Counted
<1>19. CASE UNCHANGED vars
  BY <1>0, <1>a, <1>19 DEF vars, mainVars, shared, history, Counted, InPhase
<1> QED
  BY <1>1, <1>2, <1>3, <1>4, <1>5, <1>6, <1>7, <1>8, <1>9, <1>10, <1>11,
     <1>12, <1>13, <1>14, <1>15, <1>16, <1>17, <1>18, <1>19
     DEF Next, Main, Worker, Exited


\* Threads is finite, so its subsets have a number of elements.
LEMMA WaitingFinite ==
  ASSUME args \in Workloads
  PROVE  /\ IsFiniteSet(Waiting) /\ Cardinality(Waiting) \in 0..NumThreads
         /\ \A S \in SUBSET Threads : Cardinality(S) \in 0..NumThreads
<1>1. NumThreads \in Nat /\ Threads = 1..NumThreads
  BY WorkloadFacts DEF Threads
<1>2. IsFiniteSet(Threads) /\ Cardinality(Threads) = NumThreads
  BY <1>1, FS_Interval
<1>3. \A S \in SUBSET Threads : IsFiniteSet(S) /\ Cardinality(S) <= NumThreads
  BY <1>2, FS_Subset
<1>4. \A S \in SUBSET Threads : Cardinality(S) \in Nat
  BY <1>3, FS_CardinalityType
<1>5. Waiting \in SUBSET Threads
  BY DEF Waiting
<1> QED
  BY <1>1, <1>3, <1>4, <1>5

\* Every step keeps ready_threads the number of workers that have counted
\* themselves.
LEMMA NextReadyCount ==
  ASSUME Typed, Control, ReadyCount, [Next]_vars
  PROVE  ReadyCount'
<1>0. Threads' = Threads /\ NumThreads' = NumThreads /\ args' = args
  BY SameArgs, BoundsKept
<1>a. /\ NumThreads \in Nat \ {0} /\ 1 \in Threads /\ args \in Workloads
      /\ Threads = 1..NumThreads
  BY WorkloadFacts DEF Typed, Threads
<1>1. CASE BeginRun
  BY <1>0, <1>1 DEF BeginRun, ReadyCount, InPhase, shared
<1>2. CASE Build
  BY <1>0, <1>2 DEF Build, ReadyCount, InPhase, shared
<1>3. CASE StartPhase
  <2>1. Waiting' = {} /\ ready' = 0
    BY <1>0, <1>3 DEF StartPhase, Waiting
  <2>2. Cardinality(Waiting') = 0
    BY <2>1, FS_EmptySet
  <2>3. 0 \in 0..NumThreads
    BY <1>a
  <2> QED
    BY <1>0, <2>1, <2>2, <2>3 DEF ReadyCount
<1>4. CASE CallSingle
  <2>1. Waiting' = Waiting
    BY <1>0, <1>4 DEF CallSingle, Waiting, Typed, Control
  <2>2. InPhase /\ ready' = ready
    BY <1>4 DEF CallSingle, InPhase
  <2> QED
    BY <1>0, <2>1, <2>2 DEF ReadyCount
<1>5. CASE Spawn
  <2> DEFINE S == {u \in Threads : wpc[u] = "none"}
             w == Min(S)
  <2>1. w \in S
    <3>1. NumThreads \in S /\ S \in SUBSET Nat
      BY <1>a, <1>5 DEF Spawn, Control
    <3> HIDE DEF S
    <3> QED
      BY <3>1, MinOfSet
  <2>2. wpc' = [wpc EXCEPT ![w] = "ready"]
    BY <1>5 DEF Spawn
  <2> HIDE DEF w
  <2>3. Waiting' = Waiting
    BY <1>0, <2>1, <2>2 DEF Waiting, Typed
  <2>4. InPhase /\ ready' = ready
    BY <1>5 DEF Spawn, InPhase, shared
  <2> QED
    BY <1>0, <2>3, <2>4 DEF ReadyCount
<1>6. CASE Release
  <2>1. Waiting' = Waiting /\ InPhase /\ ready' = ready
    BY <1>0, <1>6 DEF Release, Waiting, InPhase, shared
  <2> QED
    BY <1>0, <2>1 DEF ReadyCount
<1>7. CASE StopClock
  <2>1. Waiting' = Waiting /\ InPhase /\ ready' = ready
    BY <1>0, <1>7 DEF StopClock, Waiting, InPhase, shared
  <2> QED
    BY <1>0, <2>1 DEF ReadyCount
<1>8. CASE Join
  <2>1. Waiting' = Waiting /\ InPhase /\ ready' = ready
    BY <1>0, <1>8 DEF Join, Waiting, InPhase, shared
  <2> QED
    BY <1>0, <2>1 DEF ReadyCount
<1>9. CASE Collect
  BY <1>0, <1>9 DEF Collect, ReadyCount, InPhase, shared
<1>10. CASE EndRepeat
  BY <1>0, <1>10 DEF EndRepeat, MoreRepeats, ReadyCount, InPhase, shared
<1>11. CASE PrintResult
  BY <1>0, <1>11 DEF PrintResult, ReadyCount, InPhase, shared
<1>12. ASSUME NEW w \in Threads, Ready(w) PROVE ReadyCount'
  <2>1. InPhase
    BY <1>12 DEF Ready, InPhase, Control, Typed
  <2>2. Waiting' = Waiting \cup {w} /\ w \notin Waiting
    BY <1>0, <1>12 DEF Ready, Waiting, Typed
  <2>3. Cardinality(Waiting') = Cardinality(Waiting) + 1
    BY <1>a, <2>2, WaitingFinite, FS_AddElement
  <2>4. Waiting' \in SUBSET Threads
    BY <1>0 DEF Waiting
  <2>5. Cardinality(Waiting') \in 0..NumThreads
    BY <1>a, <2>4, WaitingFinite
  <2>6. ready' = Cardinality(Waiting')
    BY <1>12, <2>1, <2>3 DEF Ready, ReadyCount
  <2> QED
    BY <1>0, <2>5, <2>6 DEF ReadyCount
<1>13. ASSUME NEW w \in Threads, LeaveSpin(w) PROVE ReadyCount'
  <2>1. Waiting' = Waiting
    BY <1>0, <1>13 DEF LeaveSpin, Waiting, Typed
  <2>2. ready' = ready /\ mpc' = mpc
    BY <1>13 DEF LeaveSpin, mainVars, shared
  <2> QED
    BY <1>0, <2>1, <2>2 DEF ReadyCount, InPhase
<1>14. ASSUME NEW w \in Threads, LoopHead(w) PROVE ReadyCount'
  <2>1. Waiting' = Waiting
    BY <1>0, <1>14 DEF LoopHead, Waiting, Typed
  <2>2. ready' = ready /\ mpc' = mpc
    BY <1>14 DEF LoopHead, mainVars, shared
  <2> QED
    BY <1>0, <2>1, <2>2 DEF ReadyCount, InPhase
<1>15. ASSUME NEW w \in Threads, Execute(w) PROVE ReadyCount'
  <2>1. Waiting' = Waiting
    BY <1>0, <1>15 DEF Execute, Waiting, Typed
  <2>2. ready' = ready /\ mpc' = mpc
    BY <1>15 DEF Execute, mainVars, shared
  <2> QED
    BY <1>0, <2>1, <2>2 DEF ReadyCount, InPhase
<1>16. ASSUME NEW w \in Threads, AfterOp(w) PROVE ReadyCount'
  <2>1. Waiting' = Waiting
    BY <1>0, <1>16 DEF AfterOp, Waiting, Typed
  <2>2. ready' = ready /\ mpc' = mpc
    BY <1>16 DEF AfterOp, mainVars, shared
  <2> QED
    BY <1>0, <2>1, <2>2 DEF ReadyCount, InPhase
<1>17. ASSUME NEW w \in Threads, LoopEnd(w) PROVE ReadyCount'
  <2>1. Waiting' = Waiting
    BY <1>0, <1>17 DEF LoopEnd, Waiting, Typed
  <2>2. ready' = ready /\ mpc' = mpc
    BY <1>17 DEF LoopEnd, mainVars, shared
  <2> QED
    BY <1>0, <2>1, <2>2 DEF ReadyCount, InPhase
<1>18. ASSUME NEW w \in Threads, CountAll(w) PROVE ReadyCount'
  <2>1. Waiting' = Waiting
    BY <1>0, <1>18 DEF CountAll, Waiting, Typed
  <2>2. ready' = ready /\ mpc' = mpc
    BY <1>18 DEF CountAll, mainVars, shared
  <2> QED
    BY <1>0, <2>1, <2>2 DEF ReadyCount, InPhase
<1>19. CASE UNCHANGED vars
  BY <1>0, <1>a, <1>19
     DEF vars, mainVars, shared, history, ReadyCount, Waiting, InPhase
<1> QED
  BY <1>1, <1>2, <1>3, <1>4, <1>5, <1>6, <1>7, <1>8, <1>9, <1>10, <1>11,
     <1>12, <1>13, <1>14, <1>15, <1>16, <1>17, <1>18, <1>19
     DEF Next, Main, Worker, Exited

\* Every step keeps the slots of the finished operations of the phase.
LEMMA NextSlots ==
  ASSUME Typed, Control, Progress, Slots, [Next]_vars
  PROVE  Slots'
<1>0. /\ Threads' = Threads /\ SlotCount' = SlotCount /\ Through' = Through /\ args' = args
      /\ NumPhases' = NumPhases
      /\ \A w, i : /\ Start(w, i)' = Start(w, i) /\ Limit(w, i)' = Limit(w, i)
                   /\ SlotBase(w, i)' = SlotBase(w, i)
  BY SameArgs, BoundsKept, SlotsKept
<1>a. args \in Workloads
  BY DEF Typed
<1>1. CASE BeginRun
  BY <1>0, <1>1 DEF BeginRun, Slots, InPhase
<1>2. CASE Build
  BY <1>0, <1>2 DEF Build, Slots, InPhase
<1>3. CASE StartPhase
  <2>1. phase \in 0..NumPhases - 1 /\ phase' = phase
    BY <1>a, <1>3, WorkloadFacts DEF StartPhase, Typed
  <2>2. \A w \in Threads : idx'[w] = Start(w, phase) /\ Start(w, phase) \in Nat
    BY <1>a, <1>3, <2>1, PhaseBounds DEF StartPhase
  <2>3. \A w \in Threads : 0..idx'[w] - Start(w, phase)' - 1 = {}
    BY <1>0, <2>1, <2>2
  <2>4. ns' = ns
    BY <1>3 DEF StartPhase
  <2> QED
    BY <1>0, <2>3, <2>4 DEF Slots
<1>4. CASE CallSingle
  <2>1. InPhase /\ UNCHANGED <<ns, idx, rep, phase>>
    BY <1>4 DEF CallSingle, InPhase
  <2> QED
    BY <1>0, <2>1 DEF Slots
<1>5. CASE Spawn
  <2>1. InPhase /\ UNCHANGED <<ns, idx, rep, phase>>
    BY <1>5 DEF Spawn, InPhase
  <2> QED
    BY <1>0, <2>1 DEF Slots
<1>6. CASE Release
  <2>1. InPhase /\ UNCHANGED <<ns, idx, rep, phase>>
    BY <1>6 DEF Release, InPhase
  <2> QED
    BY <1>0, <2>1 DEF Slots
<1>7. CASE StopClock
  <2>1. InPhase /\ UNCHANGED <<ns, idx, rep, phase>>
    BY <1>7 DEF StopClock, InPhase
  <2> QED
    BY <1>0, <2>1 DEF Slots
<1>8. CASE Join
  <2>1. InPhase /\ UNCHANGED <<ns, idx, rep, phase>>
    BY <1>8 DEF Join, InPhase
  <2> QED
    BY <1>0, <2>1 DEF Slots
<1>9. CASE Collect
  BY <1>0, <1>9 DEF Collect, Slots, InPhase
<1>10. CASE EndRepeat
  BY <1>0, <1>10 DEF EndRepeat, MoreRepeats, Slots, InPhase
<1>11. CASE PrintResult
  BY <1>0, <1>11 DEF PrintResult, Slots, InPhase
<1>12. ASSUME NEW w \in Threads, Ready(w) PROVE Slots'
  <2>1. UNCHANGED <<ns, idx, mpc, rep, phase>>
    BY <1>12 DEF Ready, mainVars
  <2> QED
    BY <1>0, <2>1 DEF Slots, InPhase
<1>13. ASSUME NEW w \in Threads, LeaveSpin(w) PROVE Slots'
  <2>1. UNCHANGED <<ns, idx, mpc, rep, phase>>
    BY <1>13 DEF LeaveSpin, mainVars
  <2> QED
    BY <1>0, <2>1 DEF Slots, InPhase
<1>14. ASSUME NEW w \in Threads, LoopHead(w) PROVE Slots'
  <2>1. UNCHANGED <<ns, idx, mpc, rep, phase>>
    BY <1>14 DEF LoopHead, mainVars
  <2> QED
    BY <1>0, <2>1 DEF Slots, InPhase
<1>15. ASSUME NEW w \in Threads, Execute(w) PROVE Slots'
  <2>1. UNCHANGED <<ns, idx, mpc, rep, phase>>
    BY <1>15 DEF Execute, mainVars
  <2> QED
    BY <1>0, <2>1 DEF Slots, InPhase
<1>16. ASSUME NEW w \in Threads, AfterOp(w) PROVE Slots'
  <2>1. /\ InPhase /\ phase \in 0..NumPhases - 1
        /\ \A u \in Threads : /\ InPiece(u) /\ idx[u] \in Nat
                              /\ Start(u, phase) \in Nat /\ Limit(u, phase) \in Nat
    BY <1>16, InLoop DEF AfterOp
  <2>2. UNCHANGED <<mpc, rep, phase>>
    BY <1>16 DEF AfterOp, mainVars
  <2>3. CASE run_failed \/ Through
    <3>1. ns' = ns
      BY <1>16, <2>3 DEF AfterOp
    <3>2. CASE Through
      BY <1>0, <3>1, <3>2 DEF Slots
    <3>3. CASE run_failed
      <4>1. idx' = idx
        BY <1>16, <3>3 DEF AfterOp
      <4> QED
        BY <1>0, <2>2, <3>1, <4>1 DEF Slots, InPhase
    <3> QED
      BY <2>3, <3>2, <3>3
  <2>4. CASE ~run_failed /\ ~Through
    <3> DEFINE slot == SlotBase(w, phase) + idx[w] - Start(w, phase)
    <3>1. ns' = [ns EXCEPT ![slot] = <<rep, phase>>] /\ idx' = [idx EXCEPT ![w] = idx[w] + 1]
      BY <1>16, <2>4 DEF AfterOp
    <3>2. idx[w] < Limit(w, phase) /\ Start(w, phase) <= idx[w]
      BY <1>16, <2>1 DEF AfterOp, InPiece
    <3>3. /\ SlotBase(w, phase) \in Nat /\ ExeCnt(phase) \in Nat /\ SlotCount \in Nat
          /\ ExeCnt(phase) <= SlotCount
          /\ SlotBase(w, phase) + (Limit(w, phase) - Start(w, phase)) <= ExeCnt(phase)
      BY <1>a, <2>1, SlotFacts
    <3>4. /\ Start(w, phase) \in Nat /\ idx[w] \in Nat /\ Limit(w, phase) \in Nat
      BY <2>1
    <3>5. slot \in 0..SlotCount - 1
      BY <3>2, <3>3, <3>4
    <3>6. slot = SlotBase(w, phase) + (idx[w] - Start(w, phase))
      BY <3>3, <3>4
    <3>7. rep \in Nat /\ phase \in Nat
      <4>1. NumRepeats \in Nat
        BY <1>a, WorkloadFacts
      <4> QED
        BY <4>1, <2>1 DEF Typed
    <3> HIDE DEF slot
    <3>8. ns' \in [0..SlotCount - 1 -> (Nat \X Nat) \cup {Never}]
      BY <3>1, <3>5, <3>7 DEF Slots
    <3>9. \A x \in 0..SlotCount - 1 : ns'[x] = IF x = slot THEN <<rep, phase>> ELSE ns[x]
      BY <3>1 DEF Slots
    <3>10. ASSUME NEW u \in Threads, NEW m \in 0..idx'[u] - Start(u, phase) - 1
           PROVE  ns'[SlotBase(u, phase) + m] = <<rep, phase>>
      <4>1. /\ SlotBase(u, phase) \in Nat /\ InPiece(u) /\ idx[u] \in Nat
            /\ Start(u, phase) \in Nat /\ Limit(u, phase) \in Nat
            /\ SlotBase(u, phase) + (Limit(u, phase) - Start(u, phase)) <= ExeCnt(phase)
        BY <1>a, <2>1, SlotFacts
      <4>2. \A x \in 0..idx[u] - Start(u, phase) - 1 : ns[SlotBase(u, phase) + x] = <<rep, phase>>
        BY <2>1, <2>4 DEF Slots
      <4>3. idx'[u] = IF u = w THEN idx[w] + 1 ELSE idx[u]
        BY <3>1 DEF Typed
      <4>4. CASE u = w /\ m = idx[w] - Start(w, phase)
        BY <3>5, <3>6, <3>9, <4>4
      <4>5. CASE ~(u = w /\ m = idx[w] - Start(w, phase))
        <5>1. m \in 0..idx[u] - Start(u, phase) - 1
          BY <3>4, <4>1, <4>3, <4>5
        <5>2. SlotBase(u, phase) + m \in 0..SlotCount - 1
          BY <3>3, <4>1, <5>1 DEF InPiece
        <5> QED
          BY <3>9, <4>2, <5>1, <5>2
      <4> QED
        BY <4>4, <4>5
    <3> QED
      BY <1>0, <2>2, <3>8, <3>10 DEF Slots
  <2> QED
    BY <2>3, <2>4
<1>17. ASSUME NEW w \in Threads, LoopEnd(w) PROVE Slots'
  <2>1. UNCHANGED <<ns, idx, mpc, rep, phase>>
    BY <1>17 DEF LoopEnd, mainVars
  <2> QED
    BY <1>0, <2>1 DEF Slots, InPhase
<1>18. ASSUME NEW w \in Threads, CountAll(w) PROVE Slots'
  <2>1. UNCHANGED <<ns, idx, mpc, rep, phase>>
    BY <1>18 DEF CountAll, mainVars
  <2> QED
    BY <1>0, <2>1 DEF Slots, InPhase
<1>19. CASE UNCHANGED vars
  BY <1>0, <1>a, <1>19 DEF vars, mainVars, shared, history, Slots, InPhase
<1> QED
  BY <1>1, <1>2, <1>3, <1>4, <1>5, <1>6, <1>7, <1>8, <1>9, <1>10, <1>11,
     <1>12, <1>13, <1>14, <1>15, <1>16, <1>17, <1>18, <1>19
     DEF Next, Main, Worker, Exited



\* The position of a result in the row names its phase.
LEMMA RowPosition ==
  ASSUME NEW q \in Nat, NEW n \in Nat, NEW r \in 0..n - 1
  PROVE  (q * n + r) % n = r
<1> DEFINE x == q * n + r
<1>1. x \in Nat /\ n > 0 /\ q * n \in Nat
  OBVIOUS
<1>2. x % n \in 0..n - 1 /\ x \div n \in Nat /\ x = n * (x \div n) + (x % n)
  BY <1>1
<1> DEFINE d == x \div n
           m == x % n
<1>3. d \in Nat /\ m \in 0..n - 1 /\ q * n + r = d * n + m
  BY <1>1, <1>2
<1> HIDE DEF x, d, m
<1>4. ~(d >= q + 1)
  <2> SUFFICES ASSUME d >= q + 1 PROVE FALSE
    OBVIOUS
  <2>1. PICK e \in Nat : d = q + 1 + e
    <3>1. d - q - 1 \in Nat /\ d = q + 1 + (d - q - 1)
      BY <1>3
    <3> QED
      BY <3>1
  <2>2. d * n = q * n + n + e * n /\ e * n >= 0 /\ e * n \in Nat /\ q * n \in Nat
    BY <2>1
  <2> QED
    BY <1>3, <2>2
<1>5. ~(q >= d + 1)
  <2> SUFFICES ASSUME q >= d + 1 PROVE FALSE
    OBVIOUS
  <2>1. PICK e \in Nat : q = d + 1 + e
    <3>1. q - d - 1 \in Nat /\ q = d + 1 + (q - d - 1)
      BY <1>3
    <3> QED
      BY <3>1
  <2>2. q * n = d * n + n + e * n /\ e * n >= 0 /\ e * n \in Nat /\ d * n \in Nat
    BY <1>3, <2>1
  <2> QED
    BY <1>3, <2>2
<1>6. d = q
  BY <1>3, <1>4, <1>5
<1>7. m = r
  BY <1>1, <1>3, <1>6
<1> QED
  BY <1>7 DEF m, x

\* What DoOps records of a phase that did not fail counts at most the
\* operations of the phase.
LEMMA ResultRange ==
  ASSUME Typed, Control, Counted, mpc = "check", ~run_failed
  PROVE  PhaseResult \in 0..ExeCnt(phase)
<1>1. args \in Workloads /\ InPhase /\ phase \in 0..NumPhases - 1
  BY WorkloadFacts DEF Typed, Control, InPhase
<1>2. /\ NumThreads \in Nat \ {0} /\ Threads = 1..NumThreads
      /\ NumThreads \in 0..NumThreads /\ NumThreads \in 1..NumThreads
  BY <1>1, WorkloadFacts DEF Threads
<1>3. \A w \in Threads : /\ Limit(w, phase) \in Nat /\ Start(w, phase) \in Nat
                         /\ op_cnt[w] \in 0..Limit(w, phase) - Start(w, phase)
  BY <1>1, PhaseBounds DEF Control, Counted
<1>4. op_cnt \in [1..NumThreads -> Nat] /\ op_cnt \in [1..NumThreads -> Int]
  <2>1. \A w \in 1..NumThreads : op_cnt[w] \in Nat
    BY <1>2, <1>3
  <2>2. op_cnt \in [1..NumThreads -> Nat \cup {Uninit}]
    BY <1>2 DEF Typed
  <2> QED
    BY <2>1, <2>2
<1>5. /\ Sizes(phase) \in [1..NumThreads -> Int]
      /\ \A w \in 1..NumThreads : op_cnt[w] <= Sizes(phase)[w]
  BY <1>2, <1>3 DEF Sizes
<1>6. SumTo(op_cnt, NumThreads) <= ExeCnt(phase)
  <2>1. \A w \in 0..NumThreads : SumTo(op_cnt, w) <= SumTo(Sizes(phase), w)
    BY <1>2, <1>4, <1>5, SumMonotone
  <2> QED
    BY <1>2, <2>1 DEF ExeCnt
<1>7. SumTo(op_cnt, NumThreads) \in Nat
  <2>1. SumTo(op_cnt, NumThreads) \in Int
    BY <1>2, <1>4, SumSteps
  <2>2. /\ SumTo(op_cnt, NumThreads - 1) \in Nat /\ op_cnt[NumThreads] \in Nat
        /\ SumTo(op_cnt, NumThreads - 1) + op_cnt[NumThreads] <= SumTo(op_cnt, NumThreads)
    BY <1>2, <1>4, SumRoom
  <2> QED
    BY <2>1, <2>2
<1>8. ExeCnt(phase) \in Nat
  BY <1>1, SlotFacts
<1> QED
  BY <1>6, <1>7, <1>8 DEF PhaseResult

\* Every step keeps one result per repeat and phase.
LEMMA NextRows ==
  ASSUME Typed, Control, Counted, Rows, [Next]_vars
  PROVE  Rows'
<1>0. NumPhases' = NumPhases /\ args' = args /\ \A j : ExeCnt(j)' = ExeCnt(j)
  BY SameArgs, BoundsKept, SlotsKept
<1>a. /\ args \in Workloads /\ NumPhases \in Nat /\ rep \in Nat /\ phase \in 0..NumPhases
      /\ results \in Seq(Int)
  BY WorkloadFacts DEF Typed
<1>1. CASE BeginRun
  <2>1. CASE mpc' = "build" /\ rep' = 0 /\ results' = <<>>
    <3>1. Len(results') = 0 /\ DOMAIN results' = {} /\ 0 * NumPhases + 0 = 0
      BY <1>a, <2>1
    <3> QED
      BY <1>0, <2>1, <3>1 DEF Rows
  <2>2. CASE mpc' = "start"
    BY <2>2 DEF Rows
  <2> QED
    BY <1>1, <2>1, <2>2 DEF BeginRun
<1>2. CASE Build
  <2>1. mpc = "build" /\ mpc' = "phase" /\ phase' = 0 /\ rep' = rep /\ results' = results
    BY <1>2 DEF Build
  <2> QED
    BY <1>0, <2>1 DEF Rows
<1>3. CASE StartPhase
  <2>1. /\ UNCHANGED <<rep, phase, results>>
        /\ mpc \notin {"start", "build", "print"} /\ mpc' \notin {"start", "build", "print"}
    BY <1>3 DEF StartPhase
  <2> QED
    BY <1>0, <2>1 DEF Rows
<1>4. CASE CallSingle
  <2>1. /\ UNCHANGED <<rep, phase, results>>
        /\ mpc \notin {"start", "build", "print"} /\ mpc' \notin {"start", "build", "print"}
    BY <1>4 DEF CallSingle
  <2> QED
    BY <1>0, <2>1 DEF Rows
<1>5. CASE Spawn
  <2>1. /\ UNCHANGED <<rep, phase, results>>
        /\ mpc \notin {"start", "build", "print"} /\ mpc' \notin {"start", "build", "print"}
    BY <1>5 DEF Spawn
  <2> QED
    BY <1>0, <2>1 DEF Rows
<1>6. CASE Release
  <2>1. /\ UNCHANGED <<rep, phase, results>>
        /\ mpc \notin {"start", "build", "print"} /\ mpc' \notin {"start", "build", "print"}
    BY <1>6 DEF Release
  <2> QED
    BY <1>0, <2>1 DEF Rows
<1>7. CASE StopClock
  <2>1. /\ UNCHANGED <<rep, phase, results>>
        /\ mpc \notin {"start", "build", "print"} /\ mpc' \notin {"start", "build", "print"}
    BY <1>7 DEF StopClock
  <2> QED
    BY <1>0, <2>1 DEF Rows
<1>8. CASE Join
  <2>1. /\ UNCHANGED <<rep, phase, results>>
        /\ mpc \notin {"start", "build", "print"} /\ mpc' \notin {"start", "build", "print"}
    BY <1>8 DEF Join
  <2> QED
    BY <1>0, <2>1 DEF Rows
<1>9. CASE Collect
  <2>1. CASE mpc' = "start"
    BY <2>1 DEF Rows
  <2>2. CASE mpc' = "phase"
    <3>1. /\ mpc = "check" /\ ~run_failed /\ phase' = phase + 1 /\ rep' = rep
          /\ results' = Append(results, PhaseResult)
      BY <1>9, <2>2 DEF Collect
    <3>2. PhaseResult \in 0..ExeCnt(phase) /\ PhaseResult \in Int
      <4>1. phase \in 0..NumPhases - 1
        BY <1>a, <3>1 DEF Control, InPhase
      <4>2. ExeCnt(phase) \in Nat
        BY <1>a, <4>1, SlotFacts
      <4> QED
        BY <3>1, <4>2, ResultRange
    <3>3. /\ Len(results) = rep * NumPhases + phase
          /\ \A j \in DOMAIN results : results[j] \in 0..ExeCnt((j - 1) % NumPhases)
      BY <3>1 DEF Rows
    <3>4. Len(results') = Len(results) + 1 /\ DOMAIN results' = 1..Len(results) + 1
      BY <1>a, <3>1, <3>2
    <3>5. Len(results') = rep * NumPhases + (phase + 1)
      BY <1>a, <3>3, <3>4
    <3>6. phase \in 0..NumPhases - 1
      BY <1>a, <3>1 DEF Control, InPhase
    <3>7. ASSUME NEW j \in 1..Len(results) + 1
          PROVE  results'[j] \in 0..ExeCnt((j - 1) % NumPhases)
      <4>1. CASE j = Len(results) + 1
        <5>1. results'[j] = PhaseResult
          BY <1>a, <3>1, <3>2, <4>1
        <5>2. j - 1 = rep * NumPhases + phase
          BY <1>a, <3>3, <4>1
        <5>3. (rep * NumPhases + phase) % NumPhases = phase
          BY <1>a, <3>6, RowPosition
        <5> QED
          BY <3>2, <5>1, <5>2, <5>3
      <4>2. CASE j # Len(results) + 1
        <5>1. j \in DOMAIN results /\ results'[j] = results[j]
          BY <1>a, <3>1, <3>2, <4>2
        <5> QED
          BY <3>3, <5>1
      <4> QED
        BY <4>1, <4>2
    <3> QED
      BY <1>0, <2>2, <3>1, <3>4, <3>5, <3>7 DEF Rows
  <2> QED
    BY <1>9, <2>1, <2>2 DEF Collect
<1>10. CASE EndRepeat
  <2>1. /\ mpc = "phase" /\ phase = NumPhases /\ rep' = rep + 1 /\ results' = results
        /\ mpc' \in {"build", "print"}
    BY <1>10 DEF EndRepeat
  <2>2. rep * NumPhases + NumPhases = (rep + 1) * NumPhases + 0
    BY <1>a
  <2> QED
    BY <1>0, <2>1, <2>2 DEF Rows
<1>11. CASE PrintResult
  BY <1>11 DEF PrintResult, Rows
<1>12. ASSUME NEW w \in Threads, Ready(w) PROVE Rows'
  <2>1. UNCHANGED <<mpc, rep, phase, results>>
    BY <1>12 DEF Ready, mainVars
  <2> QED
    BY <1>0, <2>1 DEF Rows
<1>13. ASSUME NEW w \in Threads, LeaveSpin(w) PROVE Rows'
  <2>1. UNCHANGED <<mpc, rep, phase, results>>
    BY <1>13 DEF LeaveSpin, mainVars
  <2> QED
    BY <1>0, <2>1 DEF Rows
<1>14. ASSUME NEW w \in Threads, LoopHead(w) PROVE Rows'
  <2>1. UNCHANGED <<mpc, rep, phase, results>>
    BY <1>14 DEF LoopHead, mainVars
  <2> QED
    BY <1>0, <2>1 DEF Rows
<1>15. ASSUME NEW w \in Threads, Execute(w) PROVE Rows'
  <2>1. UNCHANGED <<mpc, rep, phase, results>>
    BY <1>15 DEF Execute, mainVars
  <2> QED
    BY <1>0, <2>1 DEF Rows
<1>16. ASSUME NEW w \in Threads, AfterOp(w) PROVE Rows'
  <2>1. UNCHANGED <<mpc, rep, phase, results>>
    BY <1>16 DEF AfterOp, mainVars
  <2> QED
    BY <1>0, <2>1 DEF Rows
<1>17. ASSUME NEW w \in Threads, LoopEnd(w) PROVE Rows'
  <2>1. UNCHANGED <<mpc, rep, phase, results>>
    BY <1>17 DEF LoopEnd, mainVars
  <2> QED
    BY <1>0, <2>1 DEF Rows
<1>18. ASSUME NEW w \in Threads, CountAll(w) PROVE Rows'
  <2>1. UNCHANGED <<mpc, rep, phase, results>>
    BY <1>18 DEF CountAll, mainVars
  <2> QED
    BY <1>0, <2>1 DEF Rows
<1>19. CASE UNCHANGED vars
  BY <1>0, <1>a, <1>19 DEF vars, mainVars, shared, history, Rows
<1> QED
  BY <1>1, <1>2, <1>3, <1>4, <1>5, <1>6, <1>7, <1>8, <1>9, <1>10, <1>11,
     <1>12, <1>13, <1>14, <1>15, <1>16, <1>17, <1>18, <1>19
     DEF Next, Main, Worker, Exited

-----------------------------------------------------------------------------
\* The process starts with the invariant.
LEMMA InitIInv == Init => IInv
<1> SUFFICES ASSUME Init PROVE IInv
  OBVIOUS
<1>1. args \in Workloads
  BY DEF Init
<1>2. /\ NumThreads \in Nat \ {0} /\ NumRepeats \in Nat \ {0} /\ NumPhases \in Nat
  BY <1>1, WorkloadFacts
<1>3. Typed
  <2>1. 0 \in 0..NumRuns /\ 0 \in 0..NumRepeats /\ 0 \in 0..NumPhases
    BY <1>2, DriverAssumption
  <2>2. <<>> \in Seq(Int)
    OBVIOUS
  <2> QED
    BY <1>1, <2>1, <2>2 DEF Init, Typed
<1>4. Control
  BY <1>2 DEF Init, Control, InPhase
<1>5. Progress /\ Clock /\ Counted /\ Rows
  BY DEF Init, Progress, Clock, Counted, Rows, InPhase
<1>6. ReadyCount
  BY <1>2 DEF Init, ReadyCount, InPhase
<1>7. Slots
  BY DEF Init, Slots, InPhase
<1> QED
  BY <1>3, <1>4, <1>5, <1>6, <1>7 DEF IInv

\* The invariant holds in every reachable state of the driver.
THEOREM DriverInvariant == Spec => []IInv
<1>1. IInv /\ [Next]_vars => IInv'
  BY NextTyped, NextControl, NextProgress, NextClock, NextCounted,
     NextReadyCount, NextSlots,
     NextRows DEF IInv
<1> QED
  BY <1>1, InitIInv, PTL DEF Spec

\* The types of all variables; in particular ready_threads never exceeds the
\* number of threads, and individual_ns is written inside its bounds.
THEOREM DriverTyped == Spec => []TypeOK
<1>1. IInv => TypeOK
  BY DEF IInv, Typed, ReadyCount, Slots, TypeOK
<1> QED
  BY <1>1, DriverInvariant, PTL

\* The count each worker reports is what it had finished when the clock stopped,
\* or one more.
THEOREM CountsRight == Spec => []CountWindow
<1>1. IInv => CountWindow
  <2> SUFFICES ASSUME IInv, mpc = "check", ~run_failed, NEW w \in Threads
               PROVE  op_cnt[w] \in doneAtStop[w]..doneAtStop[w] + 1
    BY DEF CountWindow
  <2>1. InPhase /\ wpc[w] = "done"
    BY DEF IInv, Control, InPhase
  <2>2. ~running /\ SinceStop(w, doneAtStop[w], idx[w] - Start(w, phase))
    BY <2>1 DEF IInv, Clock
  <2>3. doneAtStop[w] \in Nat
    BY DEF IInv, Typed
  <2> QED
    BY <2>1, <2>2, <2>3 DEF SinceStop
<1> QED
  BY <1>1, DriverInvariant, PTL

\* A worker applies its operations in order, and a repeat applies all of them.
THEOREM OperationsInOrder == Spec => []OpsInOrder
<1>1. IInv => OpsInOrder
  <2> SUFFICES ASSUME IInv PROVE OpsInOrder
    OBVIOUS
  <2>1. args \in Workloads /\ NumPhases \in Nat
    BY WorkloadFacts DEF IInv, Typed
  <2>2. ASSUME NEW w \in Threads, wpc[w] = "op" PROVE applied[w] = idx[w]
    <3>1. InPiece(w)
      BY <2>2, InLoop DEF IInv
    <3> QED
      BY <2>2, <3>1 DEF InPiece
  <2>3. ASSUME mpc = "phase", phase = NumPhases, ~BuildOnly, NEW w \in Threads
        PROVE  applied[w] = Len(Ops[w])
    <3>1. NumPhases > 0
      <4>1. NumBlocks \in Nat \ {0} /\ Flag \in {0, 1}
        BY <2>1, WorkloadFacts
      <4>2. Flag = 0 \/ Flag = 1
        BY <4>1
      <4> QED
        BY <2>3, <4>1, <4>2 DEF NumPhases
    <3>2. applied[w] = Limit(w, NumPhases - 1)
      BY <2>1, <2>3, <3>1 DEF IInv, Progress
    <3> QED
      BY <2>1, <3>1, <3>2, LastBound
  <2> QED
    BY <2>2, <2>3 DEF OpsInOrder
<1> QED
  BY <1>1, DriverInvariant, PTL

\* No lookup of a workload that is not mixed runs before an insert of any thread.
THEOREM InsertsBeforeLookups == Spec => []LookupsSeeAllInserts
<1>1. IInv => LookupsSeeAllInserts
  <2> SUFFICES ASSUME IInv, Flag = 0, NumBlocks = 1, NEW w \in Threads, NEW u \in Threads,
                      wpc[w] = "op", Ops[w][idx[w] + 1] # INSERT,
                      NEW j \in 1..Len(Ops[u]), Ops[u][j] = INSERT
               PROVE  applied[u] >= j
    BY DEF LookupsSeeAllInserts
  <2>1. args \in Workloads
    BY DEF IInv, Typed
  <2>2. /\ phase \in 0..NumPhases - 1 /\ InPiece(w) /\ InPiece(u)
        /\ idx[w] \in Nat /\ idx[u] \in Nat /\ applied[u] \in Nat
    BY InLoop DEF IInv
  <2>3. /\ \A k \in 0..InsertBound(w) - 1 : Ops[w][k + 1] = INSERT
        /\ j <= InsertBound(u)
    BY <2>1, InsertPhase
  <2>4. phase \in {0, 1}
    BY <2>2 DEF NumPhases
  <2>5. InsertBound(w) \in 0..Len(Ops[w]) /\ InsertBound(u) \in 0..Len(Ops[u])
    BY <2>1, InsertBoundFacts
  <2>6. phase # 0
    <3> SUFFICES ASSUME phase = 0 PROVE FALSE
      OBVIOUS
    <3>1. Limit(w, phase) = InsertBound(w)
      BY DEF Limit
    <3>2. idx[w] \in 0..InsertBound(w) - 1
      BY <2>2, <2>5, <3>1 DEF InPiece
    <3> QED
      BY <2>3, <3>2
  <2>7. Start(u, phase) = InsertBound(u)
    BY <2>4, <2>6 DEF Start
  <2> QED
    BY <2>2, <2>3, <2>5, <2>7 DEF InPiece
<1> QED
  BY <1>1, DriverInvariant, PTL

\* The latency statistics of a phase read slots that this phase has written.
THEOREM LatenciesFresh == Spec => []SlotsFresh
<1>1. IInv => SlotsFresh
  <2> SUFFICES ASSUME IInv, mpc = "check", ~run_failed, ~Through
               PROVE  /\ ExeCnt(phase) <= SlotCount
                      /\ \A x \in 0..ExeCnt(phase) - 1 : ns[x] = <<rep, phase>>
    BY DEF SlotsFresh
  <2>1. args \in Workloads /\ InPhase /\ phase \in 0..NumPhases - 1
    BY WorkloadFacts DEF IInv, Typed, Control, InPhase
  <2>2. ExeCnt(phase) <= SlotCount
    BY <2>1, SlotFacts
  <2>3. ASSUME NEW x \in 0..ExeCnt(phase) - 1 PROVE ns[x] = <<rep, phase>>
    <3>1. PICK w \in Threads :
            /\ SlotBase(w, phase) <= x
            /\ x < SlotBase(w, phase) + (Limit(w, phase) - Start(w, phase))
      BY <2>1, SlotFacts
    <3>2. SlotBase(w, phase) \in Nat /\ Limit(w, phase) \in Nat /\ Start(w, phase) \in Nat
      BY <2>1, SlotFacts, PhaseBounds
    <3>3. idx[w] = Limit(w, phase)
      BY <2>1 DEF IInv, Control, Progress, InPiece
    <3>4. ExeCnt(phase) \in Nat
      BY <2>1, SlotFacts
    <3> DEFINE k == x - SlotBase(w, phase)
    <3>5. k \in 0..idx[w] - Start(w, phase) - 1 /\ x = SlotBase(w, phase) + k
      BY <3>1, <3>2, <3>3, <3>4
    <3>6. \A m \in 0..idx[w] - Start(w, phase) - 1 : ns[SlotBase(w, phase) + m] = <<rep, phase>>
      BY <2>1 DEF IInv, Slots
    <3> QED
      BY <3>5, <3>6
  <2> QED
    BY <2>2, <2>3
<1> QED
  BY <1>1, DriverInvariant, PTL

\* The row that is printed holds one result per repeat and phase, none larger
\* than the phase.
THEOREM RowsComplete == Spec => []RowComplete
<1>1. IInv => RowComplete
  <2> SUFFICES ASSUME IInv, mpc = "print"
               PROVE  /\ Len(results) = NumRepeats * NumPhases
                      /\ \A k \in DOMAIN results : results[k] \in 0..ExeCnt((k - 1) % NumPhases)
    BY DEF RowComplete
  <2>1. /\ Len(results) = rep * NumPhases + 0 /\ rep = NumRepeats
        /\ \A k \in DOMAIN results : results[k] \in 0..ExeCnt((k - 1) % NumPhases)
    BY DEF IInv, Rows, Control
  <2>2. NumRepeats * NumPhases \in Nat
    BY WorkloadFacts DEF IInv, Typed
  <2> QED
    BY <2>1, <2>2
<1> QED
  BY <1>1, DriverInvariant, PTL
=============================================================================
