-------------------------- MODULE XIndexRootLemmas --------------------------
(***************************************************************************)
(* What the argument about XIndexRoot rests on: the searches that locate a *)
(* slot, chains of groups, the pools groups are allocated in, the shares   *)
(* of the adjusters, the sorted keys of a set, the listing that makes the  *)
(* slots of a new root; and the inductive invariants made of them.         *)
(*                                                                         *)
(* Chains are described by numbers and not by paths: z[g] is the slot that *)
(* group g hangs off, p[g] grows along a chain.  With z and p, whether the *)
(* links form chains is a matter of single links, and a step that writes   *)
(* one link leaves the others as they are.                                 *)
(*                                                                         *)
(* RootInv: a round has every adjuster either called, at work or finished, *)
(* and only one of these; so finished = Bg means that nobody is at work,   *)
(* and the master replaces the root alone.  A worker that holds the        *)
(* replaced root was inside its call when the barrier of the master began, *)
(* and the barrier has not passed while it still is.                       *)
(*                                                                         *)
(* GroupInv: outside of trim_root every group in memory hangs off one slot *)
(* of the root, through one chain, or belongs to one adjuster, which has   *)
(* not published it yet or has unlinked it and waits to free it.  An       *)
(* adjuster writes only links of groups that hang off its share of the     *)
(* slots.  A call that holds an unlinked group was inside when the barrier *)
(* of the adjuster began; what a call reads from a group that will not be  *)
(* freed will not be freed either.                                         *)
(***************************************************************************)
EXTENDS XIndexRoot, FiniteSetTheorems, WellFoundedInduction, TLAPS

-----------------------------------------------------------------------------
(***************************************************************************)
(* The searches are exact, for arrays of any length, any key and any guess *)
(* of the model: in a sorted array they return the first position that is  *)
(* not before the key.  In an array that is not sorted they still return   *)
(* a position, or the end.                                                 *)
(*                                                                         *)
(* All of them are loops, written as functions f with f[x] = out[x] where  *)
(* the loop stops at x and f[x] = f[step[x]] where it goes on.  A measure  *)
(* of what is left to search is finite and gets smaller with every step;   *)
(* so such a function exists, and what holds where the loop stops and is   *)
(* passed on backwards by a step holds of every result.                    *)
(***************************************************************************)

\* What holds of x when it holds of all elements with a smaller measure, holds
\* of all elements.
LEMMA MeasureInduction ==
  ASSUME NEW D, NEW m \in [D -> Nat], NEW S,
         \A x \in D : (\A y \in D : m[y] < m[x] => y \in S) => x \in S
  PROVE  D \subseteq S
<1> DEFINE Bad == {x \in D : x \notin S}
           M == {m[x] : x \in Bad}
<1> SUFFICES ASSUME Bad # {} PROVE FALSE
  OBVIOUS
<1>1. M \in SUBSET Nat /\ M # {}
  OBVIOUS
<1>2. PICK k \in M : \A j \in M : ~(<<j, k>> \in OpToRel(<, Nat))
  <2> HIDE DEF M
  <2> QED
    BY <1>1, WFMin, NatLessThanWellFounded
<1>3. PICK x \in Bad : k = m[x]
  BY <1>2
<1>4. \A y \in Bad : ~(m[y] < m[x])
  <2> SUFFICES ASSUME NEW y \in Bad, m[y] < m[x] PROVE FALSE
    OBVIOUS
  <2>1. m[y] \in M /\ m[y] \in Nat /\ m[x] \in Nat
    OBVIOUS
  <2> QED
    BY <1>2, <1>3, <2>1 DEF OpToRel
<1> QED
  BY <1>3, <1>4

\* Induction over the numbers up to n.
LEMMA Induction ==
  ASSUME NEW n \in Nat, NEW S, 0 \in S, \A k \in 0..n - 1 : k \in S => k + 1 \in S
  PROVE  \A k \in 0..n : k \in S
<1> DEFINE D == 0..n
           m == [k \in D |-> k]
<1>1. m \in [D -> Nat] /\ \A k \in D : m[k] = k
  OBVIOUS
<1> HIDE DEF m
<1>2. ASSUME NEW k \in D, \A j \in D : m[j] < m[k] => j \in S PROVE k \in S
  <2>1. CASE k = 0
    BY <2>1
  <2>2. CASE k # 0
    <3>1. k - 1 \in 0..n - 1 /\ k - 1 \in 0..n /\ k - 1 < k /\ k - 1 + 1 = k
      BY <2>2
    <3>2. k - 1 \in S
      BY <1>1, <1>2, <3>1
    <3> QED
      BY <3>1, <3>2
  <2> QED
    BY <2>1, <2>2
<1>3. D \subseteq S
  <2> HIDE DEF D
  <2> QED
    BY <1>1, <1>2, MeasureInduction
<1> QED
  BY <1>3

\* The loop that stops in Stop, and otherwise goes from x to step[x]; m is at most
\* N and decreases.
Loop(D, Stop, step, N, m) ==
  /\ N \in Nat /\ m \in [D -> 0..N]
  /\ \A x \in D \ Stop : step[x] \in D /\ m[step[x]] < m[x]

\* f returns what the loop returns.
Runs(f, D, Stop, out, step) ==
  \A x \in D : f[x] = IF x \in Stop THEN out[x] ELSE f[step[x]]

\* The pairs in Good are of a place and a right result: those where the loop
\* stops are, and a result that is right after a step was so before.
Traced(f, D, Stop, out, step, Good) ==
  /\ \A x \in D \cap Stop : <<x, out[x]>> \in Good
  /\ \A x \in D \ Stop : <<step[x], f[step[x]]>> \in Good => <<x, f[step[x]]>> \in Good

\* A loop that makes progress is a function.
LEMMA LoopExists ==
  ASSUME NEW D, NEW Stop, NEW out, NEW step, NEW N, NEW m, Loop(D, Stop, step, N, m)
  PROVE  \E f : Runs(f, D, Stop, out, step)
<1> USE DEF Loop
<1> DEFINE Body(f, x) == IF x \in Stop THEN out[x] ELSE f[step[x]]
           Part(f, k) == \A x \in D : m[x] < k => f[x] = Body(f, x)
           S == {k \in Nat : \E f : Part(f, k)}
<1>1. 0 \in S
  <2>1. Part([x \in D |-> 0], 0)
    OBVIOUS
  <2> QED
    BY <2>1
<1>2. ASSUME NEW k \in Nat, k \in S PROVE k + 1 \in S
  <2>1. PICK f : Part(f, k)
    BY <1>2
  <2> DEFINE g == [x \in D |-> IF m[x] < k THEN f[x] ELSE Body(f, x)]
  <2>2. ASSUME NEW x \in D, m[x] < k + 1 PROVE g[x] = Body(g, x)
    <3>1. g[x] = Body(f, x)
      BY <2>1
    <3>2. CASE x \in Stop
      BY <3>1, <3>2
    <3>3. CASE x \notin Stop
      <4>1. step[x] \in D /\ m[step[x]] < k
        BY <2>2, <3>3
      <4>2. g[step[x]] = f[step[x]]
        BY <4>1
      <4> QED
        BY <3>1, <3>3, <4>2
    <3> QED
      BY <3>2, <3>3
  <2>3. Part(g, k + 1)
    BY <2>2
  <2> HIDE DEF Part, g
  <2> QED
    BY <2>3
<1>3. N + 1 \in S
  <2> HIDE DEF S
  <2>1. \A k \in 0..N + 1 : k \in S
    BY <1>1, <1>2, Induction
  <2> QED
    BY <2>1
<1>4. PICK f : Part(f, N + 1)
  BY <1>3
<1>5. \A x \in D : f[x] = Body(f, x)
  BY <1>4
<1>6. Runs(f, D, Stop, out, step)
  BY <1>5 DEF Runs
<1> QED
  BY <1>6

\* All that the loop returns is right.
LEMMA LoopResult ==
  ASSUME NEW D, NEW Stop, NEW out, NEW step, NEW N, NEW m, Loop(D, Stop, step, N, m),
         NEW f, Runs(f, D, Stop, out, step),
         NEW Good, Traced(f, D, Stop, out, step, Good)
  PROVE  \A x \in D : <<x, f[x]>> \in Good
<1> USE DEF Loop, Runs, Traced
<1> DEFINE S == {x \in D : <<x, f[x]>> \in Good}
<1>1. m \in [D -> Nat]
  OBVIOUS
<1>2. ASSUME NEW x \in D, \A y \in D : m[y] < m[x] => y \in S PROVE x \in S
  <2>1. CASE x \in Stop
    BY <2>1
  <2>2. CASE x \notin Stop
    <3>1. step[x] \in S
      BY <1>2, <2>2
    <3> QED
      BY <2>2, <3>1
  <2> QED
    BY <2>1, <2>2
<1>3. D \subseteq S
  <2> HIDE DEF S
  <2> QED
    BY <1>1, <1>2, MeasureInduction
<1> QED
  BY <1>3

-----------------------------------------------------------------------------
\* lower_bound_ and upper_bound_ stay in their range, and find the end of B there.
LEMMA HalveFinds ==
  ASSUME NEW B, NEW first \in Int, NEW last \in Int, first <= last
  PROVE  /\ Halve(B, first, last) \in first..last
         /\ \A k \in first..last : B = 0..k - 1 /\ first >= 0 => Halve(B, first, last) = k
<1> DEFINE D == (first..last) \X (first..last)
           mid(r) == r[1] + (r[2] - r[1]) \div 2
           Stop == {r \in D : r[1] >= r[2]}
           out == [r \in D |-> r[1]]
           step == [r \in D |-> IF mid(r) \in B THEN <<mid(r) + 1, r[2]>>
                                                ELSE <<r[1], mid(r)>>]
           m == [r \in D |-> IF r[1] >= r[2] THEN 0 ELSE r[2] - r[1]]
           N == last - first
           Rec(f) == f = [r \in D |-> IF r[1] >= r[2] THEN r[1]
                                      ELSE IF mid(r) \in B THEN f[<<mid(r) + 1, r[2]>>]
                                      ELSE f[<<r[1], mid(r)>>]]
<1>1. ASSUME NEW r \in D
      PROVE  /\ r[1] \in first..last /\ r[2] \in first..last
             /\ r[1] < r[2] => mid(r) \in first..last - 1 /\ r[1] <= mid(r) /\ mid(r) < r[2]
  OBVIOUS
<1>2. N \in Nat /\ m \in [D -> 0..N]
  <2>1. N \in Nat
    OBVIOUS
  <2>2. ASSUME NEW r \in D
        PROVE  (IF r[1] >= r[2] THEN 0 ELSE r[2] - r[1]) \in 0..N
    OBVIOUS
  <2> QED
    BY <2>1, <2>2
<1>3. ASSUME NEW r \in D \ Stop PROVE step[r] \in D /\ m[step[r]] < m[r]
  <2>1. r[1] < r[2] /\ m[r] = r[2] - r[1]
    BY <1>1
  <2>2. CASE mid(r) \in B
    <3>1. step[r] = <<mid(r) + 1, r[2]>> /\ <<mid(r) + 1, r[2]>> \in D
      BY <1>1, <2>1, <2>2
    <3>2. m[step[r]] \in {0, r[2] - (mid(r) + 1)}
      BY <3>1
    <3>3. 0 < r[2] - r[1] /\ r[2] - (mid(r) + 1) < r[2] - r[1]
      <4> HIDE DEF D
      <4> QED
        BY <1>1, <2>1
    <3> QED
      BY <2>1, <3>1, <3>2, <3>3
  <2>3. CASE mid(r) \notin B
    <3>1. step[r] = <<r[1], mid(r)>> /\ <<r[1], mid(r)>> \in D
      BY <1>1, <2>1, <2>3
    <3>2. m[step[r]] \in {0, mid(r) - r[1]}
      BY <3>1
    <3> QED
      BY <1>1, <2>1, <3>1, <3>2
  <2> QED
    BY <2>2, <2>3
<1>4. Loop(D, Stop, step, N, m)
  <2> HIDE DEF N, D, Stop, step, m
  <2> QED
    BY <1>2, <1>3 DEF Loop
<1> HIDE DEF m, N
<1>a. PICK f : Runs(f, D, Stop, out, step)
  <2> HIDE DEF D, Stop, out, step
  <2> QED
    BY <1>4, LoopExists, Zenon
<1> DEFINE g == [r \in D |-> f[r]]
<1>5. Rec(g)
  <2>1. ASSUME NEW r \in D
        PROVE  g[r] = IF r[1] >= r[2] THEN r[1]
                      ELSE IF mid(r) \in B THEN g[<<mid(r) + 1, r[2]>>]
                      ELSE g[<<r[1], mid(r)>>]
    BY <1>3, <1>a DEF Runs
  <2>2. g = [r \in D |-> g[r]]
    OBVIOUS
  <2> QED
    BY <2>1, <2>2
<1> DEFINE it == CHOOSE c : Rec(c)
<1>6. Rec(it)
  <2> HIDE DEF Rec
  <2> QED
    BY <1>5
<1>7. Halve(B, first, last) = it[<<first, last>>]
  BY Zenon DEF Halve
<1> HIDE DEF it
<1>8. Runs(it, D, Stop, out, step)
  BY <1>6 DEF Runs
<1>9. <<first, last>> \in D
  OBVIOUS
<1> DEFINE Right(r, v) ==
             \A k \in first..last :
               B = 0..k - 1 /\ first >= 0 /\ r[1] <= k /\ k <= r[2] => v = k
           Good == {p \in D \X (first..last) : Right(p[1], p[2])}
<1>10. ASSUME NEW r \in D \cap Stop PROVE <<r, out[r]>> \in Good
  BY <1>1
<1>11. ASSUME NEW r \in D \ Stop, <<step[r], it[step[r]]>> \in Good
       PROVE  <<r, it[step[r]]>> \in Good
  <2>1. r[1] < r[2] /\ Right(step[r], it[step[r]]) /\ it[step[r]] \in first..last
    <3>1. r[1] < r[2]
      BY <1>1
    <3>2. <<step[r], it[step[r]]>>[1] = step[r] /\ <<step[r], it[step[r]]>>[2] = it[step[r]]
      OBVIOUS
    <3>3. Right(step[r], it[step[r]]) /\ it[step[r]] \in first..last
      <4> HIDE DEF Right, D, step
      <4> QED
        BY <1>11, <3>2
    <3> QED
      BY <3>1, <3>3
  <2>2. ASSUME NEW k \in first..last, B = 0..k - 1, first >= 0, r[1] <= k, k <= r[2]
        PROVE  step[r][1] <= k /\ k <= step[r][2]
    <3>1. CASE mid(r) \in B
      <4>1. step[r] = <<mid(r) + 1, r[2]>> /\ mid(r) <= k - 1
        BY <2>2, <3>1
      <4> QED
        BY <1>1, <2>1, <2>2, <4>1
    <3>2. CASE mid(r) \notin B
      <4>1. step[r] = <<r[1], mid(r)>> /\ ~(mid(r) <= k - 1)
        BY <1>1, <2>1, <2>2, <3>2
      <4> QED
        BY <1>1, <2>1, <2>2, <4>1
    <3> QED
      BY <3>1, <3>2
  <2>3. Right(r, it[step[r]])
    <3> HIDE DEF step, D
    <3> QED
      BY <2>1, <2>2
  <2> HIDE DEF Right
  <2> QED
    BY <2>1, <2>3
<1>12. Traced(it, D, Stop, out, step, Good)
  <2> HIDE DEF D, Stop, out, step, Good
  <2> QED
    BY <1>10, <1>11 DEF Traced
<1>13. \A r \in D : <<r, it[r]>> \in Good
  <2> HIDE DEF D, Stop, out, step, Good
  <2> QED
    BY <1>4, <1>8, <1>12, LoopResult, Zenon
<1>14. LET p == <<first, last>> IN it[p] \in first..last /\ Right(p, it[p])
  <2> HIDE DEF D, Right
  <2> QED
    BY <1>9, <1>13
<1> QED
  BY <1>7, <1>14

\* Linear search to the right of a position stops at the end of B.
LEMMA WalkRightFinds ==
  ASSUME NEW n \in Nat, NEW B, NEW start \in 0..n
  PROVE  /\ WalkRight(B, n, start) \in start..n
         /\ \A k \in start..n : B = 0..k - 1 => WalkRight(B, n, start) = k
<1> DEFINE D == 0..n
           Stop == {x \in D : ~(x # n /\ x \in B)}
           out == [x \in D |-> x]
           step == [x \in D |-> x + 1]
           m == [x \in D |-> n - x]
           N == n
           Rec(f) == f = [x \in D |-> IF x # n /\ x \in B THEN f[x + 1] ELSE x]
<1>1. N \in Nat /\ m \in [D -> 0..N]
  OBVIOUS
<1>2. ASSUME NEW x \in D \ Stop PROVE step[x] \in D /\ m[step[x]] < m[x]
  <2>1. x \in D /\ step[x] = x + 1 /\ x + 1 \in D
    OBVIOUS
  <2>2. m[x] = n - x /\ m[step[x]] = n - (x + 1)
    BY <2>1
  <2> QED
    BY <2>1, <2>2
<1>3. Loop(D, Stop, step, N, m)
  <2> HIDE DEF N, D, Stop, step, m
  <2> QED
    BY <1>1, <1>2 DEF Loop
<1> HIDE DEF m, N
<1>4. PICK f : Runs(f, D, Stop, out, step)
  <2> HIDE DEF D, Stop, out, step
  <2> QED
    BY <1>3, LoopExists, Zenon
<1> DEFINE g == [x \in D |-> f[x]]
<1>5. Rec(g)
  <2>1. ASSUME NEW x \in D
        PROVE  g[x] = IF x # n /\ x \in B THEN g[x + 1] ELSE x
    <3>1. CASE x \in Stop
      BY <1>4, <3>1 DEF Runs
    <3>2. CASE x \notin Stop
      <4>1. step[x] \in D /\ step[x] = x + 1
        BY <1>2, <3>2
      <4>2. f[x] = f[step[x]] /\ g[x] = f[x] /\ g[step[x]] = f[step[x]]
        <5> HIDE DEF step, Stop
        <5> QED
          BY <1>4, <3>2, <4>1 DEF Runs
      <4> QED
        BY <3>2, <4>1, <4>2
    <3> QED
      BY <3>1, <3>2
  <2>2. g = [x \in D |-> g[x]]
    OBVIOUS
  <2> HIDE DEF g
  <2> QED
    BY <2>1, <2>2
<1> DEFINE it == CHOOSE c : Rec(c)
<1>6. Rec(it)
  <2> HIDE DEF Rec
  <2> QED
    BY <1>5
<1>7. WalkRight(B, n, start) = it[start]
  BY Zenon DEF WalkRight
<1> HIDE DEF it
<1>8. Runs(it, D, Stop, out, step)
  BY <1>6 DEF Runs
<1> DEFINE Good == {p \in D \X D : p[1] <= p[2] /\ \A k \in p[1]..n : B = 0..k - 1 => p[2] = k}
<1>9. ASSUME NEW x \in D \cap Stop PROVE <<x, out[x]>> \in Good
  OBVIOUS
<1>10. ASSUME NEW x \in D \ Stop, <<step[x], it[step[x]]>> \in Good
       PROVE  <<x, it[step[x]]>> \in Good
  <2> DEFINE v == it[step[x]]
  <2>1. v \in D /\ x + 1 <= v /\ \A k \in x + 1..n : B = 0..k - 1 => v = k
    <3>1. step[x] = x + 1
      OBVIOUS
    <3>2. <<x + 1, v>> \in Good
      <4> HIDE DEF Good, step
      <4> QED
        BY <1>10, <3>1
    <3> HIDE DEF v
    <3> QED
      BY <3>2
  <2> HIDE DEF v
  <2>2. <<x, v>> \in Good
    BY <2>1
  <2> QED
    BY <2>2 DEF v
<1>11. Traced(it, D, Stop, out, step, Good)
  <2> HIDE DEF D, Stop, out, step, Good
  <2> QED
    BY <1>9, <1>10 DEF Traced
<1>12. \A x \in D : <<x, it[x]>> \in Good
  <2> HIDE DEF D, Stop, out, step, Good
  <2> QED
    BY <1>3, <1>8, <1>11, LoopResult, Zenon
<1>13. <<start, it[start]>> \in Good
  <2> HIDE DEF Good
  <2> QED
    BY <1>12
<1> QED
  BY <1>7, <1>13

\* Linear search to the left of a position does, too.
LEMMA WalkLeftFinds ==
  ASSUME NEW n \in Nat, NEW B, NEW start \in 0..n
  PROVE  /\ WalkLeft(B, n, start) \in 0..start
         /\ \A k \in 0..start : B = 0..k - 1 => WalkLeft(B, n, start) = k
<1> DEFINE D == 0..n
           Stop == {x \in D : ~(x # 0 /\ x - 1 \notin B)}
           out == [x \in D |-> x]
           step == [x \in D |-> x - 1]
           m == [x \in D |-> x]
           N == n
           Rec(f) == f = [x \in D |-> IF x # 0 /\ x - 1 \notin B THEN f[x - 1] ELSE x]
<1>1. N \in Nat /\ m \in [D -> 0..N]
  OBVIOUS
<1>2. ASSUME NEW x \in D \ Stop PROVE step[x] \in D /\ m[step[x]] < m[x]
  <2>1. x \in D /\ step[x] = x - 1 /\ x - 1 \in D
    OBVIOUS
  <2>2. m[x] = x /\ m[step[x]] = x - 1
    BY <2>1
  <2> QED
    BY <2>1, <2>2
<1>3. Loop(D, Stop, step, N, m)
  <2> HIDE DEF N, D, Stop, step, m
  <2> QED
    BY <1>1, <1>2 DEF Loop
<1> HIDE DEF m, N
<1>4. PICK f : Runs(f, D, Stop, out, step)
  <2> HIDE DEF D, Stop, out, step
  <2> QED
    BY <1>3, LoopExists, Zenon
<1> DEFINE g == [x \in D |-> f[x]]
<1>5. Rec(g)
  <2>1. ASSUME NEW x \in D
        PROVE  g[x] = IF x # 0 /\ x - 1 \notin B THEN g[x - 1] ELSE x
    <3>1. CASE x \in Stop
      BY <1>4, <3>1 DEF Runs
    <3>2. CASE x \notin Stop
      <4>1. step[x] \in D /\ step[x] = x - 1
        BY <1>2, <3>2
      <4>2. f[x] = f[step[x]] /\ g[x] = f[x] /\ g[step[x]] = f[step[x]]
        <5> HIDE DEF step, Stop
        <5> QED
          BY <1>4, <3>2, <4>1 DEF Runs
      <4> QED
        BY <3>2, <4>1, <4>2
    <3> QED
      BY <3>1, <3>2
  <2>2. g = [x \in D |-> g[x]]
    OBVIOUS
  <2> HIDE DEF g
  <2> QED
    BY <2>1, <2>2
<1> DEFINE it == CHOOSE c : Rec(c)
<1>6. Rec(it)
  <2> HIDE DEF Rec
  <2> QED
    BY <1>5
<1>7. WalkLeft(B, n, start) = it[start]
  BY Zenon DEF WalkLeft
<1> HIDE DEF it
<1>8. Runs(it, D, Stop, out, step)
  BY <1>6 DEF Runs
<1> DEFINE Good == {p \in D \X D : p[2] <= p[1] /\ \A k \in 0..p[1] : B = 0..k - 1 => p[2] = k}
<1>9. ASSUME NEW x \in D \cap Stop PROVE <<x, out[x]>> \in Good
  OBVIOUS
<1>10. ASSUME NEW x \in D \ Stop, <<step[x], it[step[x]]>> \in Good
       PROVE  <<x, it[step[x]]>> \in Good
  <2> DEFINE v == it[step[x]]
  <2>1. v \in D /\ v <= x - 1 /\ \A k \in 0..x - 1 : B = 0..k - 1 => v = k
    <3>1. step[x] = x - 1
      OBVIOUS
    <3>2. <<x - 1, v>> \in Good
      <4> HIDE DEF Good, step
      <4> QED
        BY <1>10, <3>1
    <3> HIDE DEF v
    <3> QED
      BY <3>2
  <2> HIDE DEF v
  <2>2. <<x, v>> \in Good
    BY <2>1
  <2> QED
    BY <2>2 DEF v
<1>11. Traced(it, D, Stop, out, step, Good)
  <2> HIDE DEF D, Stop, out, step, Good
  <2> QED
    BY <1>9, <1>10 DEF Traced
<1>12. \A x \in D : <<x, it[x]>> \in Good
  <2> HIDE DEF D, Stop, out, step, Good
  <2> QED
    BY <1>3, <1>8, <1>11, LoopResult, Zenon
<1>13. <<start, it[start]>> \in Good
  <2> HIDE DEF Good
  <2> QED
    BY <1>12
<1> QED
  BY <1>7, <1>13

\* Doubling steps to the right put the end of B between two positions.
LEMMA GallopRightFinds ==
  ASSUME NEW n \in Nat, NEW B, NEW start \in 0..n, start < n
  PROVE  \E a, c \in 0..n :
           /\ GallopRight(B, n, start) = <<a, c>> /\ a <= c
           /\ \A k \in start + 1..n : B = 0..k - 1 => k \in a..c
<1> DEFINE D == 1..n - start
           Stop == {x \in D : x > (n - start) \div 2 \/ start + (x - 1) + x \notin B}
           out == [x \in D |-> IF x > (n - start) \div 2 THEN <<start + (x - 1) + 1, n>>
                               ELSE <<start + (x - 1) + 1, start + (x - 1) + x>>]
           step == [x \in D |-> 2 * x]
           m == [x \in D |-> n - x]
           N == n
           Rec(f) == f = [x \in D |-> IF x > (n - start) \div 2 THEN <<start + (x - 1) + 1, n>>
                                      ELSE IF start + (x - 1) + x \notin B
                                           THEN <<start + (x - 1) + 1, start + (x - 1) + x>>
                                      ELSE f[2 * x]]
<1>1. N \in Nat /\ m \in [D -> 0..N]
  OBVIOUS
<1>2. ASSUME NEW x \in D \ Stop PROVE step[x] \in D /\ m[step[x]] < m[x]
  <2>1. x \in D /\ step[x] = 2 * x /\ 2 * x \in D
    OBVIOUS
  <2>2. m[x] = n - x /\ m[step[x]] = n - 2 * x
    BY <2>1
  <2> QED
    BY <2>1, <2>2
<1>3. Loop(D, Stop, step, N, m)
  <2> HIDE DEF N, D, Stop, step, m
  <2> QED
    BY <1>1, <1>2 DEF Loop
<1> HIDE DEF m, N
<1>4. PICK f : Runs(f, D, Stop, out, step)
  <2> HIDE DEF D, Stop, out, step
  <2> QED
    BY <1>3, LoopExists, Zenon
<1> DEFINE g == [x \in D |-> f[x]]
<1>5. Rec(g)
  <2>1. ASSUME NEW x \in D
        PROVE  g[x] = IF x > (n - start) \div 2 THEN <<start + (x - 1) + 1, n>>
                      ELSE IF start + (x - 1) + x \notin B
                           THEN <<start + (x - 1) + 1, start + (x - 1) + x>>
                      ELSE g[2 * x]
    <3>1. CASE x \in Stop
      BY <1>4, <3>1 DEF Runs
    <3>2. CASE x \notin Stop
      <4>1. step[x] \in D /\ step[x] = 2 * x
        BY <1>2, <3>2
      <4>2. f[x] = f[step[x]] /\ g[x] = f[x] /\ g[step[x]] = f[step[x]]
        <5> HIDE DEF step, Stop
        <5> QED
          BY <1>4, <3>2, <4>1 DEF Runs
      <4> QED
        BY <3>2, <4>1, <4>2
    <3> QED
      BY <3>1, <3>2
  <2>2. g = [x \in D |-> g[x]]
    OBVIOUS
  <2> HIDE DEF g
  <2> QED
    BY <2>1, <2>2
<1> DEFINE it == CHOOSE c : Rec(c)
<1>6. Rec(it)
  <2> HIDE DEF Rec
  <2> QED
    BY <1>5
<1>7. GallopRight(B, n, start) = it[1]
  BY Zenon DEF GallopRight
<1> HIDE DEF it
<1>8. Runs(it, D, Stop, out, step)
  BY <1>6 DEF Runs
<1> DEFINE Good == {p \in D \X ((0..n) \X (0..n)) :
             /\ p[2][1] <= p[2][2]
             /\ \A k \in start + p[1]..n : B = 0..k - 1 => k \in p[2][1]..p[2][2]}
<1>9. ASSUME NEW x \in D \cap Stop PROVE <<x, out[x]>> \in Good
  <2>1. CASE x > (n - start) \div 2
    <3>1. out[x] = <<start + (x - 1) + 1, n>>
      BY <2>1
    <3> HIDE DEF out
    <3> QED
      BY <2>1, <3>1
  <2>2. CASE ~(x > (n - start) \div 2) /\ start + (x - 1) + x \notin B
    <3>1. out[x] = <<start + (x - 1) + 1, start + (x - 1) + x>>
      BY <2>2
    <3> HIDE DEF out
    <3> QED
      BY <2>2, <3>1
  <2> QED
    BY <2>1, <2>2
<1>10. ASSUME NEW x \in D \ Stop, <<step[x], it[step[x]]>> \in Good
       PROVE  <<x, it[step[x]]>> \in Good
  <2> DEFINE v == it[step[x]]
  <2>1. /\ v \in (0..n) \X (0..n) /\ v[1] <= v[2]
        /\ \A k \in start + 2 * x..n : B = 0..k - 1 => k \in v[1]..v[2]
    <3>1. step[x] = 2 * x
      OBVIOUS
    <3>2. <<2 * x, v>> \in Good
      <4> HIDE DEF Good, step
      <4> QED
        BY <1>10, <3>1
    <3> HIDE DEF v
    <3> QED
      BY <3>2
  <2> HIDE DEF v
  <2>2. <<x, v>> \in Good
    <3>1. x \in D /\ start + (x - 1) + x \in B
      OBVIOUS
    <3>2. ASSUME NEW k \in start + x..n, B = 0..k - 1 PROVE k \in start + 2 * x..n
      BY <3>1, <3>2
    <3> QED
      BY <2>1, <3>1, <3>2
  <2> QED
    BY <2>2 DEF v
<1>11. Traced(it, D, Stop, out, step, Good)
  <2> HIDE DEF D, Stop, out, step, Good
  <2> QED
    BY <1>9, <1>10 DEF Traced
<1>12. \A x \in D : <<x, it[x]>> \in Good
  <2> HIDE DEF D, Stop, out, step, Good
  <2> QED
    BY <1>3, <1>8, <1>11, LoopResult, Zenon
<1>13. <<1, it[1]>> \in Good
  <2> HIDE DEF Good
  <2> QED
    BY <1>12
<1> DEFINE v == it[1]
<1>14. /\ v \in (0..n) \X (0..n) /\ v[1] <= v[2]
       /\ \A k \in start + 1..n : B = 0..k - 1 => k \in v[1]..v[2]
  <2>1. <<1, v>> \in Good
    BY <1>13
  <2> HIDE DEF v
  <2> QED
    BY <2>1
<1>15. v = <<v[1], v[2]>> /\ v[1] \in 0..n /\ v[2] \in 0..n
  <2> HIDE DEF v
  <2> QED
    BY <1>14
<1>16. GallopRight(B, n, start) = <<v[1], v[2]>>
  BY <1>7, <1>15 DEF v
<1> HIDE DEF v
<1> QED
  BY <1>14, <1>15, <1>16

\* Doubling steps to the left do, too.
LEMMA GallopLeftFinds ==
  ASSUME NEW n \in Nat, NEW B, NEW start \in 0..n
  PROVE  \E a, c \in 0..n :
           /\ GallopLeft(B, n, start) = <<a, c>> /\ a <= c
           /\ \A k \in 0..start : B = 0..k - 1 => k \in a..c
<1> DEFINE D == 1..start + 1
           Stop == {x \in D : x > (start + 1) \div 2 \/ start - (x - 1) - x \in B}
           out == [x \in D |-> IF x > (start + 1) \div 2 THEN <<0, start - (x - 1)>>
                               ELSE <<start - (x - 1) - x + 1, start - (x - 1)>>]
           step == [x \in D |-> 2 * x]
           m == [x \in D |-> start + 1 - x]
           N == start + 1
           Rec(f) == f = [x \in D |-> IF x > (start + 1) \div 2 THEN <<0, start - (x - 1)>>
                                      ELSE IF start - (x - 1) - x \in B
                                           THEN <<start - (x - 1) - x + 1, start - (x - 1)>>
                                      ELSE f[2 * x]]
<1>1. N \in Nat /\ m \in [D -> 0..N]
  OBVIOUS
<1>2. ASSUME NEW x \in D \ Stop PROVE step[x] \in D /\ m[step[x]] < m[x]
  <2>1. x \in D /\ step[x] = 2 * x /\ 2 * x \in D
    OBVIOUS
  <2>2. m[x] = start + 1 - x /\ m[step[x]] = start + 1 - 2 * x
    BY <2>1
  <2> QED
    BY <2>1, <2>2
<1>3. Loop(D, Stop, step, N, m)
  <2> HIDE DEF N, D, Stop, step, m
  <2> QED
    BY <1>1, <1>2 DEF Loop
<1> HIDE DEF m, N
<1>4. PICK f : Runs(f, D, Stop, out, step)
  <2> HIDE DEF D, Stop, out, step
  <2> QED
    BY <1>3, LoopExists, Zenon
<1> DEFINE g == [x \in D |-> f[x]]
<1>5. Rec(g)
  <2>1. ASSUME NEW x \in D
        PROVE  g[x] = IF x > (start + 1) \div 2 THEN <<0, start - (x - 1)>>
                      ELSE IF start - (x - 1) - x \in B
                           THEN <<start - (x - 1) - x + 1, start - (x - 1)>>
                      ELSE g[2 * x]
    <3>1. CASE x \in Stop
      BY <1>4, <3>1 DEF Runs
    <3>2. CASE x \notin Stop
      <4>1. step[x] \in D /\ step[x] = 2 * x
        BY <1>2, <3>2
      <4>2. f[x] = f[step[x]] /\ g[x] = f[x] /\ g[step[x]] = f[step[x]]
        <5> HIDE DEF step, Stop
        <5> QED
          BY <1>4, <3>2, <4>1 DEF Runs
      <4> QED
        BY <3>2, <4>1, <4>2
    <3> QED
      BY <3>1, <3>2
  <2>2. g = [x \in D |-> g[x]]
    OBVIOUS
  <2> HIDE DEF g
  <2> QED
    BY <2>1, <2>2
<1> DEFINE it == CHOOSE c : Rec(c)
<1>6. Rec(it)
  <2> HIDE DEF Rec
  <2> QED
    BY <1>5
<1>7. GallopLeft(B, n, start) = it[1]
  BY Zenon DEF GallopLeft
<1> HIDE DEF it
<1>8. Runs(it, D, Stop, out, step)
  BY <1>6 DEF Runs
<1> DEFINE Good == {p \in D \X ((0..n) \X (0..n)) :
             /\ p[2][1] <= p[2][2]
             /\ \A k \in 0..start - (p[1] - 1) : B = 0..k - 1 => k \in p[2][1]..p[2][2]}
<1>9. ASSUME NEW x \in D \cap Stop PROVE <<x, out[x]>> \in Good
  <2>1. CASE x > (start + 1) \div 2
    <3>1. out[x] = <<0, start - (x - 1)>>
      BY <2>1
    <3> HIDE DEF out
    <3> QED
      BY <2>1, <3>1
  <2>2. CASE ~(x > (start + 1) \div 2) /\ start - (x - 1) - x \in B
    <3>1. out[x] = <<start - (x - 1) - x + 1, start - (x - 1)>>
      BY <2>2
    <3> HIDE DEF out
    <3> QED
      BY <2>2, <3>1
  <2> QED
    BY <2>1, <2>2
<1>10. ASSUME NEW x \in D \ Stop, <<step[x], it[step[x]]>> \in Good
       PROVE  <<x, it[step[x]]>> \in Good
  <2> DEFINE v == it[step[x]]
  <2>1. /\ v \in (0..n) \X (0..n) /\ v[1] <= v[2]
        /\ \A k \in 0..start - (2 * x - 1) : B = 0..k - 1 => k \in v[1]..v[2]
    <3>1. step[x] = 2 * x
      OBVIOUS
    <3>2. <<2 * x, v>> \in Good
      <4> HIDE DEF Good, step
      <4> QED
        BY <1>10, <3>1
    <3> HIDE DEF v
    <3> QED
      BY <3>2
  <2> HIDE DEF v
  <2>2. <<x, v>> \in Good
    BY <2>1
  <2> QED
    BY <2>2 DEF v
<1>11. Traced(it, D, Stop, out, step, Good)
  <2> HIDE DEF D, Stop, out, step, Good
  <2> QED
    BY <1>9, <1>10 DEF Traced
<1>12. \A x \in D : <<x, it[x]>> \in Good
  <2> HIDE DEF D, Stop, out, step, Good
  <2> QED
    BY <1>3, <1>8, <1>11, LoopResult, Zenon
<1>13. <<1, it[1]>> \in Good
  <2> HIDE DEF Good
  <2> QED
    BY <1>12
<1> DEFINE v == it[1]
<1>14. /\ v \in (0..n) \X (0..n) /\ v[1] <= v[2]
       /\ \A k \in 0..start : B = 0..k - 1 => k \in v[1]..v[2]
  <2>1. <<1, v>> \in Good
    BY <1>13
  <2> HIDE DEF v
  <2> QED
    BY <2>1
<1>15. v = <<v[1], v[2]>> /\ v[1] \in 0..n /\ v[2] \in 0..n
  <2> HIDE DEF v
  <2> QED
    BY <1>14
<1>16. GallopLeft(B, n, start) = <<v[1], v[2]>>
  BY <1>7, <1>15 DEF v
<1> HIDE DEF v
<1> QED
  BY <1>14, <1>15, <1>16

-----------------------------------------------------------------------------
\* lower_bound and upper_bound of each class.
LEMMA BinarySearchFinds ==
  ASSUME NEW B, NEW first \in Nat, NEW last \in Nat, NEW start \in first..last
  PROVE  /\ BinarySearch(B, first, last, start) \in first..last
         /\ \A k \in first..last : B = 0..k - 1 => BinarySearch(B, first, last, start) = k
<1>1. CASE start # last /\ start \in B
  <2>1. BinarySearch(B, first, last, start) = Halve(B, start + 1, last)
    BY <1>1 DEF BinarySearch
  <2>2. Halve(B, start + 1, last) \in start + 1..last
    BY <1>1, HalveFinds
  <2>3. ASSUME NEW k \in first..last, B = 0..k - 1
        PROVE  Halve(B, start + 1, last) = k
    <3>1. k \in start + 1..last
      BY <1>1, <2>3
    <3> QED
      BY <1>1, <2>3, <3>1, HalveFinds
  <2> QED
    BY <2>1, <2>2, <2>3
<1>2. CASE ~(start # last /\ start \in B)
  <2>1. BinarySearch(B, first, last, start) = Halve(B, first, start)
    BY <1>2 DEF BinarySearch
  <2>2. Halve(B, first, start) \in first..start
    BY HalveFinds
  <2>3. ASSUME NEW k \in first..last, B = 0..k - 1
        PROVE  Halve(B, first, start) = k
    <3>1. k \in first..start
      BY <1>2, <2>3
    <3> QED
      BY <2>3, <3>1, HalveFinds
  <2> QED
    BY <2>1, <2>2, <2>3
<1> QED
  BY <1>1, <1>2

LEMMA ExponentialSearchFinds ==
  ASSUME NEW n \in Nat, NEW B, NEW start \in 0..n
  PROVE  /\ ExponentialSearch(B, n, start) \in 0..n
         /\ \A k \in 0..n : B = 0..k - 1 => ExponentialSearch(B, n, start) = k
<1>1. CASE n = 0
  BY <1>1 DEF ExponentialSearch
<1>2. CASE n # 0
  <2> DEFINE range == IF start # n /\ start \in B THEN GallopRight(B, n, start)
                                                  ELSE GallopLeft(B, n, start)
  <2>1. PICK a \in 0..n, c \in 0..n :
          /\ range = <<a, c>> /\ a <= c
          /\ \A k \in 0..n : B = 0..k - 1 => k \in a..c
    <3>1. CASE start # n /\ start \in B
      <4>1. \A k \in 0..n : B = 0..k - 1 => k \in start + 1..n
        BY <3>1
      <4> QED
        BY <3>1, <4>1, GallopRightFinds
    <3>2. CASE ~(start # n /\ start \in B)
      <4>1. \A k \in 0..n : B = 0..k - 1 => k \in 0..start
        BY <3>2
      <4> QED
        BY <3>2, <4>1, GallopLeftFinds
    <3> QED
      BY <3>1, <3>2
  <2>2. ExponentialSearch(B, n, start) = BinarySearch(B, range[1], range[2], range[1])
    BY <1>2 DEF ExponentialSearch
  <2>3. ExponentialSearch(B, n, start) = BinarySearch(B, a, c, a)
    <3> HIDE DEF range
    <3> QED
      BY <2>1, <2>2
  <2>4. a \in Nat /\ c \in Nat /\ a \in a..c /\ a..c \subseteq 0..n
    BY <2>1
  <2>5. /\ BinarySearch(B, a, c, a) \in a..c
        /\ \A k \in a..c : B = 0..k - 1 => BinarySearch(B, a, c, a) = k
    BY <2>4, BinarySearchFinds
  <2> HIDE DEF range
  <2> QED
    BY <2>1, <2>3, <2>4, <2>5
<1> QED
  BY <1>1, <1>2

LEMMA LinearSearchFinds ==
  ASSUME NEW n \in Nat, NEW B, NEW start \in 0..n
  PROVE  /\ LinearSearch(B, n, start) \in 0..n
         /\ \A k \in 0..n : B = 0..k - 1 => LinearSearch(B, n, start) = k
<1>1. CASE n = 0
  BY <1>1 DEF LinearSearch
<1>2. CASE n # 0 /\ start # n /\ start \in B
  <2>1. LinearSearch(B, n, start) = WalkRight(B, n, start + 1) /\ start + 1 \in 0..n
    BY <1>2 DEF LinearSearch
  <2>2. \A k \in 0..n : B = 0..k - 1 => k \in start + 1..n
    BY <1>2
  <2> QED
    BY <2>1, <2>2, WalkRightFinds
<1>3. CASE n # 0 /\ ~(start # n /\ start \in B)
  <2>1. LinearSearch(B, n, start) = WalkLeft(B, n, start)
    BY <1>3 DEF LinearSearch
  <2>2. \A k \in 0..n : B = 0..k - 1 => k \in 0..start
    BY <1>3
  <2> QED
    BY <2>1, <2>2, WalkLeftFinds
<1> QED
  BY <1>1, <1>2, <1>3

\* In a sorted array every search returns the first position that is not before
\* the key, for any guess of the model.  In an array that is not sorted it still
\* returns a position or the end (searches/*.h, lower_bound and upper_bound).
THEOREM SearchesExact ==
  ASSUME NEW class \in SearchClasses, NEW n \in Nat, NEW B, NEW start \in 0..n
  PROVE  /\ SearchFrom(class, B, n, start) \in 0..n
         /\ \A k \in 0..n : B = 0..k - 1 => SearchFrom(class, B, n, start) = k
<1>1. CASE class = "BinarySearch"
  <2>1. SearchFrom(class, B, n, start) = BinarySearch(B, 0, n, start)
    BY <1>1 DEF SearchFrom
  <2> QED
    BY <2>1, BinarySearchFinds
<1>2. CASE class = "ExponentialSearch"
  <2>1. SearchFrom(class, B, n, start) = ExponentialSearch(B, n, start)
    BY <1>2 DEF SearchFrom
  <2> QED
    BY <2>1, ExponentialSearchFinds
<1>3. CASE class = "LinearSearch"
  <2>1. SearchFrom(class, B, n, start) = LinearSearch(B, n, start)
    BY <1>3 DEF SearchFrom
  <2> QED
    BY <2>1, LinearSearchFinds
<1> QED
  BY <1>1, <1>2, <1>3 DEF SearchClasses

-----------------------------------------------------------------------------
(* Chains and the operators of XIndexRoot.                                  *)

\* Links H of slots and X of groups make chains of the groups in L.
Chains(H, X, L, z, p) ==
  /\ \A i \in DOMAIN H : H[i] # Null => H[i] \in L /\ z[H[i]] = i
  /\ \A g \in L : X[g] # Null =>
       /\ X[g] \in L /\ z[X[g]] = z[g] /\ p[g] < p[X[g]]
       /\ H[z[g]] # X[g]
  /\ \A g, h \in L : X[g] = X[h] /\ X[g] # Null => g = h
  /\ \A g \in L : /\ z[g] \in DOMAIN H /\ 0 < p[g]
                  /\ H[z[g]] = g \/ \E h \in L : X[h] = g

\* The links of H and X lead to c where those of H2 and X2 lead to a: from slot i,
\* or from group l.
Relinked(H, X, L, i, c, d, H2, X2, a) ==
  \/ /\ H[i] = c /\ H2 = [H EXCEPT ![i] = a]
     /\ \A g \in L \ {c, d} : X2[g] = X[g]
  \/ /\ H2 = H
     /\ \E l \in L : /\ X[l] = c /\ X2[l] = a
                     /\ \A g \in L \ {c, d, l} : X2[g] = X[g]

\* The places of groups under links H and X.
Placed(Ids, D, M, H, X, L, z, p) ==
  /\ Null \notin Ids /\ L \in SUBSET Ids /\ M \in Nat
  /\ H \in [D -> Ids \cup {Null}] /\ X \in [Ids -> Ids \cup {Null}]
  /\ z \in [Ids -> Nat] /\ p \in [Ids -> 0..M] /\ Chains(H, X, L, z, p)

\* H2 and X2 put groups a and b in the place of groups c and d, that follow each
\* other, or of the one group c.
Splicing(Ids, H, X, L, z, c, d, a, b, H2, X2) ==
  /\ c \in L /\ d \in L /\ (c = d \/ X[c] = d)
  /\ a \in Ids \ L /\ b \in Ids \ L
  /\ (a = b \/ X2[a] = b) /\ X2[b] = X[d]
  /\ Relinked(H, X, L, z[c], c, d, H2, X2, a)

\* The groups of L2 hang off slots again, those of New off slot i and the others
\* where they did.
Rehung(Ids, N, H2, X2, L2, z, New, i) ==
  \E z2 \in [Ids -> Nat], p2 \in [Ids -> 0..N] :
    /\ Chains(H2, X2, L2, z2, p2)
    /\ \A x \in New : z2[x] = i
    /\ \A x \in Ids \ New : z2[x] = z[x]

\* New groups take the place of one group or of two that follow each other.
LEMMA Splice ==
  ASSUME NEW Ids, NEW D, NEW M, NEW H, NEW X, NEW L, NEW z, NEW p,
         Placed(Ids, D, M, H, X, L, z, p),
         NEW c, NEW d, NEW a, NEW b, NEW H2, NEW X2,
         Splicing(Ids, H, X, L, z, c, d, a, b, H2, X2)
  PROVE  Rehung(Ids, 2 * M + 1, H2, X2, (L \ {c, d}) \cup {a, b}, z, {a, b}, z[c])
<1> USE DEF Placed, Splicing
<1> DEFINE L2 == (L \ {c, d}) \cup {a, b}
           i == z[c]
           z2 == [x \in Ids |-> IF x \in {a, b} THEN i ELSE z[x]]
           p2 == [x \in Ids |-> IF x = a THEN 2 * p[c] ELSE IF x = b THEN 2 * p[c] + 1
                                ELSE 2 * p[x]]
<1>1. z2 \in [Ids -> Nat] /\ p2 \in [Ids -> 0..2 * M + 1]
  OBVIOUS
<1>2. /\ z2[a] = i /\ z2[b] = i
      /\ \A x \in Ids \ {a, b} : z2[x] = z[x] /\ p2[x] = 2 * p[x]
      /\ p2[a] = 2 * p[c] /\ (a # b => p2[b] = 2 * p[c] + 1)
  OBVIOUS
<1> HIDE DEF z2, p2
<1>3. /\ i \in D /\ z[d] = i /\ p[c] <= p[d] /\ 0 < p[c] /\ (c # d => p[c] < p[d])
      /\ \A x \in Ids : p[x] \in Nat /\ p[x] \in Int
  BY DEF Chains
<1>4. \A g \in L : X[g] # Null => X[g] \in L /\ X[g] # g
  BY <1>3 DEF Chains
\* What leads to c, and what to d.
<1>5. /\ \A g \in L : X[g] = c => g \notin {c, d}
      /\ \A g \in L : X[g] = d /\ c # d => g = c
  BY <1>3 DEF Chains
<1>6. ASSUME NEW g \in L \ {c, d} PROVE X2[g] = IF X[g] = c THEN a ELSE X[g]
  BY <1>4, <1>5 DEF Relinked, Chains
<1>7. /\ DOMAIN H2 = D /\ DOMAIN H = D
      /\ \A j \in D : /\ H2[j] = IF H[j] = c THEN a ELSE H[j]
                      /\ H[j] = c => j = i
                      /\ c # d => H[j] # d
  <2>1. \A j \in D : H[j] = c => j = i
    BY DEF Chains
  <2>2. \A j \in D : c # d => H[j] # d
    BY <1>3 DEF Chains
  <2>3. CASE H[i] = c /\ H2 = [H EXCEPT ![i] = a]
    BY <2>1, <2>2, <2>3
  <2>4. CASE H2 = H /\ \E l \in L : X[l] = c
    <3>1. H[i] # c
      BY <2>4 DEF Chains
    <3> QED
      BY <2>1, <2>2, <2>4, <3>1
  <2> QED
    BY <2>3, <2>4 DEF Relinked
<1>8. X[d] # Null => X[d] \in L \ {c, d} /\ z[X[d]] = i /\ p[d] < p[X[d]] /\ H[i] # X[d]
  BY <1>3 DEF Chains
<1>9. \A g \in L \ {c, d} : X[g] # Null =>
        /\ X[g] = c \/ X[g] \in L \ {c, d}
        /\ z[X[g]] = z[g] /\ p[g] < p[X[g]] /\ H[z[g]] # X[g]
  BY <1>5 DEF Chains
<1>10. Null \notin {a, b, c, d} /\ a \notin L /\ b \notin L /\ {a, b} \subseteq Ids
  OBVIOUS
<1>11. ASSUME NEW j \in D, H2[j] # Null PROVE H2[j] \in L2 /\ z2[H2[j]] = j
  <2>1. H[j] # Null /\ H[j] \in L /\ z[H[j]] = j
    BY <1>7, <1>10, <1>11 DEF Chains
  <2> QED
    BY <1>2, <1>7, <2>1
<1>12. ASSUME NEW g \in L2, X2[g] # Null
       PROVE  /\ X2[g] \in L2 /\ z2[X2[g]] = z2[g] /\ p2[g] < p2[X2[g]]
              /\ H2[z2[g]] # X2[g]
  <2>1. CASE g = a /\ a # b
    BY <2>1, <1>2, <1>3, <1>7, <1>10 DEF Chains
  <2>2. CASE g = b
    <3>1. X2[g] = X[d] /\ X[d] # Null
      BY <1>12, <2>2
    <3>2. z2[X[d]] = i /\ p2[X[d]] = 2 * p[X[d]]
      BY <1>2, <1>8, <1>10, <3>1
    <3>3. p2[b] \in {2 * p[c], 2 * p[c] + 1}
      BY <1>2
    <3>4. H2[i] # X[d]
      BY <1>3, <1>7, <1>8, <1>10, <3>1
    <3>5. p2[b] < p2[X[d]]
      BY <1>3, <1>8, <3>1, <3>2, <3>3
    <3> QED
      BY <1>2, <1>8, <2>2, <3>1, <3>2, <3>4, <3>5
  <2>3. CASE g \in L \ {c, d}
    <3>1. X[g] # Null /\ z2[g] = z[g] /\ p2[g] = 2 * p[g] /\ z[g] \in D
      BY <1>2, <1>6, <1>10, <1>12, <2>3 DEF Chains
    <3>2. CASE X[g] = c
      <4>1. X2[g] = a /\ z[g] = i /\ p[g] < p[c] /\ H[i] # c
        BY <1>6, <1>9, <2>3, <3>1, <3>2
      <4>2. H2[i] # a
        BY <1>3, <1>7, <1>10, <4>1 DEF Chains
      <4> QED
        BY <1>2, <1>3, <3>1, <4>1, <4>2
    <3>3. CASE X[g] # c
      <4>1. X2[g] = X[g] /\ X[g] \in L \ {c, d}
        BY <1>6, <1>9, <2>3, <3>1, <3>3
      <4>2. z2[X[g]] = z[X[g]] /\ p2[X[g]] = 2 * p[X[g]]
        BY <1>2, <1>10, <4>1
      <4>3. H2[z[g]] # X[g]
        BY <1>7, <1>9, <1>10, <2>3, <3>1, <4>1
      <4> QED
        BY <1>3, <1>9, <2>3, <3>1, <4>1, <4>2, <4>3
    <3> QED
      BY <3>2, <3>3
  <2> QED
    BY <2>1, <2>2, <2>3
<1>13. ASSUME NEW g \in L2, NEW h \in L2, X2[g] = X2[h], X2[g] # Null PROVE g = h
  <2> DEFINE old(x) == IF x = b THEN d ELSE x
  <2>1. ASSUME NEW x \in L2, x # a \/ a = b, X2[x] # Null
        PROVE  /\ old(x) \in L /\ X[old(x)] # Null /\ X[old(x)] # b
               /\ X2[x] = IF X[old(x)] = c THEN a ELSE X[old(x)]
    BY <1>4, <1>6, <1>8, <1>10, <2>1
  <2>2. CASE (g = a \/ h = a) /\ a # b
    <3>1. X2[a] = b
      BY <2>2
    <3>2. \A x \in L2 : x # a => X2[x] # b
      BY <1>10, <2>1, <2>2
    <3> QED
      BY <1>13, <2>2, <3>1, <3>2
  <2>3. CASE ~((g = a \/ h = a) /\ a # b)
    <3>1. X[old(g)] = X[old(h)] /\ X[old(g)] # Null /\ old(g) \in L /\ old(h) \in L
      BY <1>4, <1>10, <1>13, <2>1, <2>3
    <3>2. old(g) = old(h)
      BY <3>1 DEF Chains
    <3> QED
      BY <1>10, <3>2
  <2> QED
    BY <2>2, <2>3
<1>14. ASSUME NEW g \in L2
       PROVE  z2[g] \in D /\ 0 < p2[g] /\ (H2[z2[g]] = g \/ \E h \in L2 : X2[h] = g)
  <2>1. CASE g = a
    <3>1. H[i] = c \/ \E h \in L : X[h] = c
      BY DEF Chains
    <3>2. ASSUME NEW h \in L, X[h] = c PROVE h \in L2 /\ X2[h] = a
      BY <1>5, <1>6, <3>2
    <3> QED
      BY <1>2, <1>3, <1>7, <2>1, <3>1, <3>2
  <2>2. CASE g = b /\ a # b
    BY <1>2, <1>3, <2>2
  <2>3. CASE g \in L \ {c, d}
    <3>1. z2[g] = z[g] /\ p2[g] = 2 * p[g] /\ z[g] \in D /\ 0 < p[g]
      BY <1>2, <1>10, <2>3 DEF Chains
    <3>2. CASE H[z[g]] = g
      BY <1>3, <1>7, <2>3, <3>1, <3>2
    <3>3. ASSUME NEW h \in L, X[h] = g PROVE \E k \in L2 : X2[k] = g
      <4>1. CASE h \in {c, d}
        BY <2>3, <3>3, <4>1
      <4>2. CASE h \notin {c, d}
        BY <1>6, <2>3, <3>3, <4>2
      <4> QED
        BY <4>1, <4>2
    <3> QED
      BY <1>3, <2>3, <3>1, <3>2, <3>3 DEF Chains
  <2> QED
    BY <2>1, <2>2, <2>3
<1>15. Chains(H2, X2, L2, z2, p2)
  <2> HIDE DEF L2
  <2> QED
    BY <1>7, <1>11, <1>12, <1>13, <1>14 DEF Chains
<1> HIDE DEF L2
<1>16. /\ Chains(H2, X2, L2, z2, p2) /\ z2[a] = z[c] /\ z2[b] = z[c]
       /\ \A x \in Ids \ {a, b} : z2[x] = z[x]
  BY <1>2, <1>15
<1> HIDE DEF Placed, Splicing
<1> QED
  BY <1>1, <1>16 DEF L2, Rehung

\* The groups of slot j hang off slot i now.
Moved(Ids, D, N, H2, X2, L, z, j, i) ==
  \E z2, p2 : /\ Placed(Ids, D, N, H2, X2, L, z2, p2)
              /\ \A x \in Ids : z2[x] = IF x \in L /\ z[x] = j THEN i ELSE z[x]

\* The chain of slot j is appended to a chain that ends in c.
LEMMA JoinChains ==
  ASSUME NEW Ids, NEW D, NEW M, NEW H, NEW X, NEW L, NEW z, NEW p,
         Placed(Ids, D, M, H, X, L, z, p),
         NEW c \in L, X[c] = Null, NEW j \in D, j # z[c], H[j] # Null
  PROVE  Moved(Ids, D, 2 * M + 1, [H EXCEPT ![j] = Null], [X EXCEPT ![c] = H[j]], L,
               z, j, z[c])
<1> USE DEF Placed
<1> DEFINE d == H[j]
           i == z[c]
           H2 == [H EXCEPT ![j] = Null]
           X2 == [X EXCEPT ![c] = d]
           z2 == [x \in Ids |-> IF x \in L /\ z[x] = j THEN i ELSE z[x]]
           p2 == [x \in Ids |-> IF x \in L /\ z[x] = j THEN p[x] + p[c] ELSE p[x]]
<1>1. z2 \in [Ids -> Nat] /\ p2 \in [Ids -> 0..2 * M + 1]
  OBVIOUS
<1>2. /\ d \in L /\ d # Null /\ z[d] = j /\ i \in D /\ i # j /\ z[c] = i
      /\ \A x \in Ids : p[x] \in Int
      /\ DOMAIN H2 = D /\ DOMAIN H = D
      /\ H2[j] = Null /\ \A k \in D \ {j} : H2[k] = H[k]
      /\ X2[c] = d /\ \A g \in L \ {c} : X2[g] = X[g]
  BY DEF Chains
<1>3. \A g \in L : /\ z2[g] = IF z[g] = j THEN i ELSE z[g]
                   /\ p2[g] = IF z[g] = j THEN p[g] + p[c] ELSE p[g]
  OBVIOUS
<1>4. \A x \in Ids : z2[x] = IF x \in L /\ z[x] = j THEN z[c] ELSE z[x]
  OBVIOUS
<1> HIDE DEF z2, p2, X2, H2, d
<1>5. \A g \in L : X[g] # d
  BY <1>2 DEF Chains, d
<1>6. ASSUME NEW k \in D, H2[k] # Null PROVE H2[k] \in L /\ z2[H2[k]] = k
  BY <1>2, <1>3, <1>6 DEF Chains
<1>7. ASSUME NEW g \in L, X2[g] # Null
      PROVE  /\ X2[g] \in L /\ z2[X2[g]] = z2[g] /\ p2[g] < p2[X2[g]]
             /\ H2[z2[g]] # X2[g]
  <2>1. CASE g = c
    <3>1. H2[i] # d
      BY <1>2 DEF Chains
    <3>2. 0 < p[d] /\ p2[c] = p[c] /\ p2[d] = p[d] + p[c] /\ z2[c] = i /\ z2[d] = i
      BY <1>2, <1>3 DEF Chains
    <3> QED
      BY <1>2, <2>1, <3>1, <3>2
  <2>2. CASE g # c
    <3>1. /\ X2[g] = X[g] /\ X[g] \in L /\ z[X[g]] = z[g] /\ p[g] < p[X[g]]
          /\ H[z[g]] # X[g] /\ z[g] \in D
      BY <1>2, <1>7, <2>2 DEF Chains
    <3>2. z2[X[g]] = z2[g] /\ p2[g] < p2[X[g]]
      BY <1>2, <1>3, <3>1
    <3>3. H2[z2[g]] # X[g]
      <4>1. CASE z[g] = j
        <5>1. H[i] # X[g]
          BY <1>2, <1>7, <3>1, <4>1 DEF Chains
        <5> QED
          BY <1>2, <1>3, <4>1, <5>1
      <4>2. CASE z[g] # j
        BY <1>2, <1>3, <3>1, <4>2
      <4> QED
        BY <4>1, <4>2
    <3> QED
      BY <3>1, <3>2, <3>3
  <2> QED
    BY <2>1, <2>2
<1>8. ASSUME NEW g \in L, NEW h \in L, X2[g] = X2[h], X2[g] # Null PROVE g = h
  BY <1>2, <1>5, <1>8 DEF Chains
<1>9. ASSUME NEW g \in L
      PROVE  z2[g] \in D /\ 0 < p2[g] /\ (H2[z2[g]] = g \/ \E h \in L : X2[h] = g)
  <2>1. z[g] \in D /\ 0 < p[g] /\ 0 < p[c] /\ z2[g] \in D /\ 0 < p2[g]
    BY <1>2, <1>3 DEF Chains
  <2>2. CASE H[z[g]] = g
    <3>1. CASE z[g] = j
      BY <1>2, <2>1, <2>2, <3>1 DEF d
    <3>2. CASE z[g] # j
      BY <1>2, <1>3, <2>1, <2>2, <3>2
    <3> QED
      BY <3>1, <3>2
  <2>3. ASSUME NEW h \in L, X[h] = g PROVE X2[h] = g
    BY <1>2, <2>3
  <2> QED
    BY <2>1, <2>2, <2>3 DEF Chains
<1>10. Chains(H2, X2, L, z2, p2)
  BY <1>2, <1>6, <1>7, <1>8, <1>9 DEF Chains
<1>11. Chains([H EXCEPT ![j] = Null], [X EXCEPT ![c] = H[j]], L, z2, p2)
  BY <1>10 DEF H2, X2, d
<1>12. /\ [H EXCEPT ![j] = Null] \in [D -> Ids \cup {Null}]
       /\ [X EXCEPT ![c] = H[j]] \in [Ids -> Ids \cup {Null}]
       /\ 2 * M + 1 \in Nat
  OBVIOUS
<1>13. Placed(Ids, D, 2 * M + 1, [H EXCEPT ![j] = Null], [X EXCEPT ![c] = H[j]], L, z2, p2)
  BY <1>1, <1>11, <1>12
<1> HIDE DEF Placed
<1> QED
  BY <1>4, <1>13 DEF Moved

\* Only the links of the groups in L matter.
LEMMA ChainsOf ==
  ASSUME NEW H, NEW X, NEW L, NEW z, NEW p, Chains(H, X, L, z, p),
         NEW X2, \A g \in L : X2[g] = X[g], NEW z2, \A g \in L : z2[g] = z[g]
  PROVE  Chains(H, X2, L, z2, p)
BY DEF Chains

\* The elements of a finite set of numbers in their order.
LEMMA SortedRank ==
  ASSUME NEW S \in SUBSET Nat, IsFiniteSet(S), NEW n \in 1..Cardinality(S)
  PROVE  Sorted(S)[n] \in S /\ Cardinality({y \in S : y < Sorted(S)[n]}) = n - 1
<1> DEFINE Below(x) == {y \in S : y < x}
           c == Cardinality(S)
           T == {k \in 0..c - 1 : \E x \in S : Cardinality(Below(x)) = k}
<1>1. c \in Nat /\ c > 0 /\ S # {}
  BY FS_CardinalityType, FS_EmptySet
<1>2. ASSUME NEW U \in SUBSET Nat, U # {} PROVE \E x \in U : \A y \in U : ~(y < x)
  <2>1. PICK x \in U : \A y \in U : ~(<<y, x>> \in OpToRel(<, Nat))
    BY <1>2, WFMin, NatLessThanWellFounded
  <2> QED
    BY <2>1 DEF OpToRel
<1>3. 0 \in T
  <2>1. PICK x \in S : \A y \in S : ~(y < x)
    BY <1>1, <1>2
  <2>2. Below(x) = {}
    BY <2>1
  <2>4. 0 \in 0..c - 1
    BY <1>1
  <2>3. Cardinality(Below(x)) = 0
    BY <2>2, FS_EmptySet
  <2> QED
    BY <2>3, <2>4
<1>4. ASSUME NEW k \in 0..c - 1 - 1, k \in T PROVE k + 1 \in T
  <2>1. PICK x \in S : Cardinality(Below(x)) = k
    BY <1>4
  <2>2. IsFiniteSet(Below(x)) /\ IsFiniteSet(Below(x) \cup {x}) /\ x \notin Below(x)
    BY FS_Subset, FS_AddElement
  <2>3. Cardinality(Below(x) \cup {x}) = k + 1
    BY <2>1, <2>2, FS_AddElement
  <2>4. {y \in S : x < y} # {}
    <3> SUFFICES ASSUME \A y \in S : ~(x < y) PROVE FALSE
      OBVIOUS
    <3>1. \A y \in S : y < x \/ y = x
      OBVIOUS
    <3>2. S = Below(x) \cup {x}
      BY <3>1
    <3> HIDE DEF Below
    <3> QED
      BY <1>1, <1>4, <2>3, <3>2
  <2>5. PICK v \in {y \in S : x < y} : \A y \in {y \in S : x < y} : ~(y < v)
    BY <1>2, <2>4
  <2>6. Below(v) = Below(x) \cup {x}
    <3>1. \A y \in S : y < v <=> y < x \/ y = x
      BY <2>5
    <3> QED
      BY <3>1
  <2>7. k + 1 \in 0..c - 1
    BY <1>1
  <2> HIDE DEF Below
  <2> QED
    BY <2>3, <2>5, <2>6, <2>7
<1>5. \A k \in 0..c - 1 : k \in T
  <2> DEFINE e == c - 1
  <2>1. e \in Nat
    BY <1>1
  <2> HIDE DEF T, e
  <2> QED
    BY <1>3, <1>4, <2>1, Induction DEF e
<1>6. \E x \in S : Cardinality(Below(x)) = n - 1
  <2>1. n - 1 \in 0..c - 1
    BY <1>1
  <2> QED
    BY <1>5, <2>1
<1>7. Sorted(S)[n] = CHOOSE x \in S : Cardinality(Below(x)) = n - 1
  BY DEF Sorted
<1> QED
  BY <1>6, <1>7

\* The elements of a finite set of numbers, each of them once.
LEMMA SortedFacts ==
  ASSUME NEW S \in SUBSET Nat, IsFiniteSet(S)
  PROVE  /\ Sorted(S) \in Seq(S) /\ Len(Sorted(S)) = Cardinality(S)
         /\ \A i, j \in 1..Cardinality(S) : i # j => Sorted(S)[i] # Sorted(S)[j]
<1>1. Cardinality(S) \in Nat
  BY FS_CardinalityType
<1>2. Sorted(S) \in [1..Cardinality(S) -> S]
  <2>1. \A n \in 1..Cardinality(S) : Sorted(S)[n] \in S
    BY SortedRank
  <2> QED
    BY <2>1 DEF Sorted
<1>3. ASSUME NEW i \in 1..Cardinality(S), NEW j \in 1..Cardinality(S),
             Sorted(S)[i] = Sorted(S)[j]
      PROVE  i = j
  <2>1. i - 1 = j - 1
    BY <1>3, SortedRank
  <2> QED
    BY <2>1
<1> QED
  BY <1>1, <1>2, <1>3

-----------------------------------------------------------------------------
LEMMA Quotients ==
  ASSUME NEW d \in Nat \ {0}, NEW x \in Nat, NEW y \in Nat, x <= y
  PROVE  x \div d \in Nat /\ x \div d <= y \div d
<1>1. x \div d \in Nat /\ y \div d \in Nat
  OBVIOUS
<1>2. d * (x \div d) <= x /\ y < d * (y \div d) + d
  OBVIOUS
<1> DEFINE q == x \div d
           r == y \div d
<1>3. d * q <= x /\ y < d * r + d /\ q \in Nat /\ r \in Nat
  BY <1>1, <1>2
<1> HIDE DEF q, r
<1>4. d * q < d * (r + 1)
  BY <1>3
<1>5. q < r + 1
  BY <1>3, <1>4
<1>6. q <= r
  BY <1>3, <1>5
<1> QED
  BY <1>1, <1>6 DEF q, r

\* Multiplication keeps the order.
LEMMA Multiples ==
  ASSUME NEW n \in Nat, NEW x \in Nat, NEW y \in Nat, x <= y
  PROVE  x * n \in Nat /\ x * n <= y * n
OBVIOUS

\* The shares of the adjusters are disjoint parts of the slots.
LEMMA Ranges ==
  ASSUME NEW n \in Nat, NEW b \in Bg
  PROVE  /\ RangeBegin(b, n) \in Nat /\ RangeEnd(b, n) \in Nat
         /\ RangeBegin(b, n) <= RangeEnd(b, n) /\ RangeEnd(b, n) <= n
         /\ \A c \in Bg : b < c => RangeEnd(b, n) <= RangeBegin(c, n)
<1>0. BgNum \in Nat \ {0} /\ b \in Nat /\ b <= BgNum - 1
  BY RootAssumption DEF Bg
<1>1. b * n \in Nat /\ (b + 1) * n \in Nat /\ b * n <= (b + 1) * n
  BY <1>0, Multiples
<1>2. (b + 1) * n <= BgNum * n /\ BgNum * n \in Nat
  BY <1>0, Multiples
<1>3. (BgNum * n) \div BgNum = n
  BY <1>0
<1>4. /\ (b * n) \div BgNum \in Nat /\ ((b + 1) * n) \div BgNum \in Nat
      /\ (b * n) \div BgNum <= ((b + 1) * n) \div BgNum
      /\ ((b + 1) * n) \div BgNum <= n
  <2>1. (b * n) \div BgNum \in Nat /\ (b * n) \div BgNum <= ((b + 1) * n) \div BgNum
    BY <1>0, <1>1, Quotients
  <2>2. ((b + 1) * n) \div BgNum \in Nat
        /\ ((b + 1) * n) \div BgNum <= (BgNum * n) \div BgNum
    BY <1>0, <1>1, <1>2, Quotients
  <2> QED
    BY <1>3, <2>1, <2>2
<1>5. ASSUME NEW c \in Bg, b < c PROVE RangeEnd(b, n) <= RangeBegin(c, n)
  <2>1. c \in Nat /\ c <= BgNum - 1 /\ b + 1 <= c
    BY <1>0, <1>5 DEF Bg
  <2>2. (b + 1) * n <= c * n /\ c * n \in Nat
    BY <1>0, <2>1, Multiples
  <2>3. ((b + 1) * n) \div BgNum <= (c * n) \div BgNum
    BY <1>0, <1>1, <2>2, Quotients
  <2>4. b # BgNum - 1
    BY <1>0, <2>1
  <2> QED
    BY <2>3, <2>4 DEF RangeBegin, RangeEnd
<1> QED
  BY <1>4, <1>5 DEF RangeBegin, RangeEnd

\* Every thread allocates in a pool of its own.
LEMMA Pools ==
  ASSUME NEW b \in 0..BgNum
  PROVE  /\ PoolOf(b) \subseteq GroupIds /\ PoolOf(b) \subseteq Nat /\ IsFiniteSet(PoolOf(b))
         /\ \A c \in 0..BgNum : b # c => PoolOf(b) \cap PoolOf(c) = {}
<1>0. BgNum \in Nat /\ Pool \in Nat /\ b \in Nat
  BY RootAssumption
<1>1. b * Pool \in Nat /\ (b + 1) * Pool \in Nat /\ (b + 1) * Pool <= (BgNum + 1) * Pool
  BY <1>0, Multiples
<1>2. ASSUME NEW x \in 0..BgNum, NEW y \in 0..BgNum, x < y
      PROVE  PoolOf(x) \cap PoolOf(y) = {}
  <2>1. (x + 1) * Pool <= y * Pool /\ (x + 1) * Pool \in Nat /\ y * Pool \in Nat
    BY <1>0, <1>2, Multiples
  <2> QED
    BY <2>1 DEF PoolOf
<1>3. IsFiniteSet(PoolOf(b))
  BY <1>1, FS_Interval DEF PoolOf
<1>4. \A c \in 0..BgNum : b # c => b < c \/ c < b
  BY <1>0
<1> QED
  BY <1>0, <1>1, <1>2, <1>3, <1>4 DEF PoolOf, GroupIds

\* New groups are not in memory yet.
LEMMA FreshFacts ==
  ASSUME NEW b \in Bg
  PROVE  /\ (\E x \in PoolOf(b) : x \notin galloc) => Fresh(b, 1) \in PoolOf(b) \ galloc
         /\ (\E x, y \in PoolOf(b) : x # y /\ {x, y} \cap galloc = {}) =>
              /\ Fresh(b, 1) \in PoolOf(b) \ galloc /\ Fresh(b, 2) \in PoolOf(b) \ galloc
              /\ Fresh(b, 1) # Fresh(b, 2)
<1> DEFINE S == PoolOf(b) \ galloc
<1>1. S \subseteq Nat /\ IsFiniteSet(S) /\ Cardinality(S) \in Nat
  <2>1. b \in 0..BgNum
    BY RootAssumption DEF Bg
  <2>2. PoolOf(b) \subseteq Nat /\ IsFiniteSet(PoolOf(b))
    BY <2>1, Pools
  <2> QED
    BY <2>2, FS_Subset, FS_CardinalityType
<1>2. Fresh(b, 1) = Sorted(S)[1] /\ Fresh(b, 2) = Sorted(S)[2]
  BY DEF Fresh
<1> HIDE DEF S
<1>3. Cardinality(S) >= 1 => Fresh(b, 1) \in S
  <2> SUFFICES ASSUME Cardinality(S) >= 1 PROVE Sorted(S)[1] \in S
    BY <1>2
  <2>1. 1 \in 1..Cardinality(S) /\ S \in SUBSET Nat
    BY <1>1
  <2> QED
    BY <1>1, <2>1, SortedRank
<1>4. Cardinality(S) >= 2 => Fresh(b, 1) \in S /\ Fresh(b, 2) \in S /\ Fresh(b, 1) # Fresh(b, 2)
  BY <1>1, <1>2, <1>3, SortedRank, SortedFacts
<1>5. ASSUME NEW x \in S PROVE Cardinality(S) >= 1
  BY <1>1, FS_EmptySet
<1>6. ASSUME NEW x \in S, NEW y \in S, x # y PROVE Cardinality(S) >= 2
  <2>1. IsFiniteSet(S \ {x}) /\ Cardinality(S \ {x}) = Cardinality(S) - 1
    BY <1>1, FS_RemoveElement
  <2>2. Cardinality(S \ {x}) # 0 /\ Cardinality(S \ {x}) \in Nat
    BY <1>6, <2>1, FS_EmptySet, FS_CardinalityType
  <2> QED
    BY <1>1, <2>1, <2>2
<1> QED
  BY <1>3, <1>4, <1>5, <1>6 DEF S

\* Room counts the identifiers of the pool that are free.
LEMMA RoomFacts ==
  ASSUME NEW b \in Bg
  PROVE  /\ Room(b, 1) => \E x \in PoolOf(b) : x \notin galloc
         /\ Room(b, 4) => /\ \E x, y \in PoolOf(b) : x # y /\ {x, y} \cap galloc = {}
                          /\ \A G : (\E g, h : G = galloc \cup {g, h}) =>
                               \E x, y \in PoolOf(b) : x # y /\ {x, y} \cap G = {}
<1> DEFINE S == PoolOf(b) \ galloc
<1>1. IsFiniteSet(S) /\ Cardinality(S) \in Nat
  <2>1. b \in 0..BgNum
    BY RootAssumption DEF Bg
  <2>2. IsFiniteSet(PoolOf(b))
    BY <2>1, Pools
  <2> QED
    BY <2>2, FS_Subset, FS_CardinalityType
<1>2. \A n : Room(b, n) <=> Cardinality(S) >= n
  BY DEF Room
<1>3. ASSUME NEW T, IsFiniteSet(T), Cardinality(T) \in Nat, Cardinality(T) >= 2
      PROVE  \E x, y \in T : x # y
  <2>1. PICK x \in T : TRUE
    BY <1>3, FS_EmptySet
  <2>2. IsFiniteSet(T \ {x}) /\ Cardinality(T \ {x}) = Cardinality(T) - 1
    BY <1>3, FS_RemoveElement
  <2>3. PICK y \in T \ {x} : TRUE
    BY <1>3, <2>2, FS_EmptySet
  <2> QED
    BY <2>3
<1>4. ASSUME Room(b, 4), NEW g, NEW h
      PROVE  \E x, y \in PoolOf(b) : x # y /\ {x, y} \cap (galloc \cup {g, h}) = {}
  <2>1. IsFiniteSet(S \ {g}) /\ Cardinality(S \ {g}) \in Nat /\ Cardinality(S \ {g}) >= 3
    <3> HIDE DEF S
    <3> QED
      BY <1>1, <1>2, <1>4, FS_RemoveElement
  <2>2. /\ IsFiniteSet((S \ {g}) \ {h}) /\ Cardinality((S \ {g}) \ {h}) \in Nat
        /\ Cardinality((S \ {g}) \ {h}) >= 2
    <3> DEFINE U == S \ {g}
    <3> HIDE DEF U
    <3>1. IsFiniteSet(U \ {h}) /\ Cardinality(U \ {h}) \in Nat /\ Cardinality(U \ {h}) >= 2
      BY <2>1, FS_RemoveElement, SMTT(30) DEF U
    <3> QED
      BY <3>1 DEF U
  <2>3. PICK x \in (S \ {g}) \ {h}, y \in (S \ {g}) \ {h} : x # y
    BY <1>3, <2>2
  <2> QED
    BY <2>3
<1>5. Room(b, 1) => \E x \in PoolOf(b) : x \notin galloc
  <2>1. Room(b, 1) => S # {}
    BY <1>1, <1>2, FS_EmptySet
  <2> QED
    BY <2>1
<1>6. Room(b, 4) => \E x, y \in PoolOf(b) : x # y /\ {x, y} \cap galloc = {}
  BY <1>4
<1> QED
  BY <1>4, <1>5, <1>6

Seen(s) == {s[k] : k \in 1..Len(s)}

\* s is the chain of x: all groups that follow x, in their order.
ChainOf(s, x, X, L, z, p) ==
  /\ s \in Seq(L)
  /\ x \in Seen(s)
  /\ \A k \in 1..Len(s) : z[s[k]] = z[x] /\ p[x] <= p[s[k]]
  /\ \A j, k \in 1..Len(s) : s[j] = s[k] => j = k
  /\ \A g \in Seen(s) : X[g] # Null => X[g] \in Seen(s)

\* A group before a chain makes a chain.
LEMMA ChainStep ==
  ASSUME NEW Ids, Null \notin Ids, NEW L \in SUBSET Ids, NEW H, NEW X,
         NEW z, NEW p \in [Ids -> Nat], Chains(H, X, L, z, p),
         NEW x \in L, X[x] # Null, NEW s, ChainOf(s, X[x], X, L, z, p)
  PROVE  ChainOf(<<x>> \o s, x, X, L, z, p)
<1> DEFINE t == <<x>> \o s
<1>1. s \in Seq(L) /\ Len(s) \in Nat
  BY DEF ChainOf
<1>2. /\ t \in Seq(L) /\ Len(t) = Len(s) + 1
      /\ t[1] = x /\ \A k \in 1..Len(s) : t[k + 1] = s[k]
  BY <1>1
<1> HIDE DEF t
<1>3. \A k \in 2..Len(t) : k - 1 \in 1..Len(s) /\ t[k] = s[k - 1]
  <2> SUFFICES ASSUME NEW k \in 2..Len(t) PROVE k - 1 \in 1..Len(s) /\ t[k] = s[k - 1]
    OBVIOUS
  <2>1. k - 1 \in 1..Len(s) /\ k - 1 + 1 = k
    BY <1>1, <1>2, SMTT(30)
  <2> QED
    BY <1>2, <2>1
<1>4. /\ X[x] \in L /\ z[X[x]] = z[x] /\ p[x] < p[X[x]]
      /\ \A k \in 1..Len(s) : /\ s[k] \in L /\ z[s[k]] = z[X[x]]
                              /\ p[X[x]] <= p[s[k]]
      /\ \A g \in L : p[g] \in Nat
  BY <1>1 DEF Chains, ChainOf
<1>5. \A k \in 1..Len(s) : s[k] # x /\ z[s[k]] = z[x] /\ p[x] <= p[s[k]]
  BY <1>4
<1>6. \A k \in 1..Len(t) : k = 1 \/ k \in 2..Len(t)
  BY <1>1, <1>2
<1>7. Seen(t) = {x} \cup Seen(s)
  <2>1. x \in Seen(t)
    <3>1. 1 \in 1..Len(t)
      BY <1>1, <1>2
    <3> QED
      BY <1>2, <3>1 DEF Seen
  <2>2. ASSUME NEW k \in 1..Len(s) PROVE s[k] \in Seen(t)
    <3>1. k + 1 \in 1..Len(t)
      BY <1>1, <1>2
    <3> QED
      BY <1>2, <3>1 DEF Seen
  <2>3. ASSUME NEW k \in 1..Len(t) PROVE t[k] = x \/ t[k] \in Seen(s)
    BY <1>2, <1>3, <1>6 DEF Seen
  <2> QED
    BY <2>1, <2>2, <2>3 DEF Seen
<1>8. ASSUME NEW k \in 1..Len(t) PROVE z[t[k]] = z[x] /\ p[x] <= p[t[k]]
  <2>1. CASE k = 1
    BY <1>2, <1>4, <2>1
  <2>2. CASE k \in 2..Len(t)
    BY <1>3, <1>5, <2>2
  <2> QED
    BY <1>6, <2>1, <2>2
<1>9. ASSUME NEW j \in 1..Len(t), NEW k \in 1..Len(t), t[j] = t[k] PROVE j = k
  <2>1. CASE j = 1 /\ k \in 2..Len(t)
    BY <1>2, <1>3, <1>5, <1>9, <2>1
  <2>2. CASE k = 1 /\ j \in 2..Len(t)
    BY <1>2, <1>3, <1>5, <1>9, <2>2
  <2>3. CASE j \in 2..Len(t) /\ k \in 2..Len(t)
    <3>1. j - 1 \in 1..Len(s) /\ k - 1 \in 1..Len(s) /\ s[j - 1] = s[k - 1]
      BY <1>3, <1>9, <2>3
    <3>2. j - 1 = k - 1
      BY <3>1 DEF ChainOf
    <3> QED
      BY <2>3, <3>2
  <2> QED
    BY <1>6, <2>1, <2>2, <2>3
<1>10. \A g \in Seen(t) : X[g] # Null => X[g] \in Seen(t)
  BY <1>7 DEF ChainOf
<1> QED
  BY <1>2, <1>7, <1>8, <1>9, <1>10 DEF ChainOf, t

\* A group without a next is a chain.
LEMMA ChainEnd ==
  ASSUME NEW Ids, NEW L \in SUBSET Ids, NEW X, NEW z, NEW p \in [Ids -> Nat],
         NEW x \in L, X[x] = Null
  PROVE  ChainOf(<<x>>, x, X, L, z, p)
<1>1. <<x>> \in Seq(L) /\ Len(<<x>>) = 1 /\ <<x>>[1] = x
  OBVIOUS
<1>2. Seen(<<x>>) = {x}
  BY DEF Seen
<1> QED
  BY <1>1, <1>2 DEF ChainOf

\* f is defined along a loop: by its value at the next element.
Unfolds(f, D, Stop, out, comb, step) ==
  \A x \in D : f[x] = IF x \in Stop THEN out[x] ELSE comb[x][f[step[x]]]

\* A function that is defined along a loop exists.
LEMMA RecursionExists ==
  ASSUME NEW D, NEW Stop, NEW step, NEW N, NEW m, Loop(D, Stop, step, N, m),
         NEW V, NEW out \in [D -> V], NEW comb \in [D -> [V -> V]]
  PROVE  \E f \in [D -> V] : Unfolds(f, D, Stop, out, comb, step)
<1> USE DEF Loop
<1> DEFINE Body(f, x) == IF x \in Stop THEN out[x] ELSE comb[x][f[step[x]]]
           Part(f, k) == \A x \in D : m[x] < k => f[x] = Body(f, x)
           S == {k \in Nat : \E f \in [D -> V] : Part(f, k)}
<1>1. 0 \in S
  <2>1. Part(out, 0)
    OBVIOUS
  <2> QED
    BY <2>1
<1>2. ASSUME NEW k \in Nat, k \in S PROVE k + 1 \in S
  <2>1. PICK f \in [D -> V] : Part(f, k)
    BY <1>2
  <2> DEFINE g == [x \in D |-> IF m[x] < k THEN f[x] ELSE Body(f, x)]
  <2>2. g \in [D -> V]
    OBVIOUS
  <2>3. ASSUME NEW x \in D, m[x] < k + 1 PROVE g[x] = Body(g, x)
    <3>1. g[x] = Body(f, x)
      BY <2>1
    <3>2. CASE x \in Stop
      BY <3>1, <3>2
    <3>3. CASE x \notin Stop
      <4>1. step[x] \in D /\ m[step[x]] < k
        BY <2>3, <3>3
      <4>2. g[step[x]] = f[step[x]]
        BY <4>1
      <4> QED
        BY <3>1, <3>3, <4>2
    <3> QED
      BY <3>2, <3>3
  <2>4. Part(g, k + 1)
    BY <2>3
  <2> HIDE DEF Part, g
  <2> QED
    BY <2>2, <2>4
<1>3. N + 1 \in S
  <2> DEFINE e == N + 1
  <2>1. e \in Nat /\ e \in 0..e
    OBVIOUS
  <2> HIDE DEF S, e
  <2>2. \A k \in 0..e : k \in S
    BY <1>1, <1>2, <2>1, Induction
  <2> QED
    BY <2>1, <2>2 DEF e
<1>4. PICK f \in [D -> V] : Part(f, N + 1)
  BY <1>3
<1>5. \A x \in D : f[x] = Body(f, x)
  BY <1>4
<1> QED
  BY <1>5 DEF Unfolds

\* The recursive function of Listing exists, and lists the chain of every group.
LEMMA ChainFunction ==
  ASSUME NEW L \in SUBSET GroupIds, NEW M \in Nat, NEW H, NEW z,
         NEW p \in [GroupIds -> 0..M], NEW X \in [GroupIds -> GroupIds \cup {Null}],
         \A g \in GroupIds : X[g] = group[g].next,
         Chains(H, X, L, z, p), \A g \in GroupIds \ L : X[g] = Null,
         NEW chain,
         chain = CHOOSE f : f = [g \in GroupIds \cup {Null} |->
                                   IF g = Null THEN <<>> ELSE <<g>> \o f[group[g].next]]
  PROVE  /\ chain[Null] = <<>>
         /\ \A g \in L : ChainOf(chain[g], g, X, L, z, p)
<1> DEFINE D == GroupIds \cup {Null}
           Rec(f) == f = [g \in D |-> IF g = Null THEN <<>> ELSE <<g>> \o f[group[g].next]]
           Stop == {Null}
           step == [g \in D |-> IF g = Null THEN Null ELSE X[g]]
           m == [g \in D |-> IF g = Null THEN 0 ELSE IF g \notin L THEN 1 ELSE M + 2 - p[g]]
           N == M + 2
           V == Seq(D)
           out == [g \in D |-> <<>>]
           comb == [g \in D |-> [s \in V |-> <<g>> \o s]]
<1>0. Null \notin GroupIds
  BY DEF Null, GroupIds
<1>1. N \in Nat /\ m \in [D -> 0..N]
  OBVIOUS
<1>2. ASSUME NEW g \in D \ Stop PROVE step[g] \in D /\ m[step[g]] < m[g]
  <2>1. g \in GroupIds /\ step[g] = X[g] /\ X[g] \in D
    OBVIOUS
  <2>2. m[g] = IF g \notin L THEN 1 ELSE M + 2 - p[g]
    OBVIOUS
  <2>3. CASE X[g] = Null
    BY <2>1, <2>2, <2>3
  <2>4. CASE X[g] # Null
    <3>1. g \in L /\ X[g] \in L /\ p[g] < p[X[g]] /\ p[g] \in 0..M /\ p[X[g]] \in 0..M
      BY <2>1, <2>4 DEF Chains
    <3>2. m[X[g]] = M + 2 - p[X[g]]
      BY <1>0, <3>1
    <3> HIDE DEF m, step
    <3> QED
      BY <2>1, <2>2, <3>1, <3>2
  <2> QED
    BY <2>3, <2>4
<1>3. Loop(D, Stop, step, N, m)
  <2> HIDE DEF N, D, Stop, step, m
  <2> QED
    BY <1>1, <1>2 DEF Loop
<1> HIDE DEF m, N
<1>4. out \in [D -> V] /\ comb \in [D -> [V -> V]]
  <2>1. \A g \in D : \A s \in V : <<g>> \o s \in V
    OBVIOUS
  <2> HIDE DEF D
  <2> QED
    BY <2>1
<1>5. PICK f \in [D -> V] :
        \A g \in D : f[g] = IF g \in Stop THEN out[g] ELSE comb[g][f[step[g]]]
  <2> HIDE DEF D, Stop, out, step, V, comb
  <2>1. \E f \in [D -> V] : Unfolds(f, D, Stop, out, comb, step)
    BY <1>3, <1>4, RecursionExists
  <2> QED
    BY <2>1 DEF Unfolds
<1>6. Rec(f)
  <2>1. ASSUME NEW g \in D
        PROVE  f[g] = IF g = Null THEN <<>> ELSE <<g>> \o f[group[g].next]
    <3>1. CASE g = Null
      BY <1>5, <3>1
    <3>2. CASE g # Null
      <4>1. step[g] = group[g].next /\ step[g] \in D
        BY <3>2
      <4>2. f[step[g]] \in V
        <5> HIDE DEF D, V, step
        <5> QED
          BY <1>5, <4>1
      <4>3. f[g] = comb[g][f[step[g]]]
        BY <1>5, <3>2
      <4>4. comb[g][f[step[g]]] = <<g>> \o f[step[g]]
        <5> HIDE DEF D, V, step
        <5> QED
          BY <4>2
      <4> HIDE DEF comb, step
      <4> QED
        BY <3>2, <4>1, <4>3, <4>4
    <3> QED
      BY <3>1, <3>2
  <2>2. f = [g \in D |-> f[g]]
    OBVIOUS
  <2> QED
    BY <2>1, <2>2
<1>7. Rec(chain)
  <2>1. chain = CHOOSE h : Rec(h)
    BY Zenon
  <2> HIDE DEF Rec
  <2> QED
    BY <1>6, <2>1
<1>8. \A g \in D : chain[g] = IF g = Null THEN <<>> ELSE <<g>> \o chain[group[g].next]
  BY <1>7
<1>9. chain[Null] = <<>>
  BY <1>8
<1> DEFINE S == {g \in D : g \in L => ChainOf(chain[g], g, X, L, z, p)}
<1>10. m \in [D -> Nat]
  BY <1>1
<1>13. p \in [GroupIds -> Nat]
  OBVIOUS
<1>11. ASSUME NEW g \in D, \A h \in D : m[h] < m[g] => h \in S PROVE g \in S
  <2> SUFFICES ASSUME g \in L PROVE ChainOf(chain[g], g, X, L, z, p)
    OBVIOUS
  <2>1. g # Null /\ chain[g] = <<g>> \o chain[X[g]]
    <3>1. g \in GroupIds /\ g # Null /\ X[g] = group[g].next
      BY <1>0
    <3> QED
      BY <1>8, <3>1
  <2>2. CASE X[g] = Null
    <3>1. chain[g] = <<g>> \o <<>>
      BY <1>9, <2>1, <2>2, Zenon
    <3>3. <<g>> \o <<>> = <<g>>
      OBVIOUS
    <3>2. ChainOf(<<g>>, g, X, L, z, p)
      BY <1>13, <2>2, ChainEnd
    <3> QED
      BY <3>1, <3>2, <3>3
  <2>3. CASE X[g] # Null
    <3>1. X[g] \in L /\ step[g] = X[g]
      BY <2>1, <2>3 DEF Chains
    <3>2. ChainOf(chain[X[g]], X[g], X, L, z, p)
      BY <1>2, <1>11, <2>1, <3>1
    <3>4. ChainOf(<<g>> \o chain[X[g]], g, X, L, z, p)
      <4> DEFINE s == chain[X[g]]
      <4> HIDE DEF s
      <4>1. ChainOf(s, X[g], X, L, z, p)
        BY <3>2 DEF s
      <4>2. ChainOf(<<g>> \o s, g, X, L, z, p)
        BY <1>0, <1>13, <2>3, <4>1, ChainStep
      <4> QED
        BY <4>2 DEF s
    <3> QED
      BY <2>1, <3>4
  <2> QED
    BY <2>2, <2>3
<1>12. D \subseteq S
  <2> HIDE DEF S, D
  <2> QED
    BY <1>10, <1>11, MeasureInduction
<1> QED
  BY <1>9, <1>12

\* The chain of a slot holds exactly the groups that hang off the slot.
LEMMA ChainOfSlot ==
  ASSUME NEW Ids, Null \notin Ids, NEW L \in SUBSET Ids, NEW H, NEW X,
         NEW z, NEW p \in [Ids -> Nat], Chains(H, X, L, z, p),
         NEW f, \A g \in L : ChainOf(f[g], g, X, L, z, p)
  PROVE  \A g \in L : H[z[g]] \in L /\ g \in Seen(f[H[z[g]]])
<1> DEFINE m == [g \in L |-> p[g]]
           S == {g \in L : H[z[g]] \in L /\ g \in Seen(f[H[z[g]]])}
<1>1. m \in [L -> Nat]
  OBVIOUS
<1>2. ASSUME NEW g \in L, \A h \in L : m[h] < m[g] => h \in S PROVE g \in S
  <2>1. CASE H[z[g]] = g
    BY <2>1 DEF ChainOf
  <2>2. ASSUME NEW h \in L, X[h] = g, g # Null PROVE g \in S
    <3>1. p[h] < p[g] /\ z[g] = z[h]
      BY <2>2 DEF Chains
    <3>2. h \in S
      BY <1>2, <3>1
    <3> QED
      BY <2>2, <3>1, <3>2 DEF ChainOf
  <2> QED
    BY <2>1, <2>2 DEF Chains
<1>3. L \subseteq S
  <2> HIDE DEF S, m
  <2> QED
    BY <1>1, <1>2, MeasureInduction
<1> QED
  BY <1>3

\* A sequence of groups in L, none of them twice.
Distinct(s, L) == s \in Seq(L) /\ \A j, k \in 1..Len(s) : s[j] = s[k] => j = k

Joined(u, s, t) == \A x : x \in Seen(u) <=> x \in Seen(s) \/ x \in Seen(t)

JoinedAll(u, ss, n) == \A x : x \in Seen(u) <=> \E i \in 1..n : x \in Seen(ss[i])

\* Two sequences without common elements are joined.
LEMMA DistinctJoined ==
  ASSUME NEW L, NEW s, NEW t, Distinct(s, L), Distinct(t, L),
         Seen(s) \cap Seen(t) = {}
  PROVE  /\ Distinct(s \o t, L)
         /\ Joined(s \o t, s, t)
<1> DEFINE u == s \o t
           l == Len(s)
           m == Len(t)
<1>1. s \in Seq(L) /\ t \in Seq(L) /\ l \in Nat /\ m \in Nat
  BY DEF Distinct
<1>2. /\ u \in Seq(L) /\ Len(u) = l + m
      /\ \A k \in 1..l + m : u[k] = IF k <= l THEN s[k] ELSE t[k - l]
  BY <1>1
<1> HIDE DEF u, l, m
<1>3. \A k \in 1..l + m : k \in 1..l \/ (k - l \in 1..m /\ ~(k <= l))
  BY <1>1
<1>4. \A k \in 1..l : k \in 1..l + m /\ k <= l
  BY <1>1
<1>5. \A k \in 1..m : k + l \in 1..l + m /\ ~(k + l <= l) /\ k + l - l = k
  BY <1>1
<1>6. \A k \in 1..l + m : \/ k \in 1..l /\ u[k] = s[k]
                          \/ k - l \in 1..m /\ u[k] = t[k - l]
  BY <1>2, <1>3, <1>4
<1>7. \A k \in 1..l : s[k] \in Seen(s)
  BY DEF Seen, l
<1>8. \A k \in 1..m : t[k] \in Seen(t)
  BY DEF Seen, m
<1>9. ASSUME NEW j \in 1..l + m, NEW k \in 1..l + m, u[j] = u[k] PROVE j = k
  <2>1. CASE j \in 1..l /\ k \in 1..l /\ u[j] = s[j] /\ u[k] = s[k]
    BY <1>9, <2>1 DEF Distinct, l
  <2>2. CASE j - l \in 1..m /\ k - l \in 1..m /\ u[j] = t[j - l] /\ u[k] = t[k - l]
    <3>1. j - l = k - l
      BY <1>9, <2>2 DEF Distinct, m
    <3> QED
      BY <1>1, <3>1
  <2> QED
    BY <1>6, <1>7, <1>8, <1>9, <2>1, <2>2
<1>10. \A x : x \in Seen(u) <=> x \in Seen(s) \/ x \in Seen(t)
  <2>1. ASSUME NEW x \in Seen(u) PROVE x \in Seen(s) \cup Seen(t)
    BY <1>2, <1>6, <1>7, <1>8, <2>1 DEF Seen
  <2>2. ASSUME NEW k \in 1..l PROVE s[k] \in Seen(u)
    BY <1>2, <1>4 DEF Seen
  <2>3. ASSUME NEW k \in 1..m PROVE t[k] \in Seen(u)
    <3>0. k + l \in 1..l + m /\ ~(k + l <= l) /\ k + l - l = k
      BY <1>5
    <3>1. u[k + l] = t[k] /\ k + l \in 1..Len(u)
      BY <1>1, <1>2, <3>0
    <3> QED
      BY <3>1 DEF Seen
  <2>4. /\ \A x \in Seen(s) : \E k \in 1..l : x = s[k]
        /\ \A x \in Seen(t) : \E k \in 1..m : x = t[k]
    BY DEF Seen, l, m
  <2> QED
    BY <2>1, <2>2, <2>3, <2>4
<1> QED
  BY <1>2, <1>9, <1>10 DEF u, Distinct, Joined

\* Disjoint sequences of distinct groups, put together.
LEMMA Flattened ==
  ASSUME NEW L, NEW n \in Nat \ {0}, NEW ss \in [1..n -> Seq(L)],
         \A i \in 1..n : Distinct(ss[i], L),
         \A i, j \in 1..n : i # j => Seen(ss[i]) \cap Seen(ss[j]) = {}
  PROVE  /\ Distinct(FlattenSeq(ss), L)
         /\ JoinedAll(FlattenSeq(ss), ss, n)
<1> DEFINE D == 1..n
           Rec(f) == f = [i \in D |-> IF i = 1 THEN ss[i] ELSE f[i - 1] \o ss[i]]
           Stop == {1}
           step == [i \in D |-> IF i = 1 THEN 1 ELSE i - 1]
           m == [i \in D |-> i]
           V == Seq(L)
           comb == [i \in D |-> [s \in V |-> s \o ss[i]]]
           fl == CHOOSE f : Rec(f)
<1>1. ss \in Seq(Seq(L)) /\ Len(ss) = n
  OBVIOUS
<1>2. FlattenSeq(ss) = fl[n]
  BY <1>1 DEF FlattenSeq
<1>3. Loop(D, Stop, step, n, m)
  BY DEF Loop
<1>4. ss \in [D -> V] /\ comb \in [D -> [V -> V]]
  <2>0. ss \in [D -> V]
    OBVIOUS
  <2>1. \A i \in D : \A s \in V : s \o ss[i] \in V
    OBVIOUS
  <2> HIDE DEF D, V
  <2> QED
    BY <2>0, <2>1
<1>5. PICK f \in [D -> V] : Unfolds(f, D, Stop, ss, comb, step)
  <2> HIDE DEF D, Stop, step, m, V, comb
  <2> QED
    BY <1>3, <1>4, RecursionExists
<1>6. Rec(f)
  <2>1. ASSUME NEW i \in D PROVE f[i] = IF i = 1 THEN ss[i] ELSE f[i - 1] \o ss[i]
    <3>1. CASE i = 1
      BY <1>5, <3>1 DEF Unfolds
    <3>2. CASE i # 1
      <4>1. step[i] = i - 1 /\ i - 1 \in D
        BY <3>2
      <4>2. f[step[i]] \in V
        <5> HIDE DEF D, V, step
        <5> QED
          BY <1>5, <4>1
      <4>3. f[i] = comb[i][f[step[i]]]
        BY <1>5, <3>2 DEF Unfolds
      <4>4. comb[i][f[step[i]]] = f[step[i]] \o ss[i]
        <5> HIDE DEF D, V, step
        <5> QED
          BY <4>2
      <4> HIDE DEF comb, step
      <4> QED
        BY <3>2, <4>1, <4>3, <4>4
    <3> QED
      BY <3>1, <3>2
  <2>2. f = [i \in D |-> f[i]]
    OBVIOUS
  <2> QED
    BY <2>1, <2>2
<1>7. Rec(fl)
  <2> HIDE DEF Rec
  <2> QED
    BY <1>6
<1>8. \A i \in D : fl[i] = IF i = 1 THEN ss[i] ELSE fl[i - 1] \o ss[i]
  BY <1>7
<1> HIDE DEF fl
<1> DEFINE Right(k) == /\ Distinct(fl[k + 1], L)
                       /\ \A x : x \in Seen(fl[k + 1]) <=>
                            \E i \in 1..(k + 1) : x \in Seen(ss[i])
           S == {k \in 0..n - 1 : Right(k)}
<1>9. 0 \in S
  <2>1. fl[0 + 1] = ss[1] /\ 1 \in D /\ 1..(0 + 1) = {1} /\ 0 \in 0..n - 1
    BY <1>8
  <2>2. \A x : (\E i \in {1} : x \in Seen(ss[i])) <=> x \in Seen(ss[1])
    OBVIOUS
  <2> HIDE DEF D
  <2>3. Right(0)
    BY <2>1, <2>2 DEF D
  <2> QED
    BY <2>1, <2>3
<1>10. ASSUME NEW k \in 0..n - 1 - 1, k \in S PROVE k + 1 \in S
  <2> DEFINE t == ss[k + 1 + 1]
  <2>1. /\ k + 1 + 1 \in D /\ k + 1 + 1 # 1 /\ k + 1 + 1 - 1 = k + 1 /\ k + 1 \in 0..n - 1
        /\ 1..(k + 1 + 1) = (1..(k + 1)) \cup {k + 1 + 1}
        /\ \A i \in 1..(k + 1) : i \in D /\ i # k + 1 + 1
    OBVIOUS
  <2>2. fl[k + 1 + 1] = fl[k + 1] \o t
    <3>1. fl[k + 1 + 1] = fl[k + 1 + 1 - 1] \o t
      <4> DEFINE i == k + 1 + 1
      <4>1. i \in D /\ i # 1
        BY <2>1
      <4> HIDE DEF D, i
      <4>2. fl[i] = fl[i - 1] \o ss[i]
        BY <1>8, <4>1
      <4> HIDE DEF t
      <4>3. ss[i] = t
        BY DEF i, t
      <4> QED
        BY <4>2, <4>3 DEF i
    <3> QED
      BY <2>1, <3>1, Zenon
  <2> DEFINE s == fl[k + 1]
             I == 1..(k + 1)
             j == k + 1 + 1
  <2>3. Distinct(s, L) /\ \A x : x \in Seen(s) <=> \E i \in I : x \in Seen(ss[i])
    BY <1>10
  <2>4. /\ Distinct(t, L) /\ t = ss[j] /\ fl[j] = s \o t
        /\ 1..j = I \cup {j} /\ \A i \in I : Seen(ss[i]) \cap Seen(t) = {}
    BY <2>1, <2>2
  <2> HIDE DEF s, t, I, j
  <2>5. Distinct(s \o t, L)
    BY <2>3, <2>4, DistinctJoined
  <2>6. \A x : x \in Seen(s \o t) <=> x \in Seen(s) \/ x \in Seen(t)
    <3>1. Joined(s \o t, s, t)
      BY <2>3, <2>4, <2>5, DistinctJoined
    <3> QED
      BY <3>1 DEF Joined
  <2>7. \A x : x \in Seen(fl[j]) <=> \E i \in 1..j : x \in Seen(ss[i])
    BY <2>3, <2>4, <2>6
  <2>8. Distinct(fl[j], L)
    BY <2>4, <2>5
  <2>9. Right(k + 1)
    BY <2>7, <2>8 DEF j
  <2> HIDE DEF Right
  <2> QED
    BY <2>1, <2>9
<1>11. Right(n - 1)
  <2> DEFINE e == n - 1
  <2>1. e \in Nat /\ e \in 0..e
    OBVIOUS
  <2> HIDE DEF S, e
  <2>2. \A k \in 0..e : k \in S
    BY <1>9, <1>10, <2>1, Induction DEF e
  <2>3. e \in S
    BY <2>1, <2>2
  <2> QED
    BY <2>3 DEF S, e
<1>12. n - 1 + 1 = n
  OBVIOUS
<1> QED
  BY <1>2, <1>11, <1>12 DEF JoinedAll

\* A chain lists its groups once, and they hang off one slot.
LEMMA ChainShape ==
  ASSUME NEW c, NEW x, NEW X, NEW L, NEW z, NEW p, ChainOf(c, x, X, L, z, p)
  PROVE  Distinct(c, L) /\ \A g \in Seen(c) : z[g] = z[x]
BY DEF Distinct, Seen, ChainOf

\* H and X are the links from the slots of root r and between groups, those of L
\* hang off the slots.
Walk(r, L, M, H, X, z, p) ==
  /\ L \in SUBSET GroupIds /\ M \in Nat /\ p \in [GroupIds -> 0..M]
  /\ X \in [GroupIds -> GroupIds \cup {Null}]
  /\ \A g \in GroupIds : X[g] = group[g].next
  /\ \A g \in GroupIds \ L : X[g] = Null
  /\ \E n \in Nat \ {0} : /\ Len(roots[r].slots) = n /\ DOMAIN H = 0..n - 1
                          /\ \A i \in 0..n - 1 : H[i] = roots[r].slots[i + 1]
  /\ Chains(H, X, L, z, p)

\* create_new_root lists every group once.
LEMMA ListsAll ==
  ASSUME NEW r, NEW L, NEW M, NEW H, NEW X, NEW z, NEW p, Walk(r, L, M, H, X, z, p)
  PROVE  Distinct(Listing(r), L) /\ \A g : g \in Seen(Listing(r)) <=> g \in L
<1> SUFFICES ASSUME L \in SUBSET GroupIds, M \in Nat, p \in [GroupIds -> 0..M],
                    X \in [GroupIds -> GroupIds \cup {Null}],
                    \A g \in GroupIds : X[g] = group[g].next,
                    \A g \in GroupIds \ L : X[g] = Null,
                    NEW n \in Nat \ {0}, Len(roots[r].slots) = n, DOMAIN H = 0..n - 1,
                    \A i \in 0..n - 1 : H[i] = roots[r].slots[i + 1],
                    Chains(H, X, L, z, p)
             PROVE  Distinct(Listing(r), L) /\ \A g : g \in Seen(Listing(r)) <=> g \in L
  BY DEF Walk
<1> DEFINE chain == CHOOSE f : f = [g \in GroupIds \cup {Null} |->
                                   IF g = Null THEN <<>> ELSE <<g>> \o f[group[g].next]]
           s == roots[r].slots
           ss == [i \in 1..n |-> chain[s[i]]]
<1>0. Null \notin GroupIds
  BY DEF Null, GroupIds
<1>1. Listing(r) = FlattenSeq(ss)
  BY DEF Listing
<1> HIDE DEF chain
<1>2. chain[Null] = <<>> /\ \A g \in L : ChainOf(chain[g], g, X, L, z, p)
  BY ChainFunction DEF chain
<1>3. \A i \in 1..n : /\ i - 1 \in 0..n - 1 /\ H[i - 1] = s[i]
                      /\ s[i] # Null => s[i] \in L /\ z[s[i]] = i - 1
  <2> SUFFICES ASSUME NEW i \in 1..n
               PROVE  /\ i - 1 \in 0..n - 1 /\ H[i - 1] = s[i]
                      /\ s[i] # Null => s[i] \in L /\ z[s[i]] = i - 1
    OBVIOUS
  <2>1. i - 1 \in 0..n - 1 /\ i - 1 + 1 = i
    OBVIOUS
  <2>2. H[i - 1] = s[i]
    BY <2>1
  <2> QED
    BY <2>1, <2>2 DEF Chains
<1>4. ASSUME NEW i \in 1..n
      PROVE  Distinct(ss[i], L) /\ \A g \in Seen(ss[i]) : z[g] = i - 1
  <2>1. CASE s[i] = Null
    <3>1. ss[i] = <<>> /\ Len(<<>>) = 0 /\ <<>> \in Seq(L)
      BY <1>2, <2>1
    <3> HIDE DEF ss
    <3> QED
      BY <3>1 DEF Distinct, Seen
  <2>2. CASE s[i] # Null
    <3>1. ss[i] = chain[s[i]] /\ ChainOf(chain[s[i]], s[i], X, L, z, p) /\ z[s[i]] = i - 1
      BY <1>2, <1>3, <2>2
    <3> HIDE DEF ss
    <3> PICK c : c = ss[i]
      OBVIOUS
    <3>2. ChainOf(c, s[i], X, L, z, p)
      BY <3>1
    <3>3. Distinct(c, L) /\ \A g \in Seen(c) : z[g] = z[s[i]]
      BY <3>2, ChainShape
    <3> QED
      BY <3>1, <3>3
  <2> QED
    BY <2>1, <2>2
<1>5. \A i, j \in 1..n : i # j => Seen(ss[i]) \cap Seen(ss[j]) = {}
  <2> SUFFICES ASSUME NEW i \in 1..n, NEW j \in 1..n, NEW x \in Seen(ss[i]) \cap Seen(ss[j])
               PROVE  i = j
    BY Zenon
  <2>1. z[x] = i - 1 /\ z[x] = j - 1
    BY <1>4
  <2>2. i - 1 = j - 1
    BY <2>1
  <2> QED
    BY <2>2
<1>6. ss \in [1..n -> Seq(L)]
  BY <1>4 DEF Distinct
<1> HIDE DEF ss
<1>7. /\ Distinct(FlattenSeq(ss), L)
      /\ \A x : x \in Seen(FlattenSeq(ss)) <=> \E i \in 1..n : x \in Seen(ss[i])
  <2>1. \A i \in 1..n : Distinct(ss[i], L)
    BY <1>4
  <2>2. Distinct(FlattenSeq(ss), L)
    BY <1>5, <1>6, <2>1, Flattened
  <2>3. \A x : x \in Seen(FlattenSeq(ss)) <=> \E i \in 1..n : x \in Seen(ss[i])
    <3>1. JoinedAll(FlattenSeq(ss), ss, n)
      BY <1>5, <1>6, <2>1, <2>2, Flattened
    <3> QED
      BY <3>1 DEF JoinedAll
  <2> QED
    BY <2>2, <2>3
<1>8. ASSUME NEW g \in L PROVE \E i \in 1..n : g \in Seen(ss[i])
  <2>1. H[z[g]] \in L /\ g \in Seen(chain[H[z[g]]])
    <3>1. p \in [GroupIds -> Nat]
      OBVIOUS
    <3> QED
      BY <1>0, <1>2, <3>1, ChainOfSlot
  <2>2. z[g] \in 0..n - 1
    BY DEF Chains
  <2>3. z[g] + 1 \in 1..n /\ H[z[g]] = s[z[g] + 1]
    BY <2>2
  <2> QED
    BY <2>1, <2>3 DEF ss
<1>9. \A i \in 1..n : Seen(ss[i]) \subseteq L
  <2> SUFFICES ASSUME NEW i \in 1..n, NEW k \in 1..Len(ss[i]) PROVE ss[i][k] \in L
    BY DEF Seen
  <2> QED
    BY <1>6
<1> QED
  BY <1>1, <1>7, <1>8, <1>9

-----------------------------------------------------------------------------
(* Rounds and roots.                                                        *)

\* The locals of adjusters and workers are records; what the maintenance of
\* groups keeps in them does not matter here.
AdjusterFields == {"pc", "r", "i", "end", "tried", "loc", "nloc", "kind", "old",
                   "mid", "new"}

WorkerFields == {"pc", "op", "key", "end", "r", "i", "g", "latest", "out"}

Shapes ==
  /\ DOMAIN adj = Bg /\ \A b \in Bg : DOMAIN adj[b] = AdjusterFields
  /\ DOMAIN wk = Workers /\ \A w \in Workers : DOMAIN wk[w] = WorkerFields
  /\ wait \in [0..BgNum -> SUBSET Workers]

\* A round: every adjuster is called, at work or finished, and only one of these.
\* Outside of rounds nobody is.
Rounds ==
  /\ started \subseteq Bg /\ finished \subseteq Bg /\ running \in BOOLEAN
  /\ running <=> mpc \notin {"join", "exit"}
  /\ mpc # "wait" => started = {} /\ finished = {}
  /\ \A b \in Bg :
       /\ adj[b].pc = "exit" => ~running
       /\ Working(b) => mpc = "wait" /\ adj[b].r = root
       /\ mpc = "wait" =>
            /\ b \in started \/ Working(b) \/ b \in finished
            /\ b \notin started \/ b \notin finished
            /\ Working(b) => b \notin started \cup finished

\* The roots that exist, and which of them workers may hold.
RootsLive ==
  /\ root \in RootIds /\ root \in ralloc
  /\ mpc \notin {"train", "swap", "trim"} => ralloc = {root}
  /\ mpc \in {"train", "swap"} => new_root \in RootIds /\ new_root \in ralloc
  /\ \A w \in Workers :
       /\ wk[w].pc = "idle" => wk[w].r = Null
       /\ wk[w].r \in ralloc \cup {Null}
       /\ wk[w].r \in {root, Null} \/ (mpc = "trim" /\ w \in wait[BgNum])

RootInv == Shapes /\ Rounds /\ RootsLive

-----------------------------------------------------------------------------
(* The groups.                                                              *)

\* Groups that are in memory although no slot and no chain leads to them: the
\* new ones of a job before they are published, the old ones afterwards.
Unlinked(b) ==
  LET a == adj[b]
  IN  IF a.pc = "discard" \/ (a.pc = "drain" /\ a.kind = "split") THEN {a.old[1]}
      ELSE IF a.pc = "publish"
           THEN IF a.kind = "split" THEN {a.old[1], a.new[1], a.new[2]} ELSE {a.new[1]}
      ELSE IF a.pc \in {"second", "quiesce", "settle"} THEN Range(a.old) \cup Range(a.mid)
      ELSE {}

Linked == galloc \ UNION {Unlinked(b) : b \in Bg}

\* Groups that are freed behind the barrier under way.
Doomed(b) == IF adj[b].pc \in {"discard", "quiesce", "settle"} THEN Unlinked(b) ELSE {}

\* The slot that led to the second group of a merge does not count.
Masked(i) ==
  \E b \in Bg : /\ adj[b].kind = "merge" /\ adj[b].pc \in {"second", "quiesce"}
                /\ adj[b].nloc = <<"slot", i>>

Slots == 0..(Len(roots[root].slots) - 1)

Heads == [i \in Slots |-> IF Masked(i) THEN Null ELSE roots[root].slots[i + 1]]

Links == [g \in GroupIds |-> group[g].next]

\* The slots that adjuster b goes through.
Share(b) == RangeBegin(b, Len(roots[root].slots))
              ..(RangeEnd(b, Len(roots[root].slots)) - 1)

\* Where adjuster b is: loc hangs off its slot.
Place(b, z) ==
  LET a == adj[b]
      n == Len(roots[root].slots)
  IN  /\ a.i \in RangeBegin(b, n)..RangeEnd(b, n) /\ a.end = RangeEnd(b, n)
      /\ a.pc # "slot" =>
           /\ a.i \in Share(b)
           /\ \/ a.loc = <<"slot", a.i>>
              \/ \E l \in Linked : a.loc = <<"next", l>> /\ z[l] = a.i

\* The groups that only adjuster b knows, and workers that it waits for.
Owned(b, z) ==
  \A x \in Unlinked(b) :
    /\ x \in galloc /\ z[x] \in Share(b)
    /\ \/ Links[x] = Null
       \/ Links[x] \in Unlinked(b)
       \/ Links[x] \in Linked /\ z[Links[x]] \in Share(b)

Compacting(b, o) == adj[b].kind = "compact" /\ adj[b].old = <<o>> /\ adj[b].mid = <<>>

Merging(b, o, q) == adj[b].kind = "merge" /\ adj[b].old = <<o, q>> /\ adj[b].mid = <<>>

Splitting(b, o, m, k) ==
  adj[b].kind = "split" /\ adj[b].old = <<o>> /\ adj[b].mid = <<m, k>>

\* The second group of a merge: the next of the chain, or that of the next slot.
ByNext(b, o) == adj[b].nloc = <<"next", o>>

BySlot(b) == adj[b].nloc = <<"slot", adj[b].i + 1>> /\ adj[b].i + 1 \in Share(b)

SecondSlot(b) == roots[root].slots[adj[b].i + 2]

\* Before the new groups are published.
Task(b) ==
  adj[b].pc \in {"drain", "publish"} =>
    \/ \E o \in GroupIds : Compacting(b, o) /\ Here(b) = o
    \/ \E o, q \in GroupIds :
         /\ Merging(b, o, q) /\ Here(b) = o
         /\ \/ ByNext(b, o) /\ Links[o] = q
            \/ BySlot(b) /\ Links[o] = Null /\ SecondSlot(b) = q
    \/ \E o, m, k \in GroupIds :
         Splitting(b, o, m, k) /\ Here(b) = m /\ Links[m] = k

\* There is room for the new groups, and then they take the place of the old.
Ready(b) ==
  LET a == adj[b]
  IN  /\ a.pc = "drain" =>
           /\ \E x \in PoolOf(b) : x \notin galloc
           /\ a.kind = "split" => \E x, y \in PoolOf(b) : x # y /\ {x, y} \cap galloc = {}
      /\ a.pc = "publish" /\ a.kind # "split" =>
           \E n \in GroupIds : a.new = <<n>> /\ Links[n] = Links[a.old[Len(a.old)]]
      /\ a.pc = "publish" /\ a.kind = "split" =>
           \E n, k \in GroupIds :
             /\ a.new = <<n, k>> /\ n # k /\ a.old[1] \notin {n, k}
             /\ Links[n] = k /\ Links[k] = Links[a.mid[2]]

\* After the new groups are published.
Done(b, z) ==
  LET a == adj[b]
  IN  a.pc \in {"second", "quiesce", "settle"} =>
        /\ a.pc = "second" => a.kind = "merge"
        /\ \/ \E o \in GroupIds : Compacting(b, o)
           \/ \E o, q \in GroupIds :
                /\ Merging(b, o, q)
                /\ \/ ByNext(b, o)
                   \/ /\ BySlot(b)
                      /\ a.pc = "second" => SecondSlot(b) = q
                      /\ a.pc = "quiesce" => SecondSlot(b) = a.new[1]
           \/ \E o, m, k \in GroupIds : Splitting(b, o, m, k)
        /\ a.kind # "split" => \E n \in Linked : a.new = <<n>> /\ z[n] = a.i
        /\ a.kind = "split" => \E n, k \in Linked :
                                 a.new = <<n, k>> /\ z[n] = a.i /\ z[k] = a.i

Job(b, z) == Place(b, z) /\ Owned(b, z) /\ Task(b) /\ Ready(b) /\ Done(b, z)

\* The slots of r hold every group, once.
Lists(r) ==
  LET s == roots[r].slots
  IN  /\ \A i \in DOMAIN s : s[i] \in galloc
      /\ \A i, j \in DOMAIN s : s[i] = s[j] => i = j
      /\ \A g \in galloc : \E i \in DOMAIN s : s[i] = g

\* While chains are cut the slots of the new root hold all groups.  At all other
\* times every group hangs off a slot or belongs to an adjuster.
LinksWith(z, p) ==
  IF mpc = "trim"
  THEN /\ Lists(root)
       /\ \A g \in galloc : group[g].next \in galloc \cup {Null}
  ELSE /\ Chains(Heads, Links, Linked, z, p)
       /\ \A b \in Bg : Working(b) => Job(b, z)
       /\ mpc \in {"train", "swap"} => Lists(new_root)

LinksInv ==
  \E M \in Nat : \E z \in [GroupIds -> Nat], p \in [GroupIds -> 0..M] : LinksWith(z, p)

GroupRecords == [pivot : Nat, next : GroupIds \cup {Null}, array : SUBSET Keys,
                 held : SUBSET Keys, span : SUBSET Keys, frozen : BOOLEAN,
                 temp : BOOLEAN]

GroupsTyped(G, A) ==
  /\ G \in [GroupIds -> GroupRecords] /\ A \subseteq GroupIds
  /\ \A g \in A : G[g].pivot \in Keys /\ G[g].span \subseteq G[g].held
  /\ \A g \in GroupIds \ A : G[g] = NoGroup

RootRecords == [pivots : Seq(Keys), slots : Seq(GroupIds \cup {Null})]

\* What the variables hold.
Store ==
  /\ plan \in Scenarios
  /\ ralloc \subseteq RootIds /\ models \subseteq RootIds
  /\ roots \in [RootIds -> RootRecords]
  /\ \A r \in ralloc :
       /\ Len(roots[r].slots) = Len(roots[r].pivots)
       /\ Len(roots[r].slots) > 0 /\ roots[r].slots[1] # Null
  /\ GroupsTyped(group, galloc)
  /\ update \subseteq Bg /\ bg_running \in BOOLEAN
  /\ mpc \in {"round", "wait", "create", "train", "swap", "trim", "last",
              "join", "exit"}
  /\ \A b \in Bg :
       /\ adj[b].pc \in AdjusterPlaces
       /\ adj[b].pc \in {"poll", "exit", "slot", "group"} => adj[b].old = <<>>
       /\ adj[b].pc \in {"poll", "exit", "slot", "group", "discard"} => adj[b].mid = <<>>

\* A slot leads to a group in memory that will not be freed.
SlotsAlive ==
  \A r \in ralloc : \A i \in DOMAIN roots[r].slots :
    roots[r].slots[i] = Null \/ (/\ roots[r].slots[i] \in galloc
                                 /\ \A b \in Bg : roots[r].slots[i] \notin Doomed(b))

\* A worker may hold a group that will be freed only if the barrier waits for it.
Call(w) ==
  /\ wk[w].pc \in WorkerPlaces
  /\ wk[w].pc = "idle" => wk[w].g = Null
  /\ wk[w].pc \in {"chain", "use", "next"} => wk[w].g # Null
  /\ wk[w].pc \notin {"idle", "root"} => wk[w].r # Null
  /\ wk[w].pc \notin {"idle", "root", "predict"} =>
       wk[w].i \in 0..(Len(roots[wk[w].r].slots) - 1)
  /\ wk[w].g \in galloc \cup {Null}
  /\ wk[w].out \in Seq(Keys)
  /\ \A b \in Bg : wk[w].g \in Doomed(b) => w \in wait[b]

Calls == \A w \in Workers : Call(w)

GroupInv == RootInv /\ Store /\ SlotsAlive /\ Calls /\ LinksInv

\* The argument in a round, with witnesses.
Hang(M, z, p) ==
  /\ M \in Nat /\ z \in [GroupIds -> Nat] /\ p \in [GroupIds -> 0..M]
  /\ Chains(Heads, Links, Linked, z, p)
  /\ \A b \in Bg : Working(b) => Job(b, z)

\* Groups and slots.
LEMMA LinkTypes ==
  ASSUME Store
  PROVE  /\ Null \notin GroupIds /\ Links \in [GroupIds -> GroupIds \cup {Null}]
         /\ \A g \in GroupIds : Links[g] = group[g].next
         /\ Linked \in SUBSET GroupIds /\ Linked \subseteq galloc /\ galloc \subseteq GroupIds
         /\ \A g \in GroupIds \ galloc : Links[g] = Null
<1>1. \A g \in GroupIds : group[g].next \in GroupIds \cup {Null}
  BY DEF Store, GroupsTyped, GroupRecords
<1>2. \A g \in GroupIds \ galloc : group[g].next = Null
  BY DEF Store, GroupsTyped, NoGroup
<1>3. galloc \subseteq GroupIds
  BY DEF Store, GroupsTyped
<1>4. Null \notin GroupIds
  BY DEF Null, GroupIds
<1> QED
  BY <1>1, <1>2, <1>3, <1>4 DEF Links, Linked

\* The slots of the root and the chains that hang off them.
LEMMA SlotTypes ==
  ASSUME Store, root \in ralloc
  PROVE  /\ Len(roots[root].slots) \in Nat \ {0} /\ roots[root].slots[1] # Null
         /\ roots[root].slots \in Seq(GroupIds \cup {Null})
         /\ Slots \subseteq Nat
         /\ \A i \in Slots : roots[root].slots[i + 1] \in GroupIds \cup {Null}
         /\ Heads \in [Slots -> GroupIds \cup {Null}]
         /\ \A i \in Slots : Heads[i] = IF Masked(i) THEN Null ELSE roots[root].slots[i + 1]
<1>1. roots[root] \in RootRecords /\ Len(roots[root].slots) > 0
  BY DEF Store
<1>2. roots[root].slots \in Seq(GroupIds \cup {Null})
  BY <1>1 DEF RootRecords
<1>3. Len(roots[root].slots) \in Nat \ {0}
  BY <1>1, <1>2
<1>4. \A i \in Slots : i + 1 \in 1..Len(roots[root].slots)
  BY <1>3 DEF Slots
<1>5. \A i \in Slots : roots[root].slots[i + 1] \in GroupIds \cup {Null}
  BY <1>2, <1>4
<1>6. Slots \subseteq Nat
  BY DEF Slots
<1>7. roots[root].slots[1] # Null
  BY DEF Store
<1>8. \A i \in Slots : Heads[i] = IF Masked(i) THEN Null ELSE roots[root].slots[i + 1]
  BY DEF Heads
<1>9. Heads \in [Slots -> GroupIds \cup {Null}]
  BY <1>5 DEF Heads
<1> QED
  BY <1>2, <1>3, <1>5, <1>6, <1>7, <1>8, <1>9

\* The shares of the adjusters are disjoint.
LEMMA Shares ==
  ASSUME Store, root \in ralloc, NEW b \in Bg
  PROVE  /\ Share(b) \subseteq Slots
         /\ \A c \in Bg : c # b => Share(b) \cap Share(c) = {}
<1> DEFINE n == Len(roots[root].slots)
<1>1. n \in Nat
  BY SlotTypes
<1> HIDE DEF n
<1>2. /\ RangeBegin(b, n) \in Nat /\ RangeEnd(b, n) \in Nat /\ RangeEnd(b, n) <= n
      /\ \A c \in Bg : b < c => RangeEnd(b, n) <= RangeBegin(c, n)
  BY <1>1, Ranges
<1>3. Share(b) \subseteq Slots
  BY <1>1, <1>2 DEF Share, Slots, n
<1>4. ASSUME NEW c \in Bg, c # b PROVE Share(b) \cap Share(c) = {}
  <2>1. /\ RangeBegin(c, n) \in Nat /\ RangeEnd(c, n) \in Nat
        /\ c < b => RangeEnd(c, n) <= RangeBegin(b, n)
    BY <1>1, Ranges
  <2>2. b < c \/ c < b
    BY <1>4, RootAssumption DEF Bg
  <2> QED
    BY <1>2, <2>1, <2>2 DEF Share, n
<1> QED
  BY <1>3, <1>4

\* Only the adjuster of its share masks a slot.
LEMMA MaskedBy ==
  ASSUME RootInv, Store, NEW M, NEW z, NEW p, Hang(M, z, p), NEW i, Masked(i)
  PROVE  \E b \in Bg : /\ adj[b].kind = "merge" /\ adj[b].pc \in {"second", "quiesce"}
                       /\ adj[b].nloc = <<"slot", i>> /\ i = adj[b].i + 1 /\ i \in Share(b)
                       /\ BySlot(b) /\ Done(b, z)
<1>1. PICK b \in Bg : /\ adj[b].kind = "merge" /\ adj[b].pc \in {"second", "quiesce"}
                      /\ adj[b].nloc = <<"slot", i>>
  BY DEF Masked
<1>2. Done(b, z)
  BY <1>1 DEF Hang, Job, Working
<1>3. BySlot(b)
  BY <1>1, <1>2 DEF Done, Compacting, Splitting, ByNext
<1>4. i = adj[b].i + 1
  BY <1>1, <1>3 DEF BySlot
<1> QED
  BY <1>1, <1>2, <1>3, <1>4 DEF BySlot

\* An adjuster masks only the slot after its own.
LEMMA NotMasked ==
  ASSUME RootInv, Store, NEW M, NEW z, NEW p, Hang(M, z, p), NEW b \in Bg, Working(b),
         NEW i \in Share(b), i = adj[b].i \/ adj[b].pc \notin {"second", "quiesce"}
  PROVE  ~Masked(i)
<1> SUFFICES ASSUME Masked(i) PROVE FALSE
  OBVIOUS
<1>1. PICK c \in Bg : i \in Share(c) /\ i = adj[c].i + 1 /\ adj[c].pc \in {"second", "quiesce"}
  BY MaskedBy
<1>2. root \in ralloc
  BY DEF RootInv, RootsLive
<1>3. b = c
  BY <1>1, <1>2, Shares
<1>4. i \in Nat
  BY <1>2, Shares, SlotTypes
<1>5. adj[b].i \in Nat
  <2>1. Place(b, z)
    BY DEF Hang, Job
  <2>2. adj[b].i \in Share(b)
    BY <1>1, <1>3, <2>1 DEF Place
  <2> QED
    BY <1>2, <2>2, Shares, SlotTypes
<1> QED
  BY <1>1, <1>3, <1>4, <1>5

\* The group that adjuster b has before it.
LEMMA AtHand ==
  ASSUME RootInv, Store, NEW M, NEW z, NEW p, Hang(M, z, p), NEW b \in Bg, Working(b),
         adj[b].pc # "slot"
  PROVE  /\ adj[b].i \in Share(b) /\ adj[b].i \in Slots
         /\ Here(b) = Null \/ (Here(b) \in Linked /\ z[Here(b)] = adj[b].i)
         /\ \/ /\ adj[b].loc = <<"slot", adj[b].i>>
               /\ Here(b) = roots[root].slots[adj[b].i + 1]
               /\ Here(b) = Heads[adj[b].i]
            \/ \E l \in Linked : /\ adj[b].loc = <<"next", l>> /\ z[l] = adj[b].i
                                 /\ Here(b) = Links[l]
<1>1. root \in ralloc /\ adj[b].r = root
  BY DEF RootInv, RootsLive, Rounds
<1>2. Place(b, z)
  BY DEF Hang, Job
<1>3. adj[b].i \in Share(b) /\ adj[b].i \in Slots
  BY <1>1, <1>2, Shares DEF Place
<1>4. CASE adj[b].loc = <<"slot", adj[b].i>>
  <2>1. Here(b) = roots[root].slots[adj[b].i + 1]
    BY <1>1, <1>4 DEF Here, Deref
  <2>2. ~Masked(adj[b].i)
    BY <1>3, NotMasked
  <2>3. Here(b) = Heads[adj[b].i]
    BY <1>1, <1>3, <2>1, <2>2, SlotTypes
  <2>4. adj[b].i \in DOMAIN Heads
    BY <1>1, <1>3, SlotTypes
  <2>5. Here(b) = Null \/ (Here(b) \in Linked /\ z[Here(b)] = adj[b].i)
    BY <2>3, <2>4 DEF Hang, Chains
  <2> QED
    BY <1>3, <1>4, <2>1, <2>3, <2>5
<1>5. ASSUME NEW l \in Linked, adj[b].loc = <<"next", l>>, z[l] = adj[b].i
      PROVE  /\ Here(b) = Links[l]
             /\ Here(b) = Null \/ (Here(b) \in Linked /\ z[Here(b)] = adj[b].i)
  <2>1. Here(b) = group[l].next
    BY <1>5 DEF Here, Deref
  <2>2. Links[l] = group[l].next
    BY LinkTypes
  <2> QED
    BY <1>5, <2>1, <2>2 DEF Hang, Chains
<1> QED
  BY <1>2, <1>3, <1>4, <1>5 DEF Place

\* What belongs to an adjuster hangs off no slot, and nobody else has it.
LEMMA OwnedApart ==
  ASSUME RootInv, Store, NEW M, NEW z, NEW p, Hang(M, z, p), NEW b \in Bg,
         NEW x \in Unlinked(b)
  PROVE  /\ Working(b) /\ x \in galloc /\ x \notin Linked /\ z[x] \in Share(b)
         /\ \A c \in Bg : c # b => x \notin Unlinked(c)
<1>1. \A c \in Bg : Unlinked(c) # {} => Working(c)
  BY DEF Unlinked, Working
<1>2. \A c \in Bg : x \in Unlinked(c) => Owned(c, z)
  BY <1>1 DEF Hang, Job
<1>3. \A c \in Bg : x \in Unlinked(c) => z[x] \in Share(c)
  BY <1>2 DEF Owned
<1>4. x \in galloc
  BY <1>2 DEF Owned
<1>5. x \notin Linked
  BY DEF Linked
<1>6. \A c \in Bg : c # b => Share(b) \cap Share(c) = {}
  BY Shares DEF RootInv, RootsLive
<1> QED
  BY <1>1, <1>3, <1>4, <1>5, <1>6

\* No slot of the root leads to a group that will be freed.
LEMMA RootSlotsAlive ==
  ASSUME RootInv, Store, NEW M, NEW z, NEW p, Hang(M, z, p),
         NEW i \in Slots, roots[root].slots[i + 1] # Null
  PROVE  /\ roots[root].slots[i + 1] \in galloc
         /\ \A b \in Bg : roots[root].slots[i + 1] \notin Doomed(b)
<1> DEFINE x == roots[root].slots[i + 1]
<1>1. root \in ralloc
  BY DEF RootInv, RootsLive
<1>2. CASE x \in Linked
  BY <1>2, OwnedApart DEF Linked, Doomed
<1>3. CASE ~Masked(i)
  <2>1. Heads[i] = x /\ i \in DOMAIN Heads
    BY <1>1, <1>3, SlotTypes
  <2> QED
    BY <1>2, <2>1 DEF Hang, Chains
<1>4. CASE Masked(i)
  <2>1. PICK b \in Bg : /\ adj[b].kind = "merge" /\ adj[b].pc \in {"second", "quiesce"}
                        /\ adj[b].nloc = <<"slot", i>> /\ i = adj[b].i + 1 /\ i \in Share(b)
                        /\ BySlot(b) /\ Done(b, z)
    BY <1>4, MaskedBy
  <2>2. adj[b].i \in Nat /\ i \in Nat
    <3>1. Working(b) /\ adj[b].pc # "slot"
      BY <2>1 DEF Working
    <3>2. adj[b].i \in Slots
      BY <3>1, AtHand
    <3> QED
      BY <1>1, <3>2, SlotTypes
  <2>3. SecondSlot(b) = x
    <3>1. adj[b].i + 2 = i + 1
      BY <2>1, <2>2
    <3> QED
      BY <3>1 DEF SecondSlot
  <2>4. PICK o \in GroupIds, q \in GroupIds :
          /\ Merging(b, o, q)
          /\ adj[b].pc = "second" => x = q
          /\ adj[b].pc = "quiesce" => x = adj[b].new[1]
    BY <2>1, <2>3 DEF Done, Compacting, Splitting, ByNext
  <2>5. CASE adj[b].pc = "second"
    <3>1. x \in Unlinked(b)
      BY <2>4, <2>5 DEF Unlinked, Merging, Range
    <3> QED
      BY <2>5, <3>1, OwnedApart DEF Doomed
  <2>6. CASE adj[b].pc = "quiesce"
    <3>1. x \in Linked
      BY <2>1, <2>4, <2>6 DEF Done
    <3> QED
      BY <1>2, <3>1
  <2> QED
    BY <2>1, <2>5, <2>6
<1> QED
  BY <1>3, <1>4

\* Nor does any group that will not be freed with it.
LEMMA NextAlive ==
  ASSUME RootInv, Store, NEW M, NEW z, NEW p, Hang(M, z, p),
         NEW g \in galloc, Links[g] # Null
  PROVE  /\ Links[g] \in galloc
         /\ \A b \in Bg : Links[g] \in Doomed(b) => g \in Doomed(b)
<1> DEFINE x == Links[g]
<1>1. CASE x \in Linked
  BY <1>1, OwnedApart DEF Linked, Doomed
<1>2. CASE g \in Linked
  BY <1>1, <1>2 DEF Hang, Chains
<1>3. ASSUME NEW b \in Bg, g \in Unlinked(b)
      PROVE  /\ Links[g] \in galloc
             /\ \A c \in Bg : Links[g] \in Doomed(c) => g \in Doomed(c)
  <2>1. Working(b)
    BY <1>3, OwnedApart
  <2>2. x \in Unlinked(b) \/ x \in Linked
    BY <1>3, <2>1 DEF Hang, Job, Owned
  <2>3. CASE x \in Unlinked(b)
    <3>1. x \in galloc /\ \A c \in Bg : c # b => x \notin Unlinked(c)
      BY <2>3, OwnedApart
    <3> QED
      BY <1>3, <3>1 DEF Doomed
  <2> QED
    BY <1>1, <2>2, <2>3
<1> QED
  BY <1>2, <1>3 DEF Linked

\* A step of adjuster b changes groups and slots of its share only, and takes new
\* groups from its pool.
Elsewhere(b, z, z2) ==
  /\ \A c \in Bg \ {b} : adj'[c] = adj[c]
  /\ root' = root /\ Len(roots'[root].slots) = Len(roots[root].slots)
  /\ \A i \in Slots \ Share(b) : roots'[root].slots[i + 1] = roots[root].slots[i + 1]
  /\ \A x \in galloc : z[x] \notin Share(b) =>
       /\ x \in galloc' /\ (x \in Linked => x \in Linked')
       /\ group'[x].next = group[x].next /\ z2[x] = z[x]
  /\ galloc' \ galloc \subseteq PoolOf(b)

\* The jobs of the other adjusters are not disturbed.
LEMMA OtherJobs ==
  ASSUME RootInv, Store, Store', NEW M, NEW z, NEW p, Hang(M, z, p),
         NEW b \in Bg, NEW z2, Elsewhere(b, z, z2), NEW c \in Bg, c # b, Working(c)
  PROVE  Job(c, z2)'
<1> DEFINE a == adj[c]
<1>1. /\ adj'[c] = a /\ root' = root
      /\ Len(roots'[root].slots) = Len(roots[root].slots)
      /\ Unlinked(c)' = Unlinked(c) /\ Share(c)' = Share(c)
      /\ a.r = root /\ root \in ralloc
  BY DEF Elsewhere, Unlinked, Share, RangeBegin, RangeEnd, RootInv, Rounds, RootsLive
<1>2. Job(c, z)
  BY DEF Hang
\* What hangs off a slot of c stays as it is.
<1>3. ASSUME NEW i \in Share(c) PROVE i \in Slots /\ i \notin Share(b)
  BY <1>1, Shares
<1>4. ASSUME NEW x \in galloc, z[x] \in Share(c)
      PROVE  /\ x \in galloc' /\ (x \in Linked => x \in Linked')
             /\ Links'[x] = Links[x] /\ z2[x] = z[x]
  <2>1. z[x] \notin Share(b)
    BY <1>3, <1>4
  <2>2. Links'[x] = group'[x].next /\ Links[x] = group[x].next
    BY <1>4, LinkTypes DEF Links
  <2> QED
    BY <1>4, <2>1, <2>2 DEF Elsewhere
<1>5. ASSUME NEW i \in Share(c) PROVE roots'[root].slots[i + 1] = roots[root].slots[i + 1]
  BY <1>3, <1>5 DEF Elsewhere
<1>6. \A x \in Linked : x \in galloc
  BY LinkTypes
<1>7. Place(c, z2)'
  BY <1>1, <1>2, <1>4, <1>6 DEF Job, Place, RangeBegin, RangeEnd
<1>8. Owned(c, z2)'
  BY <1>1, <1>2, <1>4, <1>6 DEF Job, Owned
<1>9. a.pc # "slot" => /\ a.i \in Share(c)
                       /\ Here(c)' = Here(c)
                       /\ Here(c) # Null => Here(c) \in Linked /\ z[Here(c)] = a.i
  <2> SUFFICES ASSUME a.pc # "slot"
               PROVE  /\ a.i \in Share(c) /\ Here(c)' = Here(c)
                      /\ Here(c) # Null => Here(c) \in Linked /\ z[Here(c)] = a.i
    OBVIOUS
  <2>1. /\ a.i \in Share(c)
        /\ Here(c) = Null \/ (Here(c) \in Linked /\ z[Here(c)] = a.i)
        /\ \/ /\ a.loc = <<"slot", a.i>> /\ Here(c) = roots[root].slots[a.i + 1]
           \/ \E l \in Linked : a.loc = <<"next", l>> /\ z[l] = a.i /\ Here(c) = Links[l]
    BY AtHand
  <2>2. CASE a.loc = <<"slot", a.i>> /\ Here(c) = roots[root].slots[a.i + 1]
    <3>1. Here(c)' = roots'[root].slots[a.i + 1]
      BY <1>1, <2>2 DEF Here, Deref
    <3> QED
      BY <1>5, <2>1, <2>2, <3>1
  <2>3. ASSUME NEW l \in Linked, a.loc = <<"next", l>>, z[l] = a.i, Here(c) = Links[l]
        PROVE  Here(c)' = Here(c)
    <3>1. Here(c)' = group'[l].next /\ Links'[l] = group'[l].next
      BY <1>1, <2>3, LinkTypes DEF Here, Deref, Links
    <3> QED
      BY <1>4, <1>6, <2>1, <2>3, <3>1
  <2> QED
    BY <2>1, <2>2, <2>3
<1>10. BySlot(c) => SecondSlot(c)' = SecondSlot(c)
  <2> SUFFICES ASSUME BySlot(c) PROVE SecondSlot(c)' = SecondSlot(c)
    OBVIOUS
  <2>1. a.i + 1 \in Share(c)
    BY DEF BySlot
  <2>2. roots'[root].slots[a.i + 1 + 1] = roots[root].slots[a.i + 1 + 1]
    BY <1>5, <2>1
  <2>3. a.i \in RangeBegin(c, Len(roots[root].slots))..RangeEnd(c, Len(roots[root].slots))
    BY <1>2 DEF Job, Place
  <2>4. a.i + 1 + 1 = a.i + 2
    <3>1. Len(roots[root].slots) \in Nat
      BY <1>1, SlotTypes
    <3>2. a.i \in Int
      BY <2>3
    <3> QED
      BY <3>2
  <2> QED
    BY <1>1, <2>2, <2>4 DEF SecondSlot
<1>11. (BySlot(c)' <=> BySlot(c)) /\ \A o : ByNext(c, o)' <=> ByNext(c, o)
  BY <1>1 DEF BySlot, ByNext
<1>12. \A o, q, m : /\ Compacting(c, o)' <=> Compacting(c, o)
                    /\ Merging(c, o, q)' <=> Merging(c, o, q)
                    /\ Splitting(c, o, q, m)' <=> Splitting(c, o, q, m)
  BY <1>1 DEF Compacting, Merging, Splitting
\* The groups that c is about to replace.
<1>13. a.pc \in {"drain", "publish"} =>
         /\ a.kind = "compact" => \E o \in GroupIds :
              Compacting(c, o) /\ Here(c) = o /\ Links'[o] = Links[o]
         /\ a.kind = "merge" => \E o, q \in GroupIds :
              /\ Merging(c, o, q) /\ Here(c) = o /\ Links'[o] = Links[o] /\ Links'[q] = Links[q]
              /\ \/ ByNext(c, o) /\ Links[o] = q
                 \/ BySlot(c) /\ Links[o] = Null /\ SecondSlot(c) = q
         /\ a.kind = "split" => \E o, m, k \in GroupIds :
              /\ Splitting(c, o, m, k) /\ Here(c) = m /\ Links[m] = k
              /\ Links'[m] = Links[m] /\ Links'[k] = Links[k]
         /\ a.kind \in {"compact", "merge", "split"}
  <2> SUFFICES ASSUME a.pc \in {"drain", "publish"}
               PROVE  /\ a.kind = "compact" => \E o \in GroupIds :
                           Compacting(c, o) /\ Here(c) = o /\ Links'[o] = Links[o]
                      /\ a.kind = "merge" => \E o, q \in GroupIds :
                           /\ Merging(c, o, q) /\ Here(c) = o /\ Links'[o] = Links[o]
                           /\ Links'[q] = Links[q]
                           /\ \/ ByNext(c, o) /\ Links[o] = q
                              \/ BySlot(c) /\ Links[o] = Null /\ SecondSlot(c) = q
                      /\ a.kind = "split" => \E o, m, k \in GroupIds :
                           /\ Splitting(c, o, m, k) /\ Here(c) = m /\ Links[m] = k
                           /\ Links'[m] = Links[m] /\ Links'[k] = Links[k]
                      /\ a.kind \in {"compact", "merge", "split"}
    OBVIOUS
  <2>1. \A x \in GroupIds : x # Null
    BY LinkTypes
  <2>2. Here(c) # Null => /\ Here(c) \in Linked /\ z[Here(c)] \in Share(c)
                          /\ Links'[Here(c)] = Links[Here(c)]
    BY <1>4, <1>6, <1>9
  <2>3. ASSUME NEW x \in Linked, z[x] \in Share(c), Links[x] # Null
        PROVE  Links[x] \in Linked /\ z[Links[x]] \in Share(c) /\ Links'[Links[x]] = Links[Links[x]]
    <3>1. Links[x] \in Linked /\ z[Links[x]] = z[x]
      BY <2>3 DEF Hang, Chains
    <3> QED
      BY <1>4, <1>6, <2>3, <3>1
  <2>4. Task(c)
    BY <1>2 DEF Job
  <2>5. ASSUME NEW o \in GroupIds, Compacting(c, o), Here(c) = o PROVE Links'[o] = Links[o]
    BY <2>1, <2>2, <2>5
  <2>6. ASSUME NEW o \in GroupIds, NEW q \in GroupIds, Merging(c, o, q), Here(c) = o,
               \/ ByNext(c, o) /\ Links[o] = q
               \/ BySlot(c) /\ Links[o] = Null /\ SecondSlot(c) = q
        PROVE  Links'[o] = Links[o] /\ Links'[q] = Links[q]
    <3>1. Links'[o] = Links[o] /\ o \in Linked /\ z[o] \in Share(c)
      BY <2>1, <2>2, <2>6
    <3>2. CASE Links[o] = q
      BY <2>1, <2>3, <2>6, <3>1, <3>2
    <3>3. CASE BySlot(c) /\ SecondSlot(c) = q
      <4> DEFINE i == a.i + 1
      <4>1. i \in Share(c) /\ i \in Slots
        BY <1>3, <3>3 DEF BySlot
      <4>2. a.pc \notin {"second", "quiesce"} /\ Working(c)
        OBVIOUS
      <4>3. ~Masked(i)
        BY <4>1, <4>2, NotMasked
      <4>4. Heads[i] = roots[root].slots[i + 1] /\ DOMAIN Heads = Slots
        BY <1>1, <4>1, <4>3, SlotTypes
      <4>5. i + 1 = a.i + 2
        <5>1. a.i \in Slots
          BY <1>3, <1>9
        <5>2. a.i \in Nat
          BY <1>1, <5>1, SlotTypes
        <5> QED
          BY <5>2
      <4>6. Heads[i] = q
        BY <3>3, <4>4, <4>5 DEF SecondSlot
      <4>7. q \in Linked /\ z[q] = i
        BY <2>1, <4>1, <4>4, <4>6 DEF Hang, Chains
      <4> QED
        BY <1>4, <1>6, <3>1, <4>1, <4>7
    <3> QED
      BY <2>6, <3>2, <3>3
  <2>7. ASSUME NEW m \in GroupIds, NEW k \in GroupIds, Here(c) = m, Links[m] = k
        PROVE  Links'[m] = Links[m] /\ Links'[k] = Links[k]
    BY <2>1, <2>2, <2>3, <2>7
  <2> QED
    BY <2>4, <2>5, <2>6, <2>7 DEF Task, Compacting, Merging, Splitting
<1>14. Task(c)'
  <2> SUFFICES ASSUME a.pc \in {"drain", "publish"} PROVE Task(c)'
    BY <1>1 DEF Task
  <2>1. Here(c)' = Here(c)
    BY <1>9
  <2>2. CASE a.kind = "compact"
    <3>1. PICK o \in GroupIds : Compacting(c, o) /\ Here(c) = o
      BY <1>13, <2>2
    <3> QED
      BY <1>12, <2>1, <3>1 DEF Task
  <2>3. CASE a.kind = "merge"
    <3>1. PICK o \in GroupIds, q \in GroupIds :
            /\ Merging(c, o, q) /\ Here(c) = o /\ Links'[o] = Links[o]
            /\ \/ ByNext(c, o) /\ Links[o] = q
               \/ BySlot(c) /\ Links[o] = Null /\ SecondSlot(c) = q
      BY <1>13, <2>3
    <3> QED
      BY <1>10, <1>11, <1>12, <2>1, <3>1 DEF Task
  <2>4. CASE a.kind = "split"
    <3>1. PICK o \in GroupIds, m \in GroupIds, k \in GroupIds :
            /\ Splitting(c, o, m, k) /\ Here(c) = m /\ Links[m] = k /\ Links'[m] = Links[m]
      BY <1>13, <2>4
    <3> QED
      BY <1>12, <2>1, <3>1 DEF Task
  <2> QED
    BY <1>13, <2>2, <2>3, <2>4
<1>15. Ready(c)'
  <2>1. a.pc = "drain" =>
          /\ \E x \in PoolOf(c) : x \notin galloc'
          /\ a.kind = "split" => \E x, y \in PoolOf(c) : x # y /\ {x, y} \cap galloc' = {}
    <3>1. PoolOf(b) \cap PoolOf(c) = {}
      BY Pools, RootAssumption DEF Bg
    <3>2. \A x \in PoolOf(c) : x \notin galloc => x \notin galloc'
      BY <3>1 DEF Elsewhere
    <3> QED
      BY <1>2, <3>2 DEF Job, Ready
  <2>2. a.pc = "publish" => \A x \in Unlinked(c) : Links'[x] = Links[x]
    BY <1>2, <1>4 DEF Job, Owned
  <2>3. a.pc = "publish" /\ a.kind # "split" =>
           \E n \in GroupIds : a.new = <<n>> /\ Links'[n] = Links'[a.old[Len(a.old)]]
    <3> SUFFICES ASSUME a.pc = "publish", a.kind # "split"
                 PROVE  \E n \in GroupIds :
                          a.new = <<n>> /\ Links'[n] = Links'[a.old[Len(a.old)]]
      OBVIOUS
    <3>1. PICK n \in GroupIds : a.new = <<n>> /\ Links[n] = Links[a.old[Len(a.old)]]
      BY <1>2 DEF Job, Ready
    <3>2. n \in Unlinked(c)
      BY <3>1 DEF Unlinked
    <3>3. Links'[a.old[Len(a.old)]] = Links[a.old[Len(a.old)]]
      <4>1. CASE a.kind = "compact"
        <5>1. PICK o \in GroupIds : Compacting(c, o) /\ Links'[o] = Links[o]
          BY <1>13, <4>1
        <5> QED
          BY <5>1 DEF Compacting
      <4>2. CASE a.kind = "merge"
        <5>1. PICK o \in GroupIds, q \in GroupIds : Merging(c, o, q) /\ Links'[q] = Links[q]
          BY <1>13, <4>2
        <5> QED
          BY <5>1 DEF Merging
      <4> QED
        BY <1>13, <4>1, <4>2
    <3> QED
      BY <2>2, <3>1, <3>2, <3>3
  <2>4. a.pc = "publish" /\ a.kind = "split" =>
           \E n, k \in GroupIds :
             /\ a.new = <<n, k>> /\ n # k /\ a.old[1] \notin {n, k}
             /\ Links'[n] = k /\ Links'[k] = Links'[a.mid[2]]
    <3> SUFFICES ASSUME a.pc = "publish", a.kind = "split"
                 PROVE  \E n, k \in GroupIds :
                          /\ a.new = <<n, k>> /\ n # k /\ a.old[1] \notin {n, k}
                          /\ Links'[n] = k /\ Links'[k] = Links'[a.mid[2]]
      OBVIOUS
    <3>1. PICK n \in GroupIds, k \in GroupIds :
            /\ a.new = <<n, k>> /\ n # k /\ a.old[1] \notin {n, k}
            /\ Links[n] = k /\ Links[k] = Links[a.mid[2]]
      BY <1>2 DEF Job, Ready
    <3>2. n \in Unlinked(c) /\ k \in Unlinked(c)
      BY <3>1 DEF Unlinked
    <3>3. Links'[a.mid[2]] = Links[a.mid[2]]
      BY <1>13 DEF Splitting
    <3> QED
      BY <2>2, <3>1, <3>2, <3>3
  <2> QED
    BY <1>1, <2>1, <2>3, <2>4 DEF Ready
<1>16. Done(c, z2)'
  <2> SUFFICES ASSUME a.pc \in {"second", "quiesce", "settle"} PROVE Done(c, z2)'
    BY <1>1 DEF Done
  <2>1. Done(c, z)
    BY <1>2 DEF Job
  <2>2. \A x \in Linked : z[x] = a.i => x \in Linked' /\ z2[x] = z[x]
    BY <1>4, <1>6, <1>9
  <2>3. a.kind # "split" => \E n \in Linked' : a.new = <<n>> /\ z2[n] = a.i
    BY <2>1, <2>2 DEF Done
  <2>4. a.kind = "split" => \E n, k \in Linked' : 
                               a.new = <<n, k>> /\ z2[n] = a.i /\ z2[k] = a.i
    BY <2>1, <2>2 DEF Done
  <2> QED
    BY <1>1, <1>10, <1>11, <1>12, <2>1, <2>3, <2>4 DEF Done
<1> QED
  BY <1>7, <1>8, <1>14, <1>15, <1>16 DEF Job

\* What a step of adjuster b has to leave behind.
LEMMA Stepped ==
  ASSUME RootInv, Store, Store', UNCHANGED mpc, NEW M, NEW z, NEW p, Hang(M, z, p),
         NEW b \in Bg, NEW M2 \in Nat, NEW z2 \in [GroupIds -> Nat],
         NEW p2 \in [GroupIds -> 0..M2], Elsewhere(b, z, z2),
         Chains(Heads', Links', Linked', z2, p2), Working(b)' => Job(b, z2)'
  PROVE  Hang(M2, z2, p2)'
<1>1. ASSUME NEW c \in Bg, Working(c)' PROVE Job(c, z2)'
  <2>1. CASE c = b
    BY <1>1, <2>1
  <2>2. CASE c # b
    <3>1. Working(c)
      BY <1>1, <2>2 DEF Elsewhere, Working
    <3> QED
      BY <2>2, <3>1, OtherJobs
  <2> QED
    BY <2>1, <2>2
<1> QED
  BY <1>1 DEF Hang

\* A step that leaves all chains as they are.
LEMMA QuietChains ==
  ASSUME RootInv, Store, Store', NEW M, NEW z, NEW p, Hang(M, z, p),
         root' = root, Len(roots'[root].slots) = Len(roots[root].slots),
         \A i \in Slots : Heads'[i] = Heads[i],
         Linked' = Linked, NEW z2,
         \A x \in Linked : group'[x].next = group[x].next /\ z2[x] = z[x]
  PROVE  Chains(Heads', Links', Linked', z2, p)
<1>1. root \in ralloc
  BY DEF RootInv, RootsLive
<1>2. Slots' = Slots
  BY DEF Slots
<1>3. Heads' = Heads
  BY <1>2 DEF Heads
<1>4. \A x \in Linked : Links'[x] = Links[x]
  BY LinkTypes DEF Links
<1> QED
  BY <1>3, <1>4, ChainsOf DEF Hang

\* *loc = g
PointEffect(loc, g, G) ==
  /\ roots' \in [RootIds -> RootRecords]
  /\ roots'[root].pivots = roots[root].pivots
  /\ Len(roots'[root].slots) = Len(roots[root].slots)
  /\ group' \in [GroupIds -> GroupRecords]
  /\ \/ \E i \in Slots :
          /\ loc = <<"slot", i>> /\ roots'[root].slots[i + 1] = g
          /\ \A j \in Slots \ {i} : roots'[root].slots[j + 1] = roots[root].slots[j + 1]
          /\ group' = G
     \/ \E l \in GroupIds :
          /\ loc = <<"next", l>> /\ roots' = roots
          /\ group' = [G EXCEPT ![l].next = g]

\* *loc = g writes one slot of the root or the next of one group.
LEMMA PointFacts ==
  ASSUME RootInv, Store, NEW b \in Bg, adj[b].r = root,
         NEW G \in [GroupIds -> GroupRecords], NEW g \in GroupIds \cup {Null}, NEW loc,
         \/ \E i \in Slots : loc = <<"slot", i>>
         \/ \E l \in GroupIds : loc = <<"next", l>>,
         Point(b, loc, g, G)
  PROVE  PointEffect(loc, g, G)
<1>1. /\ root \in ralloc /\ root \in RootIds /\ roots \in [RootIds -> RootRecords]
      /\ roots[root] \in RootRecords
  BY DEF RootInv, RootsLive, Store
<1>2. /\ roots[root].slots \in Seq(GroupIds \cup {Null})
      /\ Len(roots[root].slots) \in Nat /\ roots[root].pivots \in Seq(Keys)
  BY <1>1, SlotTypes DEF RootRecords
<1>3. ASSUME NEW i \in Slots, loc = <<"slot", i>> PROVE PointEffect(loc, g, G)
  <2> DEFINE s == [roots[root].slots EXCEPT ![i + 1] = g]
  <2>1. roots' = [roots EXCEPT ![root].slots[i + 1] = g] /\ group' = G
    BY <1>3 DEF Point
  <2>2. roots'[root] = [roots[root] EXCEPT !.slots = s]
    BY <1>1, <2>1
  <2>3. i + 1 \in 1..Len(roots[root].slots)
    BY <1>2 DEF Slots
  <2>4. s \in Seq(GroupIds \cup {Null}) /\ Len(s) = Len(roots[root].slots) /\ s[i + 1] = g
    BY <1>2, <2>3
  <2>5. \A j \in Slots \ {i} : s[j + 1] = roots[root].slots[j + 1]
    <3> SUFFICES ASSUME NEW j \in Slots \ {i} PROVE s[j + 1] = roots[root].slots[j + 1]
      OBVIOUS
    <3>1. j + 1 \in 1..Len(roots[root].slots) /\ j + 1 # i + 1
      BY <1>2 DEF Slots
    <3> QED
      BY <1>2, <3>1
  <2> HIDE DEF s
  <2>6. roots'[root].slots = s /\ roots'[root].pivots = roots[root].pivots
        /\ roots'[root] \in RootRecords
    BY <1>1, <2>2, <2>4 DEF RootRecords
  <2>7. roots' \in [RootIds -> RootRecords]
    BY <1>1, <2>1, <2>6
  <2>8. group' \in [GroupIds -> GroupRecords]
    BY <2>1
  <2> QED
    BY <1>3, <2>1, <2>4, <2>5, <2>6, <2>7, <2>8 DEF PointEffect
<1>4. ASSUME NEW l \in GroupIds, loc = <<"next", l>> PROVE PointEffect(loc, g, G)
  <2>1. roots' = roots /\ group' = [G EXCEPT ![l].next = g]
    BY <1>4 DEF Point
  <2>2. [G[l] EXCEPT !.next = g] \in GroupRecords
    BY DEF GroupRecords
  <2>3. group' \in [GroupIds -> GroupRecords]
    BY <2>1, <2>2
  <2> QED
    BY <1>1, <1>4, <2>1, <2>3 DEF PointEffect
<1> QED
  BY <1>3, <1>4

\* The links after *loc = g.
LinksAfter(loc, g, G) ==
  \A x \in GroupIds :
    /\ Links'[x] = IF loc = <<"next", x>> THEN g ELSE G[x].next
    /\ Links'[x] = group'[x].next
    /\ loc # <<"next", x>> => group'[x] = G[x]
    /\ group'[x] = [G[x] EXCEPT !.next = Links'[x]]

\* The links after *loc = g.
LEMMA PointLinks ==
  ASSUME NEW loc, NEW g, NEW G \in [GroupIds -> GroupRecords], PointEffect(loc, g, G)
  PROVE  LinksAfter(loc, g, G)
<1> SUFFICES ASSUME NEW x \in GroupIds
             PROVE  /\ Links'[x] = IF loc = <<"next", x>> THEN g ELSE G[x].next
                    /\ Links'[x] = group'[x].next
                    /\ loc # <<"next", x>> => group'[x] = G[x]
                    /\ group'[x] = [G[x] EXCEPT !.next = Links'[x]]
  BY DEF LinksAfter
<1>0. Links'[x] = group'[x].next /\ G[x] \in GroupRecords
  BY DEF Links
<1>3. G[x] = [G[x] EXCEPT !.next = G[x].next]
  BY <1>0 DEF GroupRecords
<1>1. ASSUME NEW i \in Slots, loc = <<"slot", i>>, group' = G
      PROVE  /\ Links'[x] = IF loc = <<"next", x>> THEN g ELSE G[x].next
             /\ loc # <<"next", x>> => group'[x] = G[x]
             /\ group'[x] = [G[x] EXCEPT !.next = Links'[x]]
  BY <1>0, <1>1, <1>3
<1>2. ASSUME NEW l \in GroupIds, loc = <<"next", l>>, group' = [G EXCEPT ![l].next = g]
      PROVE  /\ Links'[x] = IF loc = <<"next", x>> THEN g ELSE G[x].next
             /\ loc # <<"next", x>> => group'[x] = G[x]
             /\ group'[x] = [G[x] EXCEPT !.next = Links'[x]]
  <2>1. CASE l = x
    <3>1. group'[x] = [G[x] EXCEPT !.next = g]
      BY <1>2, <2>1
    <3>2. group'[x].next = g
      BY <1>0, <3>1 DEF GroupRecords
    <3> QED
      BY <1>0, <1>2, <2>1, <3>1, <3>2
  <2>2. CASE l # x
    <3>1. group'[x] = G[x] /\ loc # <<"next", x>>
      BY <1>2, <2>2
    <3> QED
      BY <1>0, <1>3, <3>1
  <2> QED
    BY <2>1, <2>2
<1> QED
  BY <1>0, <1>1, <1>2 DEF PointEffect

\* The adjuster puts groups a and e in the place of c and d, which c leads to.
LEMMA Spliced ==
  ASSUME RootInv, Store, Store', root' = root, NEW M, NEW z, NEW p, Hang(M, z, p),
         NEW b \in Bg, adj[b].pc \in {"group", "publish"},
         NEW c \in GroupIds, c = Here(b), NEW d \in Linked, c = d \/ Links[c] = d,
         NEW a \in GroupIds \ Linked, NEW e \in GroupIds \ Linked,
         NEW G \in [GroupIds -> GroupRecords], PointEffect(adj[b].loc, a, G),
         \A x \in Linked \ {c, d} : G[x].next = Links[x],
         a = e \/ G[a].next = e, G[e].next = Links[d],
         Linked' = (Linked \ {c, d}) \cup {a, e}, \A i \in Slots : Masked(i)' <=> Masked(i)
  PROVE  Rehung(GroupIds, 2 * M + 1, Heads', Links', Linked', z, {a, e}, adj[b].i)
<1> DEFINE i == adj[b].i
           loc == adj[b].loc
<1>1. /\ Null \notin GroupIds /\ Links \in [GroupIds -> GroupIds \cup {Null}]
      /\ Linked \in SUBSET GroupIds
  BY LinkTypes
<1>2. /\ root \in ralloc /\ Slots' = Slots
      /\ Heads \in [Slots -> GroupIds \cup {Null}]
      /\ \A j \in Slots : Heads[j] = IF Masked(j) THEN Null ELSE roots[root].slots[j + 1]
  BY SlotTypes DEF RootInv, RootsLive, PointEffect, Slots
<1>3. Heads' = [j \in Slots |-> IF Masked(j) THEN Null ELSE roots'[root].slots[j + 1]]
  BY <1>2 DEF Heads
<1>4. \A x \in GroupIds : Links'[x] = IF loc = <<"next", x>> THEN a ELSE G[x].next
  <2>1. LinksAfter(adj[b].loc, a, G)
    BY PointLinks
  <2> QED
    BY <2>1 DEF LinksAfter
<1>5. /\ c \in Linked /\ z[c] = i /\ i \in Slots /\ i \in Share(b)
      /\ \/ loc = <<"slot", i>> /\ c = Heads[i]
         \/ \E l \in Linked : loc = <<"next", l>> /\ c = Links[l]
  BY <1>1, AtHand DEF Working
<1>6. ~Masked(i)
  BY <1>5, NotMasked DEF Working
<1>7. Links'[e] = Links[d] /\ (a = e \/ Links'[a] = e)
  BY <1>4, <1>5
<1>8. Relinked(Heads, Links, Linked, z[c], c, d, Heads', Links', a)
  <2>1. CASE loc = <<"slot", i>> /\ c = Heads[i]
    <3>1. PICK k \in Slots : /\ loc = <<"slot", k>> /\ roots'[root].slots[k + 1] = a
                             /\ \A j \in Slots \ {k} :
                                  roots'[root].slots[j + 1] = roots[root].slots[j + 1]
      BY <2>1 DEF PointEffect
    <3>2. k = i
      BY <2>1, <3>1
    <3>3. \A j \in Slots : Heads'[j] = IF j = i THEN a ELSE Heads[j]
      BY <1>2, <1>3, <1>6, <3>1, <3>2
    <3>4. Heads' = [Heads EXCEPT ![z[c]] = a]
      <4>1. Heads' = [j \in Slots |-> IF j = i THEN a ELSE Heads[j]]
        BY <1>3, <3>3
      <4>2. [Heads EXCEPT ![i] = a] = [j \in Slots |-> IF j = i THEN a ELSE Heads[j]]
        BY <1>2
      <4> QED
        BY <1>5, <4>1, <4>2
    <3>5. \A x \in Linked \ {c, d} : Links'[x] = Links[x]
      BY <1>1, <1>4, <2>1
    <3> QED
      BY <1>5, <2>1, <3>4, <3>5 DEF Relinked
  <2>2. ASSUME NEW l \in Linked, loc = <<"next", l>>, c = Links[l]
        PROVE  Relinked(Heads, Links, Linked, z[c], c, d, Heads', Links', a)
    <3>1. roots' = roots
      BY <2>2 DEF PointEffect
    <3>2. Heads' = Heads
      BY <1>2, <1>3, <3>1
    <3>3. Links'[l] = a /\ \A x \in Linked \ {c, d, l} : Links'[x] = Links[x]
      BY <1>1, <1>4, <2>2
    <3> QED
      BY <2>2, <3>2, <3>3 DEF Relinked
  <2> QED
    BY <1>5, <2>1, <2>2
<1> DEFINE H2 == Heads'
           X2 == Links'
           L2 == Linked'
           Y == Links
           H == Heads
           L == Linked
<1>9. /\ Placed(GroupIds, Slots, M, H, Y, L, z, p)
      /\ Splicing(GroupIds, H, Y, L, z, c, d, a, e, H2, X2)
      /\ L2 = (L \ {c, d}) \cup {a, e} /\ z[c] = i
  BY <1>1, <1>2, <1>5, <1>7, <1>8 DEF Hang, Placed, Splicing
<1> HIDE DEF H2, X2, L2, Y, H, L, i
<1>10. Rehung(GroupIds, 2 * M + 1, H2, X2, (L \ {c, d}) \cup {a, e}, z, {a, e}, z[c])
  BY <1>9, Splice
<1> QED
  BY <1>9, <1>10 DEF H2, X2, L2, i

\* The groups that hung off slot i + 1 hang off slot i now, as the new group a does.
Appended(a, z, i) ==
  \E N \in Nat : \E z2 \in [GroupIds -> Nat], p2 \in [GroupIds -> 0..N] :
    /\ Chains(Heads', Links', Linked', z2, p2)
    /\ z2[a] = i
    /\ \A x \in GroupIds \ {a} :
         z2[x] = IF x \in Linked /\ z[x] = i + 1 THEN i ELSE z[x]

\* The second group q hangs off the next slot: its chain is appended to that of
\* group o, and the new group a takes the place of both.
LEMMA SplicedSlot ==
  ASSUME RootInv, Store, Store', root' = root, NEW M, NEW z, NEW p, Hang(M, z, p),
         NEW b \in Bg, adj[b].pc = "publish",
         NEW o \in GroupIds, o = Here(b), Links[o] = Null,
         BySlot(b), NEW q \in GroupIds, SecondSlot(b) = q,
         NEW a \in GroupIds \ Linked, PointEffect(adj[b].loc, a, group), Links[a] = Links[q],
         Linked' = (Linked \ {o, q}) \cup {a},
         \A i \in Slots : Masked(i)' <=> Masked(i) \/ i = adj[b].i + 1
  PROVE  Appended(a, z, adj[b].i)
<1> DEFINE i == adj[b].i
           j == i + 1
           loc == adj[b].loc
           H1 == [Heads EXCEPT ![j] = Null]
           X1 == [Links EXCEPT ![o] = q]
<1>1. /\ Null \notin GroupIds /\ Links \in [GroupIds -> GroupIds \cup {Null}]
      /\ Linked \in SUBSET GroupIds /\ group \in [GroupIds -> GroupRecords]
      /\ \A x \in GroupIds : Links[x] = group[x].next
  BY LinkTypes DEF Store, GroupsTyped
<1>2. /\ root \in ralloc /\ Slots' = Slots /\ Slots \subseteq Nat
      /\ Heads \in [Slots -> GroupIds \cup {Null}]
      /\ \A k \in Slots : Heads[k] = IF Masked(k) THEN Null ELSE roots[root].slots[k + 1]
  BY SlotTypes DEF RootInv, RootsLive, PointEffect, Slots
<1>3. /\ o \in Linked /\ z[o] = i /\ i \in Slots /\ i \in Share(b)
      /\ \/ loc = <<"slot", i>> /\ o = Heads[i]
         \/ \E l \in Linked : loc = <<"next", l>> /\ o = Links[l]
  BY <1>1, AtHand DEF Working
<1>4. j \in Share(b) /\ j \in Slots /\ j # i /\ j + 1 = i + 2
  <2>1. j \in Share(b) /\ j \in Slots
    BY <1>2, Shares DEF BySlot
  <2>2. i \in Nat
    BY <1>2, <1>3
  <2> QED
    BY <2>1, <2>2
<1>5. ~Masked(i) /\ ~Masked(j)
  BY <1>3, <1>4, NotMasked DEF Working
<1>6. Heads[j] = q
  BY <1>2, <1>4, <1>5 DEF SecondSlot
<1>7. q \in Linked /\ z[q] = j
  <2>1. j \in DOMAIN Heads /\ Heads[j] # Null
    BY <1>1, <1>2, <1>4, <1>6
  <2> QED
    BY <1>6, <2>1 DEF Hang, Chains
<1>8. PICK z1, p1 :
        /\ Placed(GroupIds, Slots, 2 * M + 1, H1, X1, Linked, z1, p1)
        /\ \A x \in GroupIds : z1[x] = IF x \in Linked /\ z[x] = j THEN i ELSE z[x]
  <2> DEFINE H == Heads
             X == Links
             L == Linked
  <2>1. Placed(GroupIds, Slots, M, H, X, L, z, p)
    BY <1>1, <1>2 DEF Hang, Placed
  <2>2. o \in L /\ X[o] = Null /\ j \in Slots /\ j # z[o] /\ H[j] # Null /\ H[j] = q /\ z[o] = i
    BY <1>1, <1>3, <1>4, <1>6
  <2> HIDE DEF H, X, L, i, j
  <2>3. Moved(GroupIds, Slots, 2 * M + 1, [H EXCEPT ![j] = Null], [X EXCEPT ![o] = H[j]], L,
               z, j, z[o])
    BY <2>1, <2>2, JoinChains
  <2>4. Moved(GroupIds, Slots, 2 * M + 1, [H EXCEPT ![j] = Null], [X EXCEPT ![o] = q], L,
               z, j, i)
    BY <2>2, <2>3
  <2> QED
    BY <2>4 DEF Moved, H, X, L
<1>9. Heads' = [k \in Slots |-> IF Masked(k)' THEN Null ELSE roots'[root].slots[k + 1]]
  BY <1>2 DEF Heads
<1>10. \A x \in GroupIds : Links'[x] = IF loc = <<"next", x>> THEN a ELSE Links[x]
  <2>1. LinksAfter(adj[b].loc, a, group)
    BY <1>1, PointLinks
  <2> QED
    BY <1>1, <2>1 DEF LinksAfter
<1>11. z1[o] = i
  BY <1>3, <1>4, <1>8
<1>12. Relinked(H1, X1, Linked, i, o, q, Heads', Links', a)
  <2>1. CASE loc = <<"slot", i>> /\ o = Heads[i]
    <3>1. PICK k \in Slots : /\ loc = <<"slot", k>> /\ roots'[root].slots[k + 1] = a
                             /\ \A l \in Slots \ {k} :
                                  roots'[root].slots[l + 1] = roots[root].slots[l + 1]
      BY <2>1 DEF PointEffect
    <3>2. k = i
      BY <2>1, <3>1
    <3>3. \A l \in Slots : Heads'[l] = IF l = i THEN a ELSE IF l = j THEN Null ELSE Heads[l]
      BY <1>2, <1>4, <1>5, <1>9, <3>1, <3>2
    <3>4. Heads' = [H1 EXCEPT ![i] = a]
      <4>1. \A l \in Slots : H1[l] = IF l = j THEN Null ELSE Heads[l]
        BY <1>2
      <4>2. H1 \in [Slots -> GroupIds \cup {Null}] /\ DOMAIN Heads' = Slots
            /\ Heads' = [l \in Slots |-> Heads'[l]]
        BY <1>2, <1>9
      <4> HIDE DEF H1, i, j
      <4> QED
        BY <1>3, <3>3, <4>1, <4>2
    <3>5. \A x \in Linked \ {o, q} : Links'[x] = X1[x]
      BY <1>1, <1>10, <2>1
    <3>6. H1[i] = o
      BY <1>2, <1>3, <1>4, <2>1
    <3> QED
      BY <3>4, <3>5, <3>6 DEF Relinked
  <2>2. ASSUME NEW l \in Linked, loc = <<"next", l>>, o = Links[l]
        PROVE  Relinked(H1, X1, Linked, i, o, q, Heads', Links', a)
    <3>1. roots' = roots
      BY <2>2 DEF PointEffect
    <3>2. Heads' = H1
      <4>1. \A k \in Slots : Heads'[k] = IF k = j THEN Null ELSE Heads[k]
        BY <1>2, <1>9, <3>1
      <4>2. \A k \in Slots : H1[k] = IF k = j THEN Null ELSE Heads[k]
        BY <1>2
      <4>3. H1 = [k \in Slots |-> H1[k]] /\ Heads' = [k \in Slots |-> Heads'[k]]
        BY <1>2, <1>9
      <4> HIDE DEF H1, i, j
      <4> QED
        BY <4>1, <4>2, <4>3
    <3>3. l # o
      BY <1>1, <2>2
    <3>4. X1[l] = o /\ Links'[l] = a /\ \A x \in Linked \ {o, q, l} : Links'[x] = X1[x]
      BY <1>1, <1>10, <2>2, <3>3
    <3> QED
      BY <3>2, <3>4 DEF Relinked
  <2> QED
    BY <1>3, <2>1, <2>2
<1>13. Links'[a] = X1[q]
  BY <1>1, <1>3, <1>4, <1>7, <1>10
<1> DEFINE H2 == Heads'
           X2 == Links'
           L2 == Linked'
           L == Linked
           N == 2 * (2 * M + 1) + 1
<1>14. /\ Splicing(GroupIds, H1, X1, L, z1, o, q, a, a, H2, X2)
       /\ L2 = (L \ {o, q}) \cup {a, a} /\ z1[o] = i /\ N \in Nat
  <2>1. X1[o] = q /\ N \in Nat
    BY <1>1 DEF Hang
  <2> QED
    BY <1>3, <1>7, <1>11, <1>12, <1>13, <2>1 DEF Splicing
<1> HIDE DEF H1, X1, H2, X2, L2, L, i, j
<1>15. Rehung(GroupIds, N, H2, X2, (L \ {o, q}) \cup {a, a}, z1, {a, a}, z1[o])
  BY <1>8, <1>14, Splice DEF L
<1>16. \E z2 \in [GroupIds -> Nat], p2 \in [GroupIds -> 0..N] :
           /\ Chains(H2, X2, L2, z2, p2)
           /\ z2[a] = i
           /\ \A x \in GroupIds \ {a} : z2[x] = IF x \in Linked /\ z[x] = j THEN i ELSE z[x]
  BY <1>8, <1>14, <1>15 DEF Rehung
<1> HIDE DEF N
<1> QED
  BY <1>14, <1>16 DEF H2, X2, L2, i, j, Appended

Hangs == \E M : \E z, p : Hang(M, z, p)

\* What adjuster b keeps in its locals at any time.
Locals(b) ==
  /\ adj[b].pc \in AdjusterPlaces
  /\ adj[b].pc \in {"poll", "exit", "slot", "group"} => adj[b].old = <<>>
  /\ adj[b].pc \in {"poll", "exit", "slot", "group", "discard"} => adj[b].mid = <<>>

\* The array of slots keeps its length, and its first slot.
RootKept ==
  /\ roots' \in [RootIds -> RootRecords]
  /\ roots'[root].pivots = roots[root].pivots
  /\ Len(roots'[root].slots) = Len(roots[root].slots)
  /\ roots'[root].slots[1] # Null

\* A step of adjuster b changes its locals, groups and slots only.
Own(b) ==
  /\ b \in Bg /\ root' = root /\ ralloc' = ralloc /\ mpc' = mpc /\ bg_running' = bg_running
  /\ plan' = plan /\ models' = models
  /\ \A c \in Bg \ {b} : adj'[c] = adj[c]

\* What is left to show of Store after a step of an adjuster.
LEMMA AdjusterStore ==
  ASSUME RootInv, Store, NEW b, Own(b), Working(b) \/ UNCHANGED roots,
         RootKept, GroupsTyped(group', galloc'), update' \subseteq Bg, Locals(b)'
  PROVE  Store'
<1>1. \A c \in Bg : Locals(c)'
  <2> SUFFICES ASSUME NEW c \in Bg, c # b PROVE Locals(c)'
    OBVIOUS
  <2>1. adj'[c] = adj[c]
    BY DEF Own
  <2>2. Locals(c)
    BY DEF Store, Locals
  <2> QED
    BY <2>1, <2>2 DEF Locals
<1>2. \A r \in ralloc : /\ Len(roots'[r].slots) = Len(roots'[r].pivots)
                        /\ Len(roots'[r].slots) > 0 /\ roots'[r].slots[1] # Null
  <2>1. CASE UNCHANGED roots
    BY <2>1 DEF Store
  <2>2. CASE ralloc = {root}
    BY <2>2 DEF Store, RootKept
  <2>3. Working(b) => ralloc = {root}
    BY DEF RootInv, Rounds, RootsLive, Own
  <2> QED
    BY <2>1, <2>2, <2>3
<1> QED
  BY <1>1, <1>2 DEF Store, Own, RootKept, Locals

\* Which groups hang off slots after a step of adjuster b.
LEMMA LinkedAfter ==
  ASSUME RootInv, Store, NEW M, NEW z, NEW p, Hang(M, z, p), NEW b \in Bg, Own(b)
  PROVE  /\ \A x : x \in Linked' <=>
              /\ x \in galloc' /\ x \notin Unlinked(b)'
              /\ x \in Linked \/ x \notin galloc \/ x \in Unlinked(b)
         /\ \A x : x \in Linked => x \in galloc /\ x \notin Unlinked(b)
         /\ \A x \in Unlinked(b) : x \in galloc
<1>1. \A c \in Bg \ {b} : Unlinked(c)' = Unlinked(c)
  BY DEF Own, Unlinked
<1>2. \A x : x \in Linked' <=>
        x \in galloc' /\ x \notin Unlinked(b)' /\ \A c \in Bg \ {b} : x \notin Unlinked(c)
  BY <1>1 DEF Linked
<1>3. \A x : x \in Linked <=>
        x \in galloc /\ x \notin Unlinked(b) /\ \A c \in Bg \ {b} : x \notin Unlinked(c)
  BY DEF Linked
<1>4. \A c \in Bg : \A x \in Unlinked(c) : x \in galloc
  BY OwnedApart
<1>5. \A x \in Unlinked(b) : \A c \in Bg \ {b} : x \notin Unlinked(c)
  BY OwnedApart
<1> QED
  BY <1>2, <1>3, <1>4, <1>5

\* Which slots are masked after it.
Masks(b, i) ==
  /\ adj[b].kind = "merge" /\ adj[b].pc \in {"second", "quiesce"}
  /\ adj[b].nloc = <<"slot", i>>

\* Which slots are masked after a step of adjuster b.
LEMMA MaskedAfter ==
  ASSUME NEW b \in Bg, Own(b), NEW i
  PROVE  /\ Masked(i)' <=> Masks(b, i)' \/ \E c \in Bg \ {b} : Masks(c, i)
         /\ Masked(i) <=> Masks(b, i) \/ \E c \in Bg \ {b} : Masks(c, i)
<1>1. \A c \in Bg \ {b} : Masks(c, i)' <=> Masks(c, i)
  BY DEF Own, Masks
<1>2. Masked(i)' <=> \E c \in Bg : Masks(c, i)'
  BY DEF Masked, Masks
<1>3. Masked(i) <=> \E c \in Bg : Masks(c, i)
  BY DEF Masked, Masks
<1> QED
  BY <1>1, <1>2, <1>3

\* A step that changes no slot, and of no group the successor.
LEMMA StillStep ==
  ASSUME RootInv, Store, Store', NEW M, NEW z, NEW p, Hang(M, z, p), NEW b \in Bg, Own(b),
         UNCHANGED <<roots, galloc>>, \A x \in GroupIds : group'[x].next = group[x].next,
         Unlinked(b) = {}, Unlinked(b)' = {},
         adj[b].pc \notin {"second", "quiesce"}, adj'[b].pc \notin {"second", "quiesce"},
         Working(b)' => Job(b, z)'
  PROVE  Hangs'
<1>1. Linked' = Linked
  BY LinkedAfter
<1>2. \A i \in Slots : Masked(i)' <=> Masked(i)
  BY MaskedAfter DEF Masks
<1>3. \A i \in Slots : Heads'[i] = Heads[i]
  BY <1>2 DEF Heads, Slots, Own
<1>4. /\ M \in Nat /\ z \in [GroupIds -> Nat] /\ p \in [GroupIds -> 0..M]
      /\ Linked \subseteq GroupIds /\ galloc \subseteq GroupIds
  BY LinkTypes DEF Hang
<1>5. Chains(Heads', Links', Linked', z, p)
  BY <1>1, <1>3, <1>4, QuietChains DEF Own
<1>6. Elsewhere(b, z, z)
  BY <1>1, <1>4 DEF Elsewhere, Own
<1>7. Hang(M, z, p)'
  BY <1>4, <1>5, <1>6, Stepped DEF Own
<1> QED
  BY <1>7 DEF Hangs

\* The root and the groups as they are.
LEMMA SameRoot ==
  ASSUME RootInv, Store, UNCHANGED roots
  PROVE  RootKept
<1>1. root \in ralloc
  BY DEF RootInv, RootsLive
<1> QED
  BY <1>1, SlotTypes DEF RootKept, Store

\* A step that changes no group and no slot.
LEMMA IdleStep ==
  ASSUME RootInv, Store, NEW M, NEW z, NEW p, Hang(M, z, p), NEW b \in Bg, Own(b),
         UNCHANGED <<roots, group, galloc, update>>,
         Unlinked(b) = {}, Unlinked(b)' = {},
         adj[b].pc \notin {"second", "quiesce"}, adj'[b].pc \notin {"second", "quiesce"},
         Locals(b)', Working(b)' => Job(b, z)'
  PROVE  Store' /\ Hangs'
<1>1. GroupsTyped(group', galloc') /\ update' \subseteq Bg /\ RootKept
  BY SameRoot DEF Store
<1>2. Store'
  BY <1>1, AdjusterStore
<1> QED
  BY <1>2, StillStep
=============================================================================
