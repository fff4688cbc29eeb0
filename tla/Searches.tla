------------------------------ MODULE Searches ------------------------------
(***************************************************************************)
(* The position searches that XIndex may be instantiated with (searches/). *)
(*                                                                         *)
(* lower_bound and upper_bound differ in one comparison: an element lies   *)
(* before the result when it is less than the key, or when the key is not  *)
(* less than it.  An array of n elements is given here as the set B of the *)
(* positions in 0..n-1 that compare as before; the result is where B ends  *)
(* when the array is sorted.  start is the guess of the model.             *)
(***************************************************************************)
EXTENDS Integers

SearchClasses == {"BinarySearch", "ExponentialSearch", "LinearSearch"}

\* lower_bound_ and upper_bound_: halve the range, from r[1] up to r[2].
Halve(B, first, last) ==
  LET it[r \in (first..last) \X (first..last)] ==
        LET mid == r[1] + (r[2] - r[1]) \div 2
        IN  IF r[1] >= r[2] THEN r[1]
            ELSE IF mid \in B THEN it[<<mid + 1, r[2]>>]
            ELSE it[<<r[1], mid>>]
  IN  it[<<first, last>>]

BinarySearch(B, first, last, start) ==
  IF start # last /\ start \in B THEN Halve(B, start + 1, last)
                                 ELSE Halve(B, first, start)

\* Double the step to the right of start until an element is not before, or to
\* the left until one is.  The steps made before one of bound add up to bound - 1.
GallopRight(B, n, start) ==
  LET right[bound \in 1..n - start] ==
        LET l == start + (bound - 1)
        IN  IF bound > (n - start) \div 2 THEN <<l + 1, n>>
            ELSE IF l + bound \notin B THEN <<l + 1, l + bound>>
            ELSE right[2 * bound]
  IN  right[1]

GallopLeft(B, n, start) ==
  LET left[bound \in 1..start + 1] ==
        LET r == start - (bound - 1)
        IN  IF bound > (start + 1) \div 2 THEN <<0, r>>
            ELSE IF r - bound \in B THEN <<r - bound + 1, r>>
            ELSE left[2 * bound]
  IN  left[1]

ExponentialSearch(B, n, start) ==
  IF n = 0 THEN 0
  ELSE LET range == IF start # n /\ start \in B THEN GallopRight(B, n, start)
                                                ELSE GallopLeft(B, n, start)
       IN  BinarySearch(B, range[1], range[2], range[1])

\* One element at a time, to the right or to the left of start.
WalkRight(B, n, start) ==
  LET right[i \in 0..n] == IF i # n /\ i \in B THEN right[i + 1] ELSE i
  IN  right[start]

WalkLeft(B, n, start) ==
  LET left[i \in 0..n] == IF i # 0 /\ i - 1 \notin B THEN left[i - 1] ELSE i
  IN  left[start]

LinearSearch(B, n, start) ==
  IF n = 0 THEN 0
  ELSE IF start # n /\ start \in B THEN WalkRight(B, n, start + 1)
                                   ELSE WalkLeft(B, n, start)

SearchFrom(class, B, n, start) ==
  CASE class = "BinarySearch" -> BinarySearch(B, 0, n, start)
    [] class = "ExponentialSearch" -> ExponentialSearch(B, n, start)
    [] class = "LinearSearch" -> LinearSearch(B, n, start)
=============================================================================
