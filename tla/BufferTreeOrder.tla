--------------------------- MODULE BufferTreeOrder ---------------------------
(***************************************************************************)
(* The tree of AltBtreeBuffer stays in order (see BufferTree), for every   *)
(* capacity, any number of workers and any tree to begin with that inserts *)
(* can have made.                                                          *)
(*                                                                         *)
(* Ordered says that every node n has a range lo[n] to hi[n] on which the  *)
(* parents, the list of the leaves and the workers agree: the ranges of    *)
(* the children of a node are what its keys cut its own range into, and a  *)
(* leaf ends where the next one begins.  While a worker has both halves of *)
(* a split and their parent knows of one, hi[n] of the left half is still  *)
(* that of the node before the split and its keys are below top[n], the    *)
(* key the right half begins with; else top[n] is hi[n].                   *)
(*                                                                         *)
(* That an insert reaches the leaf of its key is part of the invariant: a  *)
(* worker whose version of a node is still the node's has a key that       *)
(* belongs below it (Covers).                                              *)
(*                                                                         *)
(* An action is a step of one worker that rewrites the nodes of a set S    *)
(* (Frame, Rest); StepKeepsOrder says what of it has to be shown, and      *)
(* there is one lemma per action.                                          *)
(***************************************************************************)
EXTENDS BufferTreeProofs

\* Before the halves of a split are in a parent: their worker holds both.
Pending(w) ==
  th[w].sib # Null /\
    \/ th[w].pc \in {"link", "parent", "lockparent", "checkparent", "insertparent", "newroot"}
    \/ th[w].pc \in Releasing /\ th[w].sib \notin Range(th[w].held)

LeftHalf(n) == \E w \in Workers : Pending(w) /\ th[w].n = n
RightHalf(n) == \E w \in Workers : Pending(w) /\ th[w].sib = n

\* The keys of record r ascend, from l on and below t.
KeysFit(r, l, t) ==
  /\ \A i, j \in 1..Len(r.keys) : i < j => r.keys[i] < r.keys[j]
  /\ \A i \in 1..Len(r.keys) : l <= r.keys[i] /\ Below(r.keys[i], t)
  /\ r.leaf /\ l # 0 => Len(r.keys) > 0 /\ r.keys[1] = l
  /\ ~r.leaf => \A i \in 1..Len(r.keys) : l < r.keys[i]

\* The keys of an inner node and the ranges of its children, from l on and below t.
Laid(keys, kids, l, t, lo, hi) ==
  \A i \in 1..Len(keys) + 1 :
    /\ lo[kids[i]] = IF i = 1 THEN l ELSE keys[i - 1]
    /\ hi[kids[i]] = IF i = Len(keys) + 1 THEN t ELSE keys[i]

\* The leaf after a leaf below h.
Follows(h, m, lo) == IF m = Null THEN h = 0 ELSE h # 0 /\ h = lo[m]

\* The list is right at leaf n as the parents see it, or is not yet.
Unlisted(n) ==
  \E w \in Workers : /\ Pending(w)
                     /\ n = IF th[w].pc = "link" THEN th[w].sib ELSE th[w].n

NodeOrdered(n, lo, hi, top) ==
  LET r == node[n]
  IN  /\ KeysFit(r, lo[n], top[n])
      /\ ~r.leaf => /\ Laid(r.keys, r.kids, lo[n], top[n], lo, hi)
                    /\ \A i \in 1..Len(r.keys) + 1 : node[r.kids[i]].parent = n
      /\ r.parent # Null => n \in Range(node[r.parent].kids)
      /\ r.parent = Null /\ ~RightHalf(n) => lo[n] = 0 /\ hi[n] = 0
      /\ ~LeftHalf(n) => top[n] = hi[n]
      /\ r.leaf => r.kids = <<>>
      /\ r.leaf /\ ~Unlisted(n) => Follows(hi[n], r.next, lo)

\* The halves of a split.
Halves(w, lo, hi, top) ==
  LET n == th[w].n
      s == th[w].sib
  IN  /\ top[n] = th[w].split /\ lo[s] = th[w].split /\ hi[s] = hi[n]
      /\ lo[n] < th[w].split /\ Below(th[w].split, hi[n])
      /\ node[n].torn # {} /\ node[s].parent = Null
      /\ node[n].leaf = node[s].leaf
      /\ node[n].leaf => IF th[w].pc = "link" THEN node[s].next = Null
                         ELSE node[n].next = s

\* The key of worker w belongs below node n, as long as it has the version v of before.
Covers(n, v, w, lo, top) ==
  /\ v \in 0..node[n].ver /\ lo[n] <= Key(w)
  /\ node[n].torn = {} /\ node[n].ver = v => Below(Key(w), top[n])

\* An insert is on its way to the place of its key.
Bound(w, lo, top) ==
  LET r == th[w]
  IN  /\ call[w].op = "put" =>
           /\ r.pc \in {"rootver", "isroot"} => lo[r.n] = 0
           /\ r.pc \in {"child", "childver", "nodelock", "lock", "locked"} =>
                Covers(r.n, r.ver, w, lo, top)
           /\ r.pc \in {"childver", "nodelock"} => ~node[r.n].leaf
           /\ r.pc = "nodever" /\ node[r.n].ver = r.ver => Covers(r.kid, r.kver, w, lo, top)
           /\ r.pc \in {"moved", "next"} => lo[r.n] <= Key(w)
           /\ r.pc = "apply" => lo[r.n] <= Key(w) /\ Below(Key(w), top[r.n])
           /\ r.pc \notin Reading \ {"moved", "next"}
      /\ r.pc = "insertparent" => node[r.n].parent = r.parent
      /\ r.pc = "newroot" => node[r.n].parent = Null
      /\ r.pc = "setroot" => lo[r.parent] = 0

\* A new half of a leaf is not to be reached along the list before it is linked.
Apart(v) ==
  th[v].pc = "link" =>
    /\ \A n \in Leaves : node[n].next # th[v].sib
    /\ \A w \in Workers : call[w].op = "put" /\ th[w].pc \in {"moved", "next"} =>
                            th[w].n # th[v].sib

Bounds == [DOMAIN node -> Nat]

Order(lo, hi, top) ==
  /\ lo \in Bounds /\ hi \in Bounds /\ top \in Bounds /\ lo[root] = 0
  /\ \A n \in DOMAIN node : NodeOrdered(n, lo, hi, top)
  /\ \A w \in Workers : Pending(w) => Halves(w, lo, hi, top)
  /\ \A w \in Workers : Bound(w, lo, top) /\ Apart(w)

Ordered == \E lo, hi, top : Order(lo, hi, top)

-----------------------------------------------------------------------------
(* Sequences and their order.                                               *)

\* The elements of a sequence with one more.
LEMMA InsertElements ==
  ASSUME NEW S, NEW s \in Seq(S), NEW i \in 1..Len(s) + 1, NEW e \in S
  PROVE  /\ InsertAt(s, i, e) \in Seq(S) /\ Len(InsertAt(s, i, e)) = Len(s) + 1
         /\ \A k \in 1..Len(s) + 1 :
              InsertAt(s, i, e)[k] = IF k < i THEN s[k] ELSE IF k = i THEN e ELSE s[k - 1]
<1> DEFINE a == SubSeq(s, 1, i - 1)
           b == SubSeq(s, i, Len(s))
<1>1. a \in Seq(S) /\ Len(a) = i - 1 /\ \A k \in 1..i - 1 : a[k] = s[k]
  <2>1. i - 1 \in 0..Len(s) /\ i - 1 - 1 + 1 = i - 1
    OBVIOUS
  <2>2. a \in Seq(S) /\ Len(a) = i - 1
    BY <2>1, SubSeqFacts
  <2> QED
    BY <2>1, <2>2
<1>2. b \in Seq(S) /\ Len(b) = Len(s) - i + 1 /\ \A k \in 1..Len(s) - i + 1 : b[k] = s[i + k - 1]
  <2>1. b \in Seq(S) /\ Len(b) = Len(s) - i + 1
    BY SubSeqFacts
  <2> QED
    BY <2>1
<1>3. InsertAt(s, i, e) = (a \o <<e>>) \o b
  BY DEF InsertAt
<1> HIDE DEF a, b
<1> DEFINE c == a \o <<e>>
<1>4. /\ c \in Seq(S) /\ Len(c) = i /\ c[i] = e
      /\ \A k \in 1..i - 1 : c[k] = s[k]
  BY <1>1
<1> HIDE DEF c
<1>5. /\ c \o b \in Seq(S) /\ Len(c \o b) = Len(s) + 1
      /\ \A k \in 1..Len(s) + 1 : (c \o b)[k] = IF k <= i THEN c[k] ELSE b[k - i]
  BY <1>2, <1>4
<1>6. ASSUME NEW k \in 1..Len(s) + 1
      PROVE  InsertAt(s, i, e)[k] = IF k < i THEN s[k] ELSE IF k = i THEN e ELSE s[k - 1]
  <2>1. CASE k <= i
    BY <1>3, <1>4, <1>5, <2>1 DEF c
  <2>2. CASE k > i
    <3>1. k - i \in 1..Len(s) - i + 1 /\ i + (k - i) - 1 = k - 1
      BY <2>2
    <3>2. b[k - i] = s[k - 1]
      BY <1>2, <3>1
    <3> QED
      BY <1>3, <1>5, <2>2, <3>2 DEF c
  <2> QED
    BY <2>1, <2>2
<1> QED
  BY <1>3, <1>5, <1>6 DEF c

\* The elements of a part of a sequence.
LEMMA PartElements ==
  ASSUME NEW S, NEW s \in Seq(S), NEW a \in Nat \ {0}, NEW b \in 0..Len(s), a <= b + 1
  PROVE  /\ SubSeq(s, a, b) \in Seq(S) /\ Len(SubSeq(s, a, b)) = b - a + 1
         /\ \A k \in 1..b - a + 1 : SubSeq(s, a, b)[k] = s[a + k - 1]
<1>1. SubSeq(s, a, b) \in Seq(S) /\ Len(SubSeq(s, a, b)) = b - a + 1
  BY SubSeqFacts
<1> QED
  BY <1>1

Ascending(s) == \A i, j \in 1..Len(s) : i < j => s[i] < s[j]

\* A set of places that contains all places before one of its own is a beginning.
LEMMA Beginning ==
  ASSUME NEW n \in Nat, NEW T \in SUBSET (1..n), \A i \in T : \A j \in 1..i : j \in T
  PROVE  Cardinality(T) \in 0..n /\ T = 1..Cardinality(T)
<1>1. \A m \in Nat : IsFiniteSet(1..m) /\ Cardinality(1..m) = m
  <2> SUFFICES ASSUME NEW m \in Nat PROVE IsFiniteSet(1..m) /\ Cardinality(1..m) = m
    OBVIOUS
  <2>1. /\ IsFiniteSet(1..m)
        /\ Cardinality(1..m) = IF 1 > m THEN 0 ELSE m - 1 + 1
    <3>1. 1 \in Int /\ m \in Int
      OBVIOUS
    <3> QED
      BY <3>1, FS_Interval, Zenon
  <2> QED
    BY <2>1
<1>2. IsFiniteSet(T) /\ Cardinality(T) <= Cardinality(1..n)
  BY <1>1, FS_Subset, Zenon
<1>3. Cardinality(T) \in Nat
  BY <1>2, FS_CardinalityType, Zenon
<1>4. ASSUME NEW i \in T PROVE i <= Cardinality(T)
  <2>1. 1..i \in SUBSET T /\ i \in Nat
    OBVIOUS
  <2>2. Cardinality(1..i) <= Cardinality(T)
    BY <1>2, <2>1, FS_Subset, Zenon
  <2> QED
    BY <1>1, <2>1, <2>2
<1>5. T \in SUBSET (1..Cardinality(T))
  BY <1>3, <1>4
<1>6. Cardinality(1..Cardinality(T)) = Cardinality(T)
  BY <1>1, <1>3
<1>7. 1..Cardinality(T) = T
  BY <1>1, <1>3, <1>5, <1>6, FS_Subset, Zenon
<1> QED
  BY <1>1, <1>2, <1>3, <1>7

\* find_first_larger_than and its variant divide ascending keys.
LEMMA Ranks ==
  ASSUME NEW s \in Seq(Keys), Ascending(s), NEW k \in Nat
  PROVE  /\ FirstAtLeast(s, k) \in 0..Len(s) /\ FirstLarger(s, k) \in 0..Len(s)
         /\ \A i \in 1..Len(s) : s[i] < k <=> i <= FirstAtLeast(s, k)
         /\ \A i \in 1..Len(s) : s[i] <= k <=> i <= FirstLarger(s, k)
<1> DEFINE A == {i \in 1..Len(s) : s[i] < k}
           B == {i \in 1..Len(s) : s[i] <= k}
<1>1. Len(s) \in Nat /\ \A i \in 1..Len(s) : s[i] \in Nat
  <2>1. Len(s) \in Nat /\ \A i \in 1..Len(s) : s[i] \in Keys
    OBVIOUS
  <2> QED
    BY <2>1, ConstantFacts
<1>2. ASSUME NEW i \in 1..Len(s), NEW j \in 1..i PROVE j \in 1..Len(s) /\ s[j] <= s[i]
  BY <1>1 DEF Ascending
<1>3. \A i \in A : \A j \in 1..i : j \in A
  BY <1>1, <1>2
<1>4. \A i \in B : \A j \in 1..i : j \in B
  BY <1>1, <1>2
<1>5. A \in SUBSET (1..Len(s)) /\ B \in SUBSET (1..Len(s))
  OBVIOUS
<1> HIDE DEF A, B
<1>6. Cardinality(A) \in 0..Len(s) /\ A = 1..Cardinality(A)
  BY <1>1, <1>3, <1>5, Beginning
<1>7. Cardinality(B) \in 0..Len(s) /\ B = 1..Cardinality(B)
  BY <1>1, <1>4, <1>5, Beginning
<1>8. FirstAtLeast(s, k) = Cardinality(A) /\ FirstLarger(s, k) = Cardinality(B)
  BY DEF FirstAtLeast, FirstLarger, A, B
<1>9. \A i \in 1..Len(s) : s[i] < k <=> i <= FirstAtLeast(s, k)
  BY <1>6, <1>8 DEF A
<1>10. \A i \in 1..Len(s) : s[i] <= k <=> i <= FirstLarger(s, k)
  BY <1>7, <1>8 DEF B
<1> QED
  BY <1>6, <1>7, <1>8, <1>9, <1>10

\* Keys of an inner node with bounds l and t.
Strict(keys, l, t) ==
  Ascending(keys) /\ \A i \in 1..Len(keys) : l < keys[i] /\ Below(keys[i], t)

\* The keys and children of an inner node for keys from l on and below t.
Inner(keys, kids, l, t, lo, hi) ==
  Len(kids) = Len(keys) + 1 /\ Strict(keys, l, t) /\ Laid(keys, kids, l, t, lo, hi)

\* A bound below a bound.
LEMMA BelowFacts ==
  ASSUME NEW k \in Nat, NEW s \in Keys, NEW t \in Nat
  PROVE  /\ Below(k, s) <=> k < s
         /\ Below(k, s) /\ Below(s, t) => Below(k, t)
<1>1. s \in Nat /\ s # 0
  BY ConstantFacts
<1> QED
  BY <1>1 DEF Below

\* The children of a node are different.
LEMMA KidsDiffer ==
  ASSUME NEW D, NEW keys \in Seq(Keys), NEW kids \in Seq(D), NEW l \in Nat, NEW t \in Nat,
         NEW lo, NEW hi, Inner(keys, kids, l, t, lo, hi)
  PROVE  \A i, j \in 1..Len(kids) : kids[i] = kids[j] => i = j
<1>1. Strict(keys, l, t) /\ Laid(keys, kids, l, t, lo, hi)
  BY DEF Inner
<1>2. Len(kids) = Len(keys) + 1
  BY DEF Inner
<1>3. Len(keys) \in Nat /\ \A i \in 1..Len(keys) : keys[i] \in Nat
  <2>1. Len(keys) \in Nat /\ \A i \in 1..Len(keys) : keys[i] \in Keys
    OBVIOUS
  <2> QED
    BY <2>1, ConstantFacts
<1>4. ASSUME NEW i \in 1..Len(kids), NEW j \in 1..Len(kids), i < j
      PROVE  lo[kids[i]] < lo[kids[j]]
  <2>1. j # 1 /\ lo[kids[j]] = keys[j - 1] /\ j - 1 \in 1..Len(keys)
    BY <1>1, <1>2, <1>3, <1>4 DEF Laid
  <2>2. CASE i = 1
    <3>1. lo[kids[i]] = l
      BY <1>1, <1>2, <1>3, <2>2 DEF Laid
    <3> QED
      BY <1>1, <2>1, <3>1 DEF Strict
  <2>3. CASE i # 1
    <3>1. lo[kids[i]] = keys[i - 1] /\ i - 1 \in 1..Len(keys) /\ i - 1 < j - 1
      BY <1>1, <1>2, <1>3, <1>4, <2>3 DEF Laid
    <3> QED
      BY <1>1, <2>1, <3>1 DEF Strict, Ascending
  <2> QED
    BY <2>2, <2>3
<1> SUFFICES ASSUME NEW i \in 1..Len(kids), NEW j \in 1..Len(kids), kids[i] = kids[j]
             PROVE  i = j
  OBVIOUS
<1>5. \A m \in 1..Len(kids) : lo[kids[m]] \in Nat
  <2> SUFFICES ASSUME NEW m \in 1..Len(kids) PROVE lo[kids[m]] \in Nat
    OBVIOUS
  <2>1. m = 1 \/ m - 1 \in 1..Len(keys)
    BY <1>2, <1>3
  <2> QED
    BY <1>1, <1>2, <1>3, <2>1 DEF Laid
<1>6. ~(i < j) /\ ~(j < i)
  BY <1>4, <1>5
<1> QED
  BY <1>2, <1>3, <1>6

\* s parts the range of n, the upper part is that of b.
Parted(n, b, s, lo, hi) ==
  lo[n] < s /\ Below(s, hi[n]) /\ lo[b] = s /\ hi[b] = hi[n]

\* The keys and children of an inner node, with child n parted at s for a new child b.
Fitting(D, keys, kids, l, t, lo, hi, n, b, s) ==
  /\ keys \in Seq(Keys) /\ kids \in Seq(D) /\ l \in Nat /\ t \in Nat /\ s \in Keys
  /\ hi \in [D -> Nat] /\ Inner(keys, kids, l, t, lo, hi)
  /\ n \in Range(kids) /\ b \in D \ Range(kids) /\ Parted(n, b, s, lo, hi)

\* The elements of C are those of kids, and b.
Joins(C, kids, b) == Range(C) = Range(kids) \cup {b}

\* The right half of a split goes behind the left half, with the key between them.
LEMMA InsertLaid ==
  ASSUME NEW D, NEW keys, NEW kids, NEW l, NEW t, NEW lo, NEW hi, NEW n, NEW b, NEW s
  PROVE  LET i == FirstLarger(keys, s) + 1
             K == InsertAt(keys, i, s)
             C == InsertAt(kids, i + 1, b)
         IN  Fitting(D, keys, kids, l, t, lo, hi, n, b, s)
             => /\ i \in 1..Len(keys) + 1
                /\ K \in Seq(Keys) /\ Len(K) = Len(keys) + 1 /\ C \in Seq(D)
                /\ Inner(K, C, l, t, lo, [hi EXCEPT ![n] = s]) /\ Joins(C, kids, b)
<1> DEFINE i == FirstLarger(keys, s) + 1
           K == InsertAt(keys, i, s)
           C == InsertAt(kids, i + 1, b)
           hi2 == [hi EXCEPT ![n] = s]
<1> HIDE DEF i, K, C, hi2
<1>1. SUFFICES ASSUME keys \in Seq(Keys), kids \in Seq(D), l \in Nat, t \in Nat, s \in Keys,
                      hi \in [D -> Nat], Inner(keys, kids, l, t, lo, hi),
                      n \in Range(kids), b \in D \ Range(kids), Parted(n, b, s, lo, hi)
               PROVE  /\ i \in 1..Len(keys) + 1
                      /\ K \in Seq(Keys) /\ Len(K) = Len(keys) + 1 /\ C \in Seq(D)
                      /\ Inner(K, C, l, t, lo, hi2)
                      /\ Range(C) = Range(kids) \cup {b}
  BY DEF Fitting, Joins, i, K, C, hi2
<1>2. Strict(keys, l, t) /\ Laid(keys, kids, l, t, lo, hi)
  BY <1>1 DEF Inner
<1>3. Len(keys) \in Nat /\ Len(kids) = Len(keys) + 1
  BY <1>1 DEF Inner
<1>4. lo[n] < s /\ Below(s, hi[n]) /\ lo[b] = s /\ hi[b] = hi[n]
  BY <1>1 DEF Parted
<1>5. n \in D /\ Range(kids) = {kids[m] : m \in 1..Len(kids)}
  BY <1>1, RangeFacts
<1>6. hi2[n] = s /\ \A m \in D \ {n} : hi2[m] = hi[m]
  BY <1>1, <1>5 DEF hi2
<1>7. \A m \in 1..Len(keys) : keys[m] \in Keys /\ keys[m] \in Nat
  <2>1. \A m \in 1..Len(keys) : keys[m] \in Keys
    BY <1>1
  <2> QED
    BY <2>1, ConstantFacts
<1>8. s \in Nat /\ l \in Nat /\ t \in Nat
  BY <1>1, ConstantFacts
<1>9. Ascending(keys) /\ \A m \in 1..Len(keys) : l < keys[m] /\ Below(keys[m], t)
  BY <1>2 DEF Strict
<1>10. PICK j \in 1..Len(keys) + 1 : n = kids[j]
  BY <1>1, <1>3, <1>5
<1>11. \A m \in 1..Len(keys) + 1 : kids[m] \in D /\ (kids[m] = n => m = j) /\ kids[m] # b
  <2>1. \A m \in 1..Len(keys) + 1 : kids[m] \in D /\ kids[m] \in Range(kids)
    BY <1>1, <1>3, <1>5
  <2>2. \A m, k \in 1..Len(keys) + 1 : kids[m] = kids[k] => m = k
    BY <1>1, <1>3, KidsDiffer
  <2> QED
    BY <1>1, <1>10, <2>1, <2>2
<1>12. /\ lo[n] = IF j = 1 THEN l ELSE keys[j - 1]
       /\ hi[n] = IF j = Len(keys) + 1 THEN t ELSE keys[j]
  BY <1>2, <1>10 DEF Laid
<1> DEFINE len == Len(keys)
<1>13. len \in Nat /\ j \in 1..len + 1 /\ j \in Nat /\ Len(keys) = len
  BY <1>3
<1> HIDE DEF len
<1>14. \A m \in 1..len : keys[m] \in Nat /\ l < keys[m] /\ Below(keys[m], t)
  BY <1>13, <1>7, <1>9
<1>15. \A m, k \in 1..len : m < k => keys[m] < keys[k]
  BY <1>13, <1>9 DEF Ascending
<1>16. \A m \in 1..len : keys[m] <= s <=> m <= j - 1
  <2> SUFFICES ASSUME NEW m \in 1..len PROVE keys[m] <= s <=> m <= j - 1
    OBVIOUS
  <2>1. CASE m <= j - 1
    <3>1. j # 1 /\ j - 1 \in 1..len /\ (m = j - 1 \/ m < j - 1)
      BY <1>13, <2>1
    <3>2. keys[m] <= keys[j - 1] /\ keys[j - 1] \in Nat /\ keys[m] \in Nat
      BY <1>14, <1>15, <3>1
    <3>3. keys[j - 1] < s
      BY <1>4, <1>12, <3>1
    <3> QED
      BY <1>8, <2>1, <3>2, <3>3
  <2>2. CASE m > j - 1
    <3>1. j # len + 1 /\ j \in 1..len /\ (m = j \/ j < m) /\ ~(m <= j - 1)
      BY <1>13, <2>2
    <3>2. keys[j] <= keys[m] /\ keys[j] \in Nat /\ keys[m] \in Nat
      BY <1>14, <1>15, <3>1
    <3>3. hi[n] = keys[j] /\ keys[j] # 0
      BY <1>8, <1>13, <1>12, <1>14, <3>1
    <3>4. s < keys[j]
      BY <1>4, <3>3 DEF Below
    <3> QED
      BY <1>8, <3>1, <3>2, <3>4
  <2> QED
    BY <1>13, <2>1, <2>2
<1>17. i = j
  <2>1. /\ FirstLarger(keys, s) \in 0..len
        /\ \A m \in 1..len : keys[m] <= s <=> m <= FirstLarger(keys, s)
    BY <1>1, <1>8, <1>9, <1>13, Ranks
  <2>2. PICK r \in 0..len : r = FirstLarger(keys, s)
    BY <2>1
  <2>3. \A m \in 1..len : m <= j - 1 <=> m <= r
    BY <1>16, <2>1, <2>2
  <2>4. ~(r < j - 1)
    BY <1>13, <2>3
  <2>5. ~(j - 1 < r)
    BY <1>13, <2>3
  <2> QED
    BY <1>13, <2>2, <2>4, <2>5 DEF i
<1>18. /\ K \in Seq(Keys) /\ Len(K) = len + 1
       /\ \A k \in 1..len + 1 :
            K[k] = IF k < j THEN keys[k] ELSE IF k = j THEN s ELSE keys[k - 1]
  <2>1. i \in 1..Len(keys) + 1 /\ s \in Keys
    BY <1>1, <1>13, <1>17
  <2>2. /\ K \in Seq(Keys) /\ Len(K) = Len(keys) + 1
        /\ \A k \in 1..Len(keys) + 1 :
             K[k] = IF k < i THEN keys[k] ELSE IF k = i THEN s ELSE keys[k - 1]
    BY <1>1, <2>1, InsertElements DEF K
  <2> QED
    BY <1>13, <1>17, <2>2
<1>19. /\ C \in Seq(D) /\ Len(C) = len + 2
       /\ \A k \in 1..len + 2 :
            C[k] = IF k < j + 1 THEN kids[k] ELSE IF k = j + 1 THEN b ELSE kids[k - 1]
  <2>1. j + 1 \in 1..Len(kids) + 1 /\ Len(kids) + 1 = len + 2
    BY <1>3, <1>13
  <2> QED
    <3>1. /\ C \in Seq(D) /\ Len(C) = Len(kids) + 1
          /\ \A k \in 1..Len(kids) + 1 :
               C[k] = IF k < i + 1 THEN kids[k] ELSE IF k = i + 1 THEN b ELSE kids[k - 1]
      <4>1. b \in D /\ i + 1 \in 1..Len(kids) + 1 /\ kids \in Seq(D)
        BY <1>1, <1>17, <2>1
      <4>2. PICK m \in 1..Len(kids) + 1 : m = i + 1
        BY <4>1
      <4>3. C = InsertAt(kids, m, b)
        BY <4>2 DEF C
      <4>4. /\ InsertAt(kids, m, b) \in Seq(D) /\ Len(InsertAt(kids, m, b)) = Len(kids) + 1
            /\ \A k \in 1..Len(kids) + 1 :
                 InsertAt(kids, m, b)[k] =
                   IF k < m THEN kids[k] ELSE IF k = m THEN b ELSE kids[k - 1]
        BY <4>1, InsertElements
      <4> QED
        BY <4>2, <4>3, <4>4, Zenon
    <3> QED
      BY <1>17, <2>1, <3>1
<1>20. l < s /\ Below(s, t)
  <2>1. l < s
    <3>1. CASE j = 1
      BY <1>4, <1>12, <3>1
    <3>2. CASE j # 1
      <4>1. j - 1 \in 1..len /\ keys[j - 1] < s
        BY <1>4, <1>13, <1>12, <3>2
      <4>2. keys[j - 1] \in Nat /\ l < keys[j - 1]
        BY <1>14, <4>1
      <4> QED
        BY <1>8, <4>1, <4>2
    <3> QED
      BY <3>1, <3>2
  <2>2. Below(s, t)
    <3>1. CASE j = len + 1
      BY <1>4, <1>13, <1>12, <3>1
    <3>2. CASE j # len + 1
      <4>1. j \in 1..len /\ Below(s, keys[j])
        BY <1>4, <1>13, <1>12, <3>2
      <4>2. keys[j] \in Keys /\ Below(keys[j], t)
        BY <1>7, <1>13, <1>14, <4>1
      <4> QED
        BY <1>8, <4>1, <4>2, BelowFacts
    <3> QED
      BY <3>1, <3>2
  <2> QED
    BY <2>1, <2>2
<1>21. \A k \in 1..j - 1 : k \in 1..len /\ K[k] = keys[k] /\ keys[k] < s
  <2>1. \A k \in 1..j - 1 : k \in 1..len /\ k \in 1..len + 1 /\ k < j /\ k <= j - 1
    BY <1>13
  <2>2. \A k \in 1..j - 1 : keys[k] <= s
    BY <1>16, <2>1
  <2>3. \A k \in 1..j - 1 : keys[k] # s
    <3>1. CASE j = 1
      BY <3>1
    <3>2. CASE j # 1
      <4>1. j - 1 \in 1..len /\ keys[j - 1] < s
        BY <1>4, <1>13, <1>12, <3>2
      <4>2. \A k \in 1..j - 1 : k = j - 1 \/ k < j - 1
        BY <1>13
      <4>3. \A k \in 1..j - 1 : keys[k] <= keys[j - 1] /\ keys[k] \in Nat
        BY <1>14, <1>15, <2>1, <4>1, <4>2
      <4> QED
        BY <1>8, <1>14, <4>1, <4>3
    <3> QED
      BY <3>1, <3>2
  <2> QED
    BY <1>8, <1>18, <1>14, <2>1, <2>2, <2>3
<1>22. K[j] = s
  BY <1>13, <1>18
<1>23. \A k \in j + 1..len + 1 : k - 1 \in 1..len /\ K[k] = keys[k - 1] /\ s < keys[k - 1]
  <2>1. \A k \in j + 1..len + 1 :
          k - 1 \in 1..len /\ k \in 1..len + 1 /\ k > j /\ ~(k - 1 <= j - 1)
    BY <1>13
  <2>2. \A k \in j + 1..len + 1 : K[k] = keys[k - 1] /\ keys[k - 1] \in Nat
    BY <1>13, <1>18, <1>14, <2>1
  <2>3. \A k \in j + 1..len + 1 : ~(keys[k - 1] <= s)
    BY <1>16, <2>1
  <2> QED
    BY <1>8, <2>1, <2>2, <2>3
<1>24. \A k \in 1..len + 1 : k \in 1..j - 1 \/ k = j \/ k \in j + 1..len + 1
  BY <1>13
<1>25. Strict(K, l, t)
  <2>1. \A k \in 1..len + 1 : l < K[k] /\ Below(K[k], t)
    BY <1>20, <1>14, <1>24, <1>21, <1>22, <1>23
  <2>2. ASSUME NEW k \in 1..len + 1, NEW m \in 1..len + 1, k < m PROVE K[k] < K[m]
    <3>1. CASE k \in 1..j - 1 /\ m \in 1..j - 1
      BY <1>15, <1>21, <2>2, <3>1
    <3>2. CASE k \in 1..j - 1 /\ m = j
      BY <1>21, <1>22, <3>2
    <3>3. CASE k \in 1..j - 1 /\ m \in j + 1..len + 1
      <4>1. keys[k] \in Nat /\ keys[m - 1] \in Nat /\ keys[k] < s /\ s < keys[m - 1]
        BY <1>14, <1>21, <1>23, <3>3
      <4> QED
        BY <1>8, <1>21, <1>23, <3>3, <4>1
    <3>4. CASE k = j /\ m \in j + 1..len + 1
      BY <1>22, <1>23, <3>4
    <3>5. CASE k \in j + 1..len + 1 /\ m \in j + 1..len + 1
      <4>1. k - 1 < m - 1
        BY <2>2
      <4> QED
        BY <1>15, <1>23, <3>5, <4>1
    <3>6. ~(k = j /\ m = j) /\ ~(m = j /\ k \in j + 1..len + 1) /\ ~(m \in 1..j - 1 /\ k = j)
          /\ ~(m \in 1..j - 1 /\ k \in j + 1..len + 1)
      BY <1>13, <2>2
    <3> QED
      BY <1>24, <3>1, <3>2, <3>3, <3>4, <3>5, <3>6
  <2> QED
    BY <1>18, <2>1, <2>2 DEF Strict, Ascending
<1>26. Laid(K, C, l, t, lo, hi2)
  <2>0. Len(K) + 1 = len + 2
    BY <1>13, <1>18
  <2>l. \A k \in 1..len + 1 : /\ lo[kids[k]] = IF k = 1 THEN l ELSE keys[k - 1]
                           /\ hi[kids[k]] = IF k = len + 1 THEN t ELSE keys[k]
    BY <1>2, <1>13 DEF Laid
  <2> SUFFICES ASSUME NEW k \in 1..len + 2
               PROVE  /\ lo[C[k]] = IF k = 1 THEN l ELSE K[k - 1]
                      /\ hi2[C[k]] = IF k = len + 2 THEN t ELSE K[k]
    BY <2>0 DEF Laid
  <2>1. CASE k < j
    <3>1. k \in 1..j - 1 /\ k \in 1..len + 1 /\ k # len + 2 /\ k # len + 1 /\ k < j + 1 /\ k # j
      BY <1>13, <2>1
    <3>2. C[k] = kids[k] /\ K[k] = keys[k]
      BY <1>19, <1>21, <3>1
    <3>3. kids[k] \in D \ {n}
      BY <1>11, <1>13, <3>1
    <3>4. k # 1 => K[k - 1] = keys[k - 1]
      <4>1. k # 1 => k - 1 \in 1..j - 1
        BY <1>13, <2>1
      <4> QED
        BY <1>21, <4>1
    <3> QED
      BY <1>6, <2>l, <3>1, <3>2, <3>3, <3>4
  <2>2. CASE k = j
    <3>1. C[k] = n /\ K[k] = s /\ k # len + 2
      BY <1>10, <1>19, <1>13, <1>22, <2>2
    <3>2. k # 1 => K[k - 1] = keys[k - 1]
      <4>1. k # 1 => k - 1 \in 1..j - 1
        BY <1>13, <2>2
      <4> QED
        BY <1>21, <4>1
    <3> QED
      BY <1>6, <1>12, <2>2, <3>1, <3>2
  <2>3. CASE k = j + 1
    <3>1. C[k] = b /\ k # 1 /\ k - 1 = j /\ (k = len + 2 <=> j = len + 1)
      BY <1>19, <1>13, <2>3
    <3>2. k # len + 2 => K[k] = keys[j]
      <4>1. k # len + 2 => k \in j + 1..len + 1
        BY <1>13, <2>3
      <4> QED
        BY <1>23, <3>1, <4>1
    <3>3. b \in D \ {n}
      BY <1>1, <1>10, <1>11
    <3> QED
      BY <1>4, <1>6, <1>13, <1>12, <1>22, <3>1, <3>2, <3>3
  <2>4. CASE k > j + 1
    <3>1. /\ k - 1 \in 1..len + 1 /\ k # 1 /\ k - 1 # 1 /\ k # j + 1 /\ ~(k < j + 1)
          /\ (k = len + 2 <=> k - 1 = len + 1) /\ k - 1 # j /\ k - 1 \in j + 1..len + 1
          /\ (k # len + 2 => k \in j + 1..len + 1)
      BY <1>13, <2>4
    <3>2. C[k] = kids[k - 1]
      BY <1>19, <3>1
    <3>3. kids[k - 1] \in D \ {n}
      BY <1>11, <1>13, <3>1
    <3>4. K[k - 1] = keys[k - 1 - 1] /\ (k # len + 2 => K[k] = keys[k - 1])
      BY <1>23, <3>1
    <3> QED
      BY <1>6, <2>l, <3>1, <3>2, <3>3, <3>4
  <2>5. k < j \/ k = j \/ k = j + 1 \/ k > j + 1
    BY <1>13
  <2> QED
    BY <2>1, <2>2, <2>3, <2>4, <2>5
<1>27. Range(C) = Range(kids) \cup {b}
  <2>0. Len(C) = len + 2 /\ Len(kids) = len + 1
    BY <1>3, <1>13, <1>19
  <2>1. Range(C) = {C[k] : k \in 1..len + 2} /\ Range(kids) = {kids[k] : k \in 1..len + 1}
    <3>1. Range(C) = {C[k] : k \in 1..Len(C)}
      BY <1>19, RangeFacts
    <3> QED
      BY <1>5, <2>0, <3>1
  <2>2. \A k \in 1..len + 2 : C[k] \in Range(kids) \cup {b}
    <3> SUFFICES ASSUME NEW k \in 1..len + 2 PROVE C[k] \in Range(kids) \cup {b}
      OBVIOUS
    <3>1. CASE k < j + 1
      <4>1. k \in 1..len + 1
        BY <1>13, <3>1
      <4> QED
        BY <1>19, <2>1, <3>1, <4>1
    <3>2. CASE k = j + 1
      BY <1>19, <3>2
    <3>3. CASE k > j + 1
      <4>1. k - 1 \in 1..len + 1 /\ ~(k < j + 1) /\ k # j + 1
        BY <1>13, <3>3
      <4> QED
        BY <1>19, <2>1, <4>1
    <3> QED
      BY <1>13, <3>1, <3>2, <3>3
  <2>3. \A k \in 1..len + 1 : kids[k] \in Range(C)
    <3> SUFFICES ASSUME NEW k \in 1..len + 1 PROVE kids[k] \in Range(C)
      OBVIOUS
    <3>1. CASE k < j + 1
      <4>1. k \in 1..len + 2 /\ C[k] = kids[k]
        BY <1>19, <1>13, <3>1
      <4> QED
        BY <2>1, <4>1
    <3>2. CASE ~(k < j + 1)
      <4>1. k + 1 \in 1..len + 2 /\ k + 1 # j + 1 /\ ~(k + 1 < j + 1) /\ k + 1 - 1 = k
        BY <1>13, <3>2
      <4>2. C[k + 1] = kids[k]
        BY <1>19, <4>1
      <4> QED
        BY <2>1, <4>1, <4>2
    <3> QED
      BY <3>1, <3>2
  <2>4. b \in Range(C)
    <3>1. j + 1 \in 1..len + 2 /\ ~(j + 1 < j + 1)
      BY <1>13
    <3>2. C[j + 1] = b
      BY <1>19, <3>1
    <3> QED
      BY <2>1, <3>1, <3>2
  <2> QED
    BY <2>1, <2>2, <2>3, <2>4
<1>28. Inner(K, C, l, t, lo, hi2)
  <2>1. Len(C) = Len(K) + 1
    BY <1>18, <1>19, <1>13
  <2> QED
    BY <1>25, <1>26, <2>1 DEF Inner
<1> QED
  BY <1>13, <1>17, <1>18, <1>19, <1>27, <1>28

\* Two parts of a node, from l on and below t, and the key m between them.
Divided(D, C, K1, C1, K2, C2, m, l, t, lo, hi) ==
  /\ m \in Keys /\ l < m /\ Below(m, t)
  /\ K1 \in Seq(Keys) /\ C1 \in Seq(D) /\ K2 \in Seq(Keys) /\ C2 \in Seq(D)
  /\ Inner(K1, C1, l, m, lo, hi) /\ Inner(K2, C2, m, t, lo, hi)
  /\ Range(C) = Range(C1) \cup Range(C2) /\ Range(C1) \cap Range(C2) = {}

\* The parts are in order where the node was.
LEMMA CutLaid ==
  ASSUME NEW D, NEW K, NEW C, NEW l, NEW t, NEW lo, NEW hi, NEW c
  PROVE  LET K1 == SubSeq(K, 1, c)
             C1 == SubSeq(C, 1, c + 1)
             K2 == SubSeq(K, c + 2, Len(K))
             C2 == SubSeq(C, c + 2, Len(C))
         IN  /\ K \in Seq(Keys) /\ C \in Seq(D) /\ l \in Nat /\ t \in Nat
             /\ Inner(K, C, l, t, lo, hi) /\ c \in 0..Len(K) - 1
             => Divided(D, C, K1, C1, K2, C2, K[c + 1], l, t, lo, hi)
<1> DEFINE K1 == SubSeq(K, 1, c)
           C1 == SubSeq(C, 1, c + 1)
           K2 == SubSeq(K, c + 2, Len(K))
           C2 == SubSeq(C, c + 2, Len(C))
<1> HIDE DEF K1, C1, K2, C2
<1>1. SUFFICES ASSUME K \in Seq(Keys), C \in Seq(D), l \in Nat, t \in Nat,
                      Inner(K, C, l, t, lo, hi), c \in 0..Len(K) - 1
               PROVE  /\ K[c + 1] \in Keys /\ l < K[c + 1] /\ Below(K[c + 1], t)
                      /\ K1 \in Seq(Keys) /\ C1 \in Seq(D)
                      /\ K2 \in Seq(Keys) /\ C2 \in Seq(D)
                      /\ Inner(K1, C1, l, K[c + 1], lo, hi)
                      /\ Inner(K2, C2, K[c + 1], t, lo, hi)
                      /\ Range(C) = Range(C1) \cup Range(C2) /\ Range(C1) \cap Range(C2) = {}
  BY DEF Divided, K1, C1, K2, C2
<1> DEFINE len == Len(K)
           q == len - c - 1
<1>2. Strict(K, l, t) /\ Laid(K, C, l, t, lo, hi)
  BY <1>1 DEF Inner
<1>3. len \in Nat /\ Len(K) = len /\ Len(C) = len + 1
  BY <1>1 DEF Inner
<1> HIDE DEF len
<1>4. c \in Nat /\ q \in Nat /\ len = c + 1 + q /\ c + 1 \in 1..len
  BY <1>1, <1>3
<1> HIDE DEF q
<1>5. \A m \in 1..len : K[m] \in Keys /\ K[m] \in Nat /\ K[m] # 0
  <2>1. \A m \in 1..len : K[m] \in Keys
    BY <1>1, <1>3
  <2> QED
    BY <2>1, ConstantFacts
<1>6. \A m \in 1..len : l < K[m] /\ Below(K[m], t)
  BY <1>2, <1>3 DEF Strict
<1>7. \A m, k \in 1..len : m < k => K[m] < K[k]
  BY <1>2, <1>3 DEF Strict, Ascending
<1>8. \A k \in 1..len + 1 : /\ lo[C[k]] = IF k = 1 THEN l ELSE K[k - 1]
                            /\ hi[C[k]] = IF k = len + 1 THEN t ELSE K[k]
  BY <1>2, <1>3 DEF Laid
<1>9. K[c + 1] \in Keys /\ K[c + 1] \in Nat /\ l < K[c + 1] /\ Below(K[c + 1], t)
  BY <1>4, <1>5, <1>6
<1>10. K1 \in Seq(Keys) /\ Len(K1) = c /\ \A k \in 1..c : K1[k] = K[k]
  <2>1. /\ 1 \in Nat \ {0} /\ c \in 0..Len(K) /\ 1 <= c + 1 /\ c - 1 + 1 = c
        /\ \A k \in 1..c : 1 + k - 1 = k
    BY <1>4, <1>3
  <2> QED
    BY <1>1, <2>1, PartElements DEF K1
<1>11. C1 \in Seq(D) /\ Len(C1) = c + 1 /\ \A k \in 1..c + 1 : C1[k] = C[k]
  <2>1. /\ 1 \in Nat \ {0} /\ c + 1 \in 0..Len(C) /\ 1 <= c + 1 + 1 /\ c + 1 - 1 + 1 = c + 1
        /\ \A k \in 1..c + 1 : 1 + k - 1 = k
    BY <1>4, <1>3
  <2> QED
    BY <1>1, <2>1, PartElements DEF C1
<1>12. K2 \in Seq(Keys) /\ Len(K2) = q /\ \A k \in 1..q : K2[k] = K[c + 1 + k]
  <2>1. /\ c + 2 \in Nat \ {0} /\ Len(K) \in 0..Len(K) /\ c + 2 <= Len(K) + 1
        /\ Len(K) - (c + 2) + 1 = q /\ \A k \in 1..q : c + 2 + k - 1 = c + 1 + k
    BY <1>4, <1>3
  <2> QED
    BY <1>1, <2>1, PartElements DEF K2
<1>13. C2 \in Seq(D) /\ Len(C2) = q + 1 /\ \A k \in 1..q + 1 : C2[k] = C[c + 1 + k]
  <2>1. /\ c + 2 \in Nat \ {0} /\ Len(C) \in 0..Len(C) /\ c + 2 <= Len(C) + 1
        /\ Len(C) - (c + 2) + 1 = q + 1 /\ \A k \in 1..q + 1 : c + 2 + k - 1 = c + 1 + k
    BY <1>4, <1>3
  <2> QED
    BY <1>1, <2>1, PartElements DEF C2
<1>14. Strict(K1, l, K[c + 1])
  <2>1. \A i \in 1..c : i \in 1..len /\ i < c + 1
    BY <1>4
  <2>2. \A i, j \in 1..c : i < j => K1[i] < K1[j]
    BY <1>10, <1>7, <2>1
  <2>3. \A i \in 1..c : l < K1[i] /\ K1[i] < K[c + 1]
    BY <1>4, <1>10, <1>6, <1>7, <2>1
  <2> QED
    BY <1>10, <2>2, <2>3 DEF Strict, Ascending, Below
<1>15. Strict(K2, K[c + 1], t)
  <2>1. \A i \in 1..q : c + 1 + i \in 1..len /\ c + 1 < c + 1 + i
    BY <1>4
  <2>2. \A i, j \in 1..q : i < j => c + 1 + i < c + 1 + j
    BY <1>4
  <2>3. \A i, j \in 1..q : i < j => K2[i] < K2[j]
    BY <1>12, <1>7, <2>1, <2>2
  <2>4. \A i \in 1..q : K[c + 1] < K2[i] /\ Below(K2[i], t)
    BY <1>4, <1>12, <1>6, <1>7, <2>1
  <2> QED
    BY <1>12, <2>3, <2>4 DEF Strict, Ascending
<1>16. Laid(K1, C1, l, K[c + 1], lo, hi)
  <2>1. \A i \in 1..c + 1 : i \in 1..len + 1 /\ i # len + 1 /\ (i # 1 => i - 1 \in 1..c)
                            /\ (i # c + 1 => i \in 1..c)
    BY <1>4
  <2>2. \A i \in 1..c + 1 : /\ lo[C1[i]] = IF i = 1 THEN l ELSE K1[i - 1]
                            /\ hi[C1[i]] = IF i = c + 1 THEN K[c + 1] ELSE K1[i]
    BY <1>10, <1>11, <1>8, <2>1
  <2> QED
    BY <1>10, <2>2 DEF Laid
<1>17. Laid(K2, C2, K[c + 1], t, lo, hi)
  <2> SUFFICES ASSUME NEW i \in 1..q + 1
               PROVE  /\ lo[C2[i]] = IF i = 1 THEN K[c + 1] ELSE K2[i - 1]
                      /\ hi[C2[i]] = IF i = q + 1 THEN t ELSE K2[i]
    BY <1>12 DEF Laid
  <2>1. /\ c + 1 + i \in 1..len + 1 /\ c + 1 + i # 1 /\ c + 1 + i - 1 = c + i
        /\ (c + 1 + i = len + 1 <=> i = q + 1)
        /\ (i = 1 => c + i = c + 1)
        /\ (i # 1 => i - 1 \in 1..q /\ c + 1 + (i - 1) = c + i)
        /\ (i # q + 1 => i \in 1..q)
    BY <1>4
  <2>2. /\ lo[C2[i]] = K[c + i]
        /\ hi[C2[i]] = IF i = q + 1 THEN t ELSE K[c + 1 + i]
    <3>1. C2[i] = C[c + 1 + i]
      BY <1>13
    <3>2. PICK m \in 1..len + 1 : m = c + 1 + i
      BY <2>1
    <3>3. lo[C[m]] = K[m - 1] /\ hi[C[m]] = IF m = len + 1 THEN t ELSE K[m]
      BY <1>8, <2>1, <3>2
    <3> QED
      <4>1. lo[C[m]] = lo[C2[i]] /\ hi[C[m]] = hi[C2[i]]
        BY <3>1, <3>2
      <4>2. m - 1 = c + i /\ (m = len + 1 <=> i = q + 1)
        BY <1>4, <2>1, <3>2
      <4>3. lo[C2[i]] = K[c + i]
        <5>1. PICK r \in Int : r = m - 1 /\ r = c + i
          BY <1>4, <4>2
        <5> QED
          BY <3>3, <4>1, <5>1
      <4>4. hi[C2[i]] = IF i = q + 1 THEN t ELSE K[c + 1 + i]
        BY <3>2, <3>3, <4>1, <4>2
      <4> QED
        BY <4>3, <4>4
  <2>3. i # 1 => K2[i - 1] = K[c + i]
    BY <1>12, <2>1
  <2>4. i # q + 1 => K2[i] = K[c + 1 + i]
    BY <1>12, <2>1
  <2> QED
    BY <2>1, <2>2, <2>3, <2>4
<1>18. Range(C) = Range(C1) \cup Range(C2) /\ Range(C1) \cap Range(C2) = {}
  <2>1. /\ Range(C) = {C[k] : k \in 1..len + 1} /\ Range(C1) = {C1[k] : k \in 1..c + 1}
        /\ Range(C2) = {C2[k] : k \in 1..q + 1}
    <3>1. Range(C) = {C[k] : k \in 1..len + 1}
      BY <1>1, <1>3, RangeFacts
    <3>2. Range(C1) = {C1[k] : k \in 1..c + 1}
      BY <1>11, RangeFacts
    <3>3. Range(C2) = {C2[k] : k \in 1..q + 1}
      BY <1>13, RangeFacts
    <3> QED
      BY <3>1, <3>2, <3>3
  <2>2. ASSUME NEW k \in 1..len + 1 PROVE C[k] \in Range(C1) \cup Range(C2)
    <3>1. CASE k <= c + 1
      <4>1. k \in 1..c + 1
        BY <1>4, <3>1
      <4> QED
        BY <1>11, <2>1, <4>1
    <3>2. CASE k > c + 1
      <4>1. k - (c + 1) \in 1..q + 1 /\ c + 1 + (k - (c + 1)) = k
        BY <1>4, <3>2
      <4>2. C2[k - (c + 1)] = C[k]
        BY <1>13, <4>1
      <4> QED
        BY <2>1, <4>1, <4>2
    <3> QED
      BY <1>4, <3>1, <3>2
  <2>3. \A k \in 1..c + 1 : k \in 1..len + 1 /\ C1[k] = C[k] /\ k <= c + 1
    BY <1>4, <1>11
  <2>4. \A k \in 1..q + 1 : c + 1 + k \in 1..len + 1 /\ C2[k] = C[c + 1 + k] /\ c + 1 < c + 1 + k
    BY <1>4, <1>13
  <2>5. \A i, j \in 1..len + 1 : C[i] = C[j] => i = j
    BY <1>1, <1>3, KidsDiffer
  <2>6. ASSUME NEW i \in 1..c + 1, NEW j \in 1..q + 1 PROVE C1[i] # C2[j]
    <3>1. i # c + 1 + j
      BY <1>4
    <3> QED
      BY <2>3, <2>4, <2>5, <3>1
  <2> QED
    BY <2>1, <2>2, <2>3, <2>4, <2>6
<1>19. Inner(K1, C1, l, K[c + 1], lo, hi) /\ Inner(K2, C2, K[c + 1], t, lo, hi)
  BY <1>10, <1>11, <1>12, <1>13, <1>14, <1>15, <1>16, <1>17 DEF Inner
<1> QED
  BY <1>9, <1>10, <1>11, <1>12, <1>13, <1>18, <1>19

-----------------------------------------------------------------------------
(* Steps, as far as the order of the keys is concerned.                     *)

\* A worker holds the halves of its split until they have a parent.
LEMMA PendingFacts ==
  ASSUME IInv, NEW w \in Workers, Pending(w)
  PROVE  /\ th[w].n \in Holds(w) /\ th[w].sib \in Holds(w) /\ th[w].n # th[w].sib
         /\ th[w].n \in DOMAIN node /\ th[w].sib \in DOMAIN node /\ th[w].split \in Keys
<1>1. Splits(w) /\ Releases(w) /\ th[w].sib # Null
  BY DEF IInv, Placed, Pending
<1>2. th[w].n \in Holds(w) /\ th[w].sib \in Holds(w)
  BY <1>1 DEF Pending, Holds, Releases, Releasing
<1> QED
  BY <1>1, <1>2 DEF Splits

\* Worker w rewrites the nodes in S, which it has locked: what the others see of it.
Frame(w, S, lo, hi, top, lo2, hi2, top2) ==
  /\ S \subseteq Holds(w) /\ lo2 \in Bounds' /\ hi2 \in Bounds' /\ top2 \in Bounds'
  /\ \A n \in DOMAIN node : lo2[n] = lo[n] /\ (top2[n] # top[n] => node'[n].torn # {})
  /\ \A n \in DOMAIN node \ Holds(w) : node'[n].torn = node[n].torn
  /\ \A n \in DOMAIN node \ S :
       /\ hi2[n] = hi[n] /\ top2[n] = top[n] /\ node'[n].keys = node[n].keys
       /\ node'[n].kids = node[n].kids /\ node'[n].next = node[n].next
       /\ node[n].parent \in S => /\ node'[n].parent # Null
                                  /\ n \in Range(node'[node'[n].parent].kids)
  /\ \A n \in DOMAIN node : node[n].parent \notin S =>
       \/ node'[n].parent = node[n].parent /\ hi2[n] = hi[n]
       \/ node[n].parent = Null /\ n \in S

\* Its halves stay halves, or are in S.
HalvesStay(w, S) ==
  Pending(w) =>
    \/ th[w].n \in S /\ th[w].sib \in S
    \/ /\ Pending(w)' /\ th'[w].n = th[w].n /\ th'[w].sib = th[w].sib
       /\ th'[w].pc = "link" <=> th[w].pc = "link"

\* What is left to show of a step.
Rest(w, S, lo, hi, top) ==
  /\ lo[root'] = 0
  /\ \A n \in DOMAIN node' : n \in S \/ n \notin DOMAIN node => NodeOrdered(n, lo, hi, top)'
  /\ (Pending(w) => Halves(w, lo, hi, top))'
  /\ Bound(w, lo, top)' /\ Apart(w)'
  /\ th'[w].pc = "link" => th'[w].sib \notin DOMAIN node
  /\ \A v \in Workers \ {w} : th[v].pc = "link" =>
       \A n \in Leaves' : n \in S \/ n \notin DOMAIN node => node'[n].next # th[v].sib
  /\ call'[w].op = "put" /\ th'[w].pc \in {"moved", "next"} =>
       \A v \in Workers \ {w} : th[v].pc = "link" => th'[w].n # th[v].sib

\* The same worker knows where its insert belongs.
LEMMA OthersBound ==
  ASSUME IInv, VInv, NEW w \in Workers, NEW v \in Workers \ {w}, WorkerStep(w), Steady,
         NEW S, NEW lo, NEW hi, NEW top, NEW lo2, NEW hi2, NEW top2,
         Frame(w, S, lo, hi, top, lo2, hi2, top2), Bound(v, lo, top),
         th'[w].pc = "link" => th'[w].sib \notin DOMAIN node
  PROVE  Bound(v, lo2, top2)'
<1> DEFINE r == th[v]
           covers(n, k) ==
             /\ k \in 0..node'[n].ver /\ lo2[n] <= Key(v)
             /\ node'[n].torn = {} /\ node'[n].ver = k => Below(Key(v), top2[n])
<1>1. th'[v] = r /\ call'[v] = call[v] /\ Key(v)' = Key(v)
  BY DEF WorkerStep, Others, Key
<1>2. /\ \A n \in DOMAIN node : lo2[n] = lo[n] /\ (top2[n] # top[n] => node'[n].torn # {})
      /\ \A n \in DOMAIN node \ Holds(w) : top2[n] = top[n]
      /\ S \subseteq Holds(w)
  BY DEF Frame
<1>3. /\ \A n \in DOMAIN node : node'[n].ver >= node[n].ver
      /\ \A n \in DOMAIN node : node'[n].torn = {} /\ node'[n].ver = node[n].ver =>
           node[n].torn = {}
      /\ \A n \in DOMAIN node : node[n].ver \in Nat /\ node'[n].ver \in Nat
  <2>1. /\ \A n \in DOMAIN node : node[n].ver \in Nat
        /\ \A n \in DOMAIN node' : node'[n].ver \in Nat
        /\ DOMAIN node \subseteq DOMAIN node'
    BY DEF WorkerStep, Grows, TreeFine, IInv, NodeFine, Nodes
  <2> QED
    BY <2>1 DEF Steady, SameBody
<1>4. Knows(v) /\ Fit(v) /\ Splits(v)
  BY DEF IInv, Placed, VInv
<1>5. Holds(v) \cap Holds(w) = {}
  BY DEF IInv, LocksOwned
<1>6. ASSUME NEW n \in DOMAIN node, NEW k, Covers(n, k, v, lo, top)
      PROVE  covers(n, k)
  <2>1. lo2[n] <= Key(v) /\ k \in Nat /\ k <= node[n].ver /\ k \in 0..node'[n].ver
    BY <1>1, <1>2, <1>3, <1>6 DEF Covers
  <2>2. ASSUME node'[n].torn = {}, node'[n].ver = k PROVE Below(Key(v), top2[n])
    <3>1. node[n].ver = node'[n].ver
      BY <1>3, <2>1, <2>2
    <3>2. node[n].torn = {} /\ top2[n] = top[n]
      BY <1>2, <1>3, <2>2, <3>1
    <3> QED
      BY <1>1, <1>6, <2>2, <3>1, <3>2 DEF Covers
  <2> QED
    BY <2>1, <2>2
<1>7. call[v].op = "put" /\ r.pc \in {"rootver", "isroot"} => lo2[r.n] = 0
  BY <1>2, <1>4 DEF Bound, Knows, Descending
<1>8. ASSUME call[v].op = "put", r.pc \in {"child", "childver", "nodelock", "lock", "locked"}
      PROVE  covers(r.n, r.ver)
  <2>1. r.n \in DOMAIN node /\ Covers(r.n, r.ver, v, lo, top)
    BY <1>4, <1>8 DEF Knows, Descending, Writing, Leaves, Bound
  <2> QED
    BY <1>6, <2>1
<1>9. ASSUME call[v].op = "put", r.pc \in {"childver", "nodelock"}
      PROVE  ~node'[r.n].leaf
  BY <1>4, <1>9 DEF Bound, Knows, Descending, WorkerStep, Grows
<1>10. ASSUME call[v].op = "put", r.pc = "nodever", node'[r.n].ver = r.ver
       PROVE  covers(r.kid, r.kver)
  <2>1. /\ r.n \in DOMAIN node /\ r.ver <= node[r.n].ver /\ r.ver \in Nat
        /\ r.kid \in DOMAIN node
    BY <1>4, <1>10 DEF Knows, Descending, Fit, Versioned, N
  <2>2. node[r.n].ver = r.ver
    BY <1>3, <1>10, <2>1
  <2>3. Covers(r.kid, r.kver, v, lo, top)
    BY <1>10, <2>2 DEF Bound
  <2> QED
    BY <1>6, <2>1, <2>3
<1>11. ASSUME call[v].op = "put", r.pc \in {"moved", "next"}
       PROVE  lo2[r.n] <= Key(v)
  <2>1. r.n \in DOMAIN node
    BY <1>4, <1>11 DEF Knows, Reading, Leaves
  <2> QED
    BY <1>2, <1>11, <2>1 DEF Bound
<1>12. ASSUME call[v].op = "put", r.pc = "apply"
       PROVE  lo2[r.n] <= Key(v) /\ Below(Key(v), top2[r.n])
  <2>1. r.n \in DOMAIN node /\ r.n \in Holds(v)
    BY <1>4, <1>12 DEF Knows, Writing, Leaves, Holds
  <2> QED
    BY <1>2, <1>5, <1>12, <2>1 DEF Bound
<1>13. ASSUME r.pc \in {"insertparent", "newroot"}
       PROVE  node'[r.n].parent = node[r.n].parent
  <2>1. r.n \in DOMAIN node /\ r.n \in Holds(v) /\ r.n \notin S
    BY <1>2, <1>4, <1>5, <1>13 DEF Splits, Splitting, Holds
  <2>2. node[r.n].parent \in Holds(v) \cup {Null}
    BY <1>13 DEF Bound, Holds
  <2>3. Null \notin Holds(w)
    BY HeldFacts, NodeSeq DEF IInv, Null
  <2>4. node[r.n].parent \notin S
    BY <1>2, <1>5, <2>2, <2>3
  <2> QED
    BY <2>1, <2>4 DEF Frame
<1>14. r.pc = "setroot" => lo2[r.parent] = 0
  BY <1>2, <1>4 DEF Bound, Splits, Leaves
<1>15. call[v].op = "put" => r.pc \notin Reading \ {"moved", "next"}
  BY DEF Bound
<1> QED
  BY <1>1, <1>7, <1>8, <1>9, <1>10, <1>11, <1>12, <1>13, <1>14, <1>15 DEF Bound, Covers

\* The halves of the other workers stay what they are.
LEMMA OthersHalves ==
  ASSUME IInv, NEW w \in Workers, NEW v \in Workers \ {w}, WorkerStep(w),
         NEW S, NEW lo, NEW hi, NEW top, NEW lo2, NEW hi2, NEW top2,
         Frame(w, S, lo, hi, top, lo2, hi2, top2), Pending(v), Halves(v, lo, hi, top)
  PROVE  Halves(v, lo2, hi2, top2)'
<1> DEFINE n == th[v].n
           s == th[v].sib
<1>1. th'[v] = th[v]
  BY DEF WorkerStep, Others
<1>2. /\ n \in DOMAIN node /\ s \in DOMAIN node /\ n \notin Holds(w) /\ s \notin Holds(w)
      /\ Null \notin Holds(w)
  <2>1. n \in Holds(v) /\ s \in Holds(v) /\ n \in DOMAIN node /\ s \in DOMAIN node
    BY PendingFacts
  <2>2. Holds(v) \cap Holds(w) = {}
    BY DEF IInv, LocksOwned
  <2>3. Null \notin Holds(w)
    BY HeldFacts, NodeSeq DEF IInv, Null
  <2> QED
    BY <2>1, <2>2, <2>3
<1>3. node[s].parent = Null /\ S \subseteq Holds(w)
  BY DEF Halves, Frame
<1>4. /\ \A m \in {n, s} : /\ lo2[m] = lo[m] /\ hi2[m] = hi[m] /\ top2[m] = top[m]
                           /\ node'[m].torn = node[m].torn /\ node'[m].leaf = node[m].leaf
                           /\ node'[m].next = node[m].next
      /\ node'[s].parent = Null
  <2>1. \A m \in {n, s} : m \in DOMAIN node \ S /\ m \in DOMAIN node \ Holds(w)
    BY <1>2, <1>3
  <2>2. \A m \in DOMAIN node : lo2[m] = lo[m] /\ node'[m].leaf = node[m].leaf
    BY DEF Frame, WorkerStep, Grows
  <2>3. \A m \in DOMAIN node \ S : /\ hi2[m] = hi[m] /\ top2[m] = top[m]
                                   /\ node'[m].next = node[m].next
    BY DEF Frame
  <2>4. \A m \in DOMAIN node \ Holds(w) : node'[m].torn = node[m].torn
    BY DEF Frame
  <2>5. node'[s].parent = Null
    BY <1>2, <1>3 DEF Frame
  <2> QED
    BY <2>1, <2>2, <2>3, <2>4, <2>5
<1> QED
  BY <1>1, <1>4 DEF Halves

\* The others' nodes stay where they are in the tree and in the list.
LEMMA NodeKept ==
  ASSUME IInv, NEW w \in Workers, WorkerStep(w),
         NEW S, NEW lo, NEW hi, NEW top, NEW lo2, NEW hi2, NEW top2,
         Frame(w, S, lo, hi, top, lo2, hi2, top2), HalvesStay(w, S),
         NEW n \in DOMAIN node \ S, NodeOrdered(n, lo, hi, top)
  PROVE  NodeOrdered(n, lo2, hi2, top2)'
<1> DEFINE r == node[n]
<1>1. /\ \A m \in DOMAIN node : lo2[m] = lo[m] /\ node'[m].leaf = node[m].leaf
      /\ hi2[n] = hi[n] /\ top2[n] = top[n] /\ node'[n].keys = r.keys
      /\ node'[n].kids = r.kids /\ node'[n].next = r.next /\ node'[n].leaf = r.leaf
  BY DEF Frame, WorkerStep, Grows
<1>2. /\ \A m \in DOMAIN node \ S : node'[m].kids = node[m].kids
      /\ \A m \in DOMAIN node : node[m].parent \notin S =>
           \/ node'[m].parent = node[m].parent /\ hi2[m] = hi[m]
           \/ node[m].parent = Null /\ m \in S
      /\ r.parent \in S => /\ node'[n].parent # Null
                           /\ n \in Range(node'[node'[n].parent].kids)
  BY DEF Frame
<1>3. /\ NodeFine(r, DOMAIN node, Leaves) /\ n # Null /\ Null \notin DOMAIN node
      /\ \A m \in DOMAIN node : node[m] \in Nodes
  BY NodeFacts, NodeSeq DEF IInv, Null
<1>4. KeysFit(node'[n], lo2[n], top2[n])
  BY <1>1 DEF NodeOrdered, KeysFit
<1>5. ASSUME ~r.leaf
      PROVE  /\ Laid(r.keys, r.kids, lo2[n], top2[n], lo2, hi2)
             /\ \A i \in 1..Len(r.keys) + 1 : node'[r.kids[i]].parent = n
  <2>1. /\ Laid(r.keys, r.kids, lo[n], top[n], lo, hi)
        /\ \A i \in 1..Len(r.keys) + 1 : node[r.kids[i]].parent = n
    BY <1>5 DEF NodeOrdered
  <2>2. \A i \in 1..Len(r.keys) + 1 : r.kids[i] \in DOMAIN node
    <3>1. r.kids \in Seq(DOMAIN node) /\ Len(r.kids) = Len(r.keys) + 1
      BY <1>3, <1>5 DEF NodeFine
    <3> HIDE DEF r
    <3> QED
      BY <3>1
  <2>3. \A i \in 1..Len(r.keys) + 1 : /\ node'[r.kids[i]].parent = n
                                      /\ hi2[r.kids[i]] = hi[r.kids[i]]
                                      /\ lo2[r.kids[i]] = lo[r.kids[i]]
    BY <1>1, <1>2, <1>3, <2>1, <2>2
  <2>4. lo2[n] = lo[n] /\ top2[n] = top[n]
    BY <1>1
  <2> HIDE DEF r
  <2> QED
    BY <2>1, <2>3, <2>4 DEF Laid
<1>6. node'[n].parent # Null => n \in Range(node'[node'[n].parent].kids)
  <2>1. CASE r.parent \in S
    BY <1>2, <2>1
  <2>2. CASE r.parent \notin S
    <3>1. node'[n].parent = r.parent
      BY <1>2, <2>2
    <3>2. r.parent \in DOMAIN node \cup {Null}
      BY <1>3 DEF NodeFine
    <3>3. r.parent # Null => node'[r.parent].kids = node[r.parent].kids
      BY <1>2, <2>2, <3>2
    <3>4. r.parent # Null => n \in Range(node[r.parent].kids)
      BY DEF NodeOrdered
    <3> QED
      BY <3>1, <3>3, <3>4
  <2> QED
    BY <2>1, <2>2
<1>7. /\ LeftHalf(n) => LeftHalf(n)'
      /\ RightHalf(n) => RightHalf(n)'
      /\ Unlisted(n) => Unlisted(n)'
  <2>1. \A v \in Workers \ {w} : th'[v] = th[v] /\ (Pending(v) => Pending(v)')
    BY DEF WorkerStep, Others, Pending
  <2>2. Pending(w) /\ n \in {th[w].n, th[w].sib} =>
          /\ Pending(w)' /\ th'[w].n = th[w].n /\ th'[w].sib = th[w].sib
          /\ th'[w].pc = "link" <=> th[w].pc = "link"
    BY DEF HalvesStay
  <2>3. LeftHalf(n) => LeftHalf(n)'
    BY <2>1, <2>2 DEF LeftHalf
  <2>4. RightHalf(n) => RightHalf(n)'
    BY <2>1, <2>2 DEF RightHalf
  <2>5. Unlisted(n) => Unlisted(n)'
    BY <2>1, <2>2 DEF Unlisted
  <2> QED
    BY <2>3, <2>4, <2>5
<1>8. node'[n].parent = Null /\ ~RightHalf(n)' => lo2[n] = 0 /\ hi2[n] = 0
  <2>1. node'[n].parent = Null => r.parent = Null
    BY <1>2
  <2> QED
    BY <1>1, <1>7, <2>1 DEF NodeOrdered
<1>9. ~LeftHalf(n)' => top2[n] = hi2[n]
  BY <1>1, <1>7 DEF NodeOrdered
<1>10. r.leaf /\ ~Unlisted(n)' => Follows(hi2[n], r.next, lo2)
  <2>1. r.leaf => r.next \in DOMAIN node \cup {Null}
    BY <1>3 DEF NodeFine, Leaves
  <2> QED
    BY <1>1, <1>7, <2>1 DEF NodeOrdered, Follows
<1> QED
  BY <1>1, <1>4, <1>5, <1>6, <1>8, <1>9, <1>10 DEF NodeOrdered

\* Such a step, with its rest shown, keeps the tree in order.
LEMMA StepKeepsOrder ==
  ASSUME IInv, VInv, NEW w \in Workers, WorkerStep(w), Steady,
         NEW S, NEW lo, NEW hi, NEW top, NEW lo2, NEW hi2, NEW top2, Order(lo, hi, top),
         Frame(w, S, lo, hi, top, lo2, hi2, top2), HalvesStay(w, S), Rest(w, S, lo2, hi2, top2)
  PROVE  Order(lo2, hi2, top2)'
<1>1. lo2 \in Bounds' /\ hi2 \in Bounds' /\ top2 \in Bounds' /\ lo2[root'] = 0
  BY DEF Frame, Rest
<1>2. \A n \in DOMAIN node' : NodeOrdered(n, lo2, hi2, top2)'
  <2> SUFFICES ASSUME NEW n \in DOMAIN node' PROVE NodeOrdered(n, lo2, hi2, top2)'
    OBVIOUS
  <2>1. CASE n \in DOMAIN node \ S
    <3>1. NodeOrdered(n, lo, hi, top)
      BY <2>1 DEF Order
    <3> QED
      BY <2>1, <3>1, NodeKept
  <2>2. CASE n \notin DOMAIN node \ S
    BY <2>2 DEF Rest
  <2> QED
    BY <2>1, <2>2
<1>3. ASSUME NEW v \in Workers PROVE (Pending(v) => Halves(v, lo2, hi2, top2))'
  <2>1. CASE v = w
    BY <2>1 DEF Rest
  <2>2. CASE v # w
    <3>1. Pending(v)' <=> Pending(v)
      BY <2>2 DEF WorkerStep, Others, Pending
    <3>2. Pending(v) => Halves(v, lo, hi, top)
      BY DEF Order
    <3> QED
      BY <2>2, <3>1, <3>2, OthersHalves
  <2> QED
    BY <2>1, <2>2
<1>4. ASSUME NEW v \in Workers PROVE Bound(v, lo2, top2)'
  <2>1. CASE v = w
    BY <2>1 DEF Rest
  <2>2. CASE v # w
    <3>1. Bound(v, lo, top) /\ (th'[w].pc = "link" => th'[w].sib \notin DOMAIN node)
      BY DEF Order, Rest
    <3> QED
      BY <2>2, <3>1, OthersBound
  <2> QED
    BY <2>1, <2>2
<1>5. ASSUME NEW v \in Workers PROVE Apart(v)'
  <2>1. CASE v = w
    BY <2>1 DEF Rest
  <2>2. CASE v # w
    <3> SUFFICES ASSUME th[v].pc = "link"
                 PROVE  /\ \A n \in Leaves' : node'[n].next # th[v].sib
                        /\ \A u \in Workers : call'[u].op = "put" /\ th'[u].pc \in {"moved", "next"}
                                                => th'[u].n # th[v].sib
      BY <2>2 DEF Apart, WorkerStep, Others
    <3>1. /\ \A n \in Leaves : node[n].next # th[v].sib
          /\ \A u \in Workers : call[u].op = "put" /\ th[u].pc \in {"moved", "next"}
                                  => th[u].n # th[v].sib
      BY DEF Order, Apart
    <3>2. \A n \in DOMAIN node \ S : node'[n].next = node[n].next
      BY DEF Frame
    <3>3. \A n \in Leaves' : n \in S \/ n \notin DOMAIN node => node'[n].next # th[v].sib
      BY <2>2 DEF Rest
    <3>4. call'[w].op = "put" /\ th'[w].pc \in {"moved", "next"} => th'[w].n # th[v].sib
      BY <2>2 DEF Rest
    <3>6. \A n \in Leaves' : n \in DOMAIN node => n \in Leaves
      BY DEF WorkerStep, Grows, Leaves
    <3>5. \A u \in Workers \ {w} : th'[u] = th[u] /\ call'[u] = call[u]
      BY DEF WorkerStep, Others
    <3> QED
      BY <3>1, <3>2, <3>3, <3>4, <3>5, <3>6
  <2> QED
    BY <2>1, <2>2
<1> QED
  BY <1>1, <1>2, <1>3, <1>4, <1>5 DEF Order

\* The tree has the shape it had.
SameTree ==
  /\ DOMAIN node' = DOMAIN node
  /\ \A n \in DOMAIN node : /\ node'[n].keys = node[n].keys /\ node'[n].kids = node[n].kids
                            /\ node'[n].next = node[n].next
                            /\ node'[n].parent = node[n].parent

\* A step that leaves the shape of the tree as it is.
LEMMA QuietOrder ==
  ASSUME IInv, VInv, NEW w \in Workers, WorkerStep(w), Steady,
         NEW lo, NEW hi, NEW top, Order(lo, hi, top), SameTree, lo[root'] = 0,
         \A n \in DOMAIN node \ Holds(w) : node'[n].torn = node[n].torn,
         th[w].pc # "link", th'[w].pc # "link", Pending(w)' <=> Pending(w),
         Pending(w) => /\ th'[w].n = th[w].n /\ th'[w].sib = th[w].sib
                       /\ th'[w].split = th[w].split /\ node'[th[w].n].torn # {},
         Bound(w, lo, top)',
         call'[w].op = "put" /\ th'[w].pc \in {"moved", "next"} =>
           \A v \in Workers \ {w} : th[v].pc = "link" => th'[w].n # th[v].sib
  PROVE  Order(lo, hi, top)'
<1> DEFINE S == {}
<1>1. Frame(w, S, lo, hi, top, lo, hi, top)
  <2>1. lo \in Bounds' /\ hi \in Bounds' /\ top \in Bounds'
    BY DEF Order, Bounds, SameTree
  <2> QED
    BY <2>1 DEF Frame, SameTree
<1>2. HalvesStay(w, S)
  BY DEF HalvesStay
<1>3. (Pending(w) => Halves(w, lo, hi, top))'
  <2> SUFFICES ASSUME Pending(w) PROVE Halves(w, lo, hi, top)'
    OBVIOUS
  <2>1. Halves(w, lo, hi, top) /\ th[w].n \in DOMAIN node /\ th[w].sib \in DOMAIN node
    BY PendingFacts DEF Order
  <2>2. \A n \in DOMAIN node : /\ node'[n].next = node[n].next /\ node'[n].leaf = node[n].leaf
                               /\ node'[n].parent = node[n].parent
    BY DEF SameTree, WorkerStep, Grows
  <2> QED
    BY <2>1, <2>2 DEF Halves
<1>4. Rest(w, S, lo, hi, top)
  BY <1>3 DEF Rest, SameTree, Apart, Leaves
<1> QED
  BY <1>1, <1>2, <1>4, StepKeepsOrder

\* A step of a worker without locks.
LEMMA LooseOrder ==
  ASSUME IInv, VInv, NEW w \in Workers, WorkerStep(w), Steady, UNCHANGED tree,
         NEW lo, NEW hi, NEW top, Order(lo, hi, top),
         th[w].pc \in Loose, th'[w].pc \in Loose, Bound(w, lo, top)',
         call'[w].op = "put" /\ th'[w].pc \in {"moved", "next"} =>
           \A v \in Workers \ {w} : th[v].pc = "link" => th'[w].n # th[v].sib
  PROVE  Order(lo, hi, top)'
<1>1. ~Pending(w) /\ ~Pending(w)'
  <2>1. Knows(w) /\ Knows(w)'
    BY DEF IInv, WorkerStep, Placed
  <2>2. th[w].sib = Null /\ th'[w].sib = Null
    BY <2>1 DEF Knows, Loose, Writing
  <2> QED
    BY <2>2 DEF Pending
<1>2. SameTree /\ lo[root'] = 0
  BY DEF SameTree, tree, Order
<1>3. \A n \in DOMAIN node : node'[n].torn = node[n].torn
  BY DEF tree
<1>4. th[w].pc # "link" /\ th'[w].pc # "link"
  BY DEF Loose, Descending, Reading
<1> QED
  BY <1>1, <1>2, <1>3, <1>4, QuietOrder

\* The root has no bounds.
LEMMA RootBounds ==
  ASSUME IInv, NEW lo, NEW hi, NEW top, Order(lo, hi, top),
         NEW n \in DOMAIN node, node[n].parent = Null, lo[n] = 0, node[n].torn = {}
  PROVE  top[n] = 0
<1>1. ~RightHalf(n)
  <2> SUFFICES ASSUME NEW w \in Workers, Pending(w), th[w].sib = n PROVE FALSE
    BY DEF RightHalf
  <2>1. lo[n] = th[w].split /\ th[w].split \in Keys
    BY PendingFacts DEF Order, Halves
  <2> QED
    BY <2>1, ConstantFacts
<1>2. ~LeftHalf(n)
  BY DEF LeftHalf, Order, Halves
<1> QED
  BY <1>1, <1>2 DEF Order, NodeOrdered

\* A whole leaf ends where the next one begins.
LEMMA LeafEnds ==
  ASSUME IInv, NEW lo, NEW hi, NEW top, Order(lo, hi, top),
         NEW n \in Leaves, node[n].torn = {},
         \A v \in Workers : th[v].pc = "link" => n # th[v].sib
  PROVE  Follows(top[n], node[n].next, lo)
<1>1. n \in DOMAIN node /\ node[n].leaf
  BY DEF Leaves
<1>2. ~LeftHalf(n)
  BY DEF LeftHalf, Order, Halves
<1>3. ~Unlisted(n)
  BY <1>2 DEF Unlisted, LeftHalf
<1> QED
  BY <1>1, <1>2, <1>3 DEF Order, NodeOrdered

\* The child that find_child finds in a whole node has the range of the key.
LEMMA ChildBounds ==
  ASSUME IInv, NEW lo, NEW hi, NEW top, Order(lo, hi, top),
         NEW n \in DOMAIN node, ~node[n].leaf, NEW k \in Nat, lo[n] <= k, Below(k, top[n])
  PROVE  LET c == ChildOf(n, k) IN lo[c] <= k /\ Below(k, hi[c])
<1> DEFINE r == node[n]
           j == FirstLarger(r.keys, k) + 1
           c == r.kids[j]
<1>1. r.keys \in Seq(Keys)
  BY NodeFacts DEF IInv, Nodes
<1>2. KeysFit(r, lo[n], top[n]) /\ Laid(r.keys, r.kids, lo[n], top[n], lo, hi)
  BY DEF Order, NodeOrdered
<1>3. Ascending(r.keys)
  BY <1>2 DEF KeysFit, Ascending
<1> HIDE DEF r
<1>4. j \in 1..Len(r.keys) + 1 /\ \A i \in 1..Len(r.keys) : r.keys[i] <= k <=> i < j
  <2>1. /\ FirstLarger(r.keys, k) \in 0..Len(r.keys)
        /\ \A i \in 1..Len(r.keys) : r.keys[i] <= k <=> i <= FirstLarger(r.keys, k)
    BY <1>1, <1>3, Ranks
  <2> QED
    BY <1>1, <2>1
<1>5. Len(r.keys) \in Nat /\ \A i \in 1..Len(r.keys) : r.keys[i] \in Nat
  <2>1. Len(r.keys) \in Nat /\ \A i \in 1..Len(r.keys) : r.keys[i] \in Keys
    BY <1>1
  <2> QED
    BY <2>1, ConstantFacts
<1> HIDE DEF j
<1>6. /\ lo[c] = IF j = 1 THEN lo[n] ELSE r.keys[j - 1]
      /\ hi[c] = IF j = Len(r.keys) + 1 THEN top[n] ELSE r.keys[j]
  BY <1>2, <1>4 DEF Laid
<1>7. lo[c] <= k
  <2>1. CASE j # 1
    <3>1. j - 1 \in 1..Len(r.keys) /\ j - 1 < j
      BY <1>4, <1>5, <2>1
    <3> QED
      BY <1>4, <1>6, <2>1, <3>1
  <2> QED
    BY <1>6, <2>1
<1>8. Below(k, hi[c])
  <2>1. CASE j # Len(r.keys) + 1
    <3>1. j \in 1..Len(r.keys) /\ ~(j < j)
      BY <1>4, <1>5, <2>1
    <3>2. ~(r.keys[j] <= k) /\ r.keys[j] \in Nat
      BY <1>4, <1>5, <3>1
    <3> QED
      BY <1>6, <2>1, <3>2 DEF Below
  <2> QED
    BY <1>6, <2>1
<1>9. ChildOf(n, k) = c
  BY DEF ChildOf, c, j, r
<1> QED
  BY <1>7, <1>8, <1>9

\* An insert on its way down (xindex_buffer_impl.h:158-185).
LEMMA DescentOrder ==
  ASSUME IInv, VInv, NEW w \in Workers, WorkerStep(w), Steady,
         NEW lo, NEW hi, NEW top, Order(lo, hi, top),
         \/ ReadRoot(w) \/ ReadRootVersion(w) \/ IsRoot(w) \/ FoundLeaf(w) \/ FindChild(w)
         \/ ReadChildVersion(w) \/ CheckNodeLock(w) \/ CheckNodeVersion(w)
  PROVE  Order(lo, hi, top)'
<1> DEFINE r == th[w]
           x == th'[w]
           k == Key(w)
           covers(n, v) == /\ v \in 0..node[n].ver /\ lo[n] <= k
                           /\ node[n].torn = {} /\ node[n].ver = v => Below(k, top[n])
<1>1. /\ DOMAIN th = Workers /\ DOMAIN r = Fields /\ Fit(w)
      /\ \A n \in DOMAIN node : node[n].ver \in Nat
      /\ r.pc \in Descending => r.n \in DOMAIN node
      /\ r.pc \in {"childver", "nodelock", "nodever"} => r.kid \in DOMAIN node
      /\ lo \in Bounds /\ hi \in Bounds /\ top \in Bounds /\ lo[root] = 0
  BY VersionFacts DEF IInv, VInv, Threads, Placed, Knows, Order
<1>2. UNCHANGED tree /\ node' = node /\ call' = call
  BY DEF ReadRoot, ReadRootVersion, IsRoot, FoundLeaf, FindChild, ReadChildVersion,
         CheckNodeLock, CheckNodeVersion, Step, Silent, tree
<1>3. Key(w)' = k /\ call'[w] = call[w]
  BY <1>2 DEF Key
<1>4. k \in Nat
  <2>1. r.pc \in {"root"} \cup Descending
    BY DEF ReadRoot, ReadRootVersion, IsRoot, FoundLeaf, FindChild, ReadChildVersion,
           CheckNodeLock, CheckNodeVersion, Descending
  <2>2. call[w] \in Map!Calls
    BY <2>1 DEF IInv, Placed, Knows
  <2> QED
    BY <2>2, CallFacts, ConstantFacts DEF Key
<1>5. /\ r.pc \in {"root"} \cup Descending
      /\ x.pc \in {"root", "search", "copy", "lock"} \cup Descending
  BY <1>1 DEF ReadRoot, ReadRootVersion, IsRoot, FoundLeaf, FindChild, ReadChildVersion,
         CheckNodeLock, CheckNodeVersion, Step, Goto, Fields, Descending, AtLeaf
<1>6. Bound(w, lo, top)
  BY DEF Order
<1>7. ASSUME call[w].op = "put" => \/ x.pc = "root"
                                   \/ x.pc \in {"rootver", "isroot"} /\ lo[x.n] = 0
                                   \/ x.pc \in {"child", "lock"} /\ covers(x.n, x.ver)
                                   \/ /\ x.pc \in {"childver", "nodelock"}
                                      /\ covers(x.n, x.ver) /\ ~node[x.n].leaf
                                   \/ /\ x.pc = "nodever"
                                      /\ node[x.n].ver = x.ver => covers(x.kid, x.kver)
      PROVE  Order(lo, hi, top)'
  <2>1. Bound(w, lo, top)'
    BY <1>2, <1>3, <1>5, <1>7 DEF Bound, Covers, Descending, Reading
  <2>2. r.pc \in Loose /\ x.pc \in Loose /\ x.pc \notin {"moved", "next"}
    BY <1>5 DEF Loose, Reading, Descending
  <2> QED
    BY <1>2, <2>1, <2>2, LooseOrder
<1> SUFFICES ASSUME call[w].op = "put"
             PROVE  \/ x.pc = "root"
                    \/ x.pc \in {"rootver", "isroot"} /\ lo[x.n] = 0
                    \/ x.pc \in {"child", "lock"} /\ covers(x.n, x.ver)
                    \/ /\ x.pc \in {"childver", "nodelock"}
                       /\ covers(x.n, x.ver) /\ ~node[x.n].leaf
                    \/ /\ x.pc = "nodever"
                       /\ node[x.n].ver = x.ver => covers(x.kid, x.kver)
  BY <1>7
<1>8. /\ r.pc \in {"child", "childver", "nodelock"} => covers(r.n, r.ver)
      /\ r.pc \in {"childver", "nodelock"} => ~node[r.n].leaf
  BY <1>6 DEF Bound, Covers
<1>9. CASE ReadRoot(w)
  <2>1. x.pc = "rootver" /\ x.n = root
    BY <1>1, <1>9 DEF ReadRoot, Fields
  <2> QED
    BY <1>1, <2>1
<1>10. CASE ReadRootVersion(w)
  <2>1. r.pc = "rootver" /\ x.pc = "isroot" /\ x.n = r.n
    BY <1>1, <1>10 DEF ReadRootVersion, Fields
  <2> QED
    BY <1>6, <2>1 DEF Bound
<1>11. CASE IsRoot(w)
  <2>1. /\ r.pc = "isroot" /\ x.n = r.n /\ x.ver = r.ver /\ r.n \in DOMAIN node
        /\ x.pc # "root" => x.pc = "child" /\ node[r.n].parent = Null
    BY <1>1, <1>11 DEF IsRoot, Step, Goto, Fields, N, Descending
  <2>2. lo[r.n] = 0 /\ r.ver \in 0..node[r.n].ver
    BY <1>1, <1>6, <2>1 DEF Bound, Fit, Versioned, N
  <2>3. node[r.n].parent = Null /\ node[r.n].torn = {} => top[r.n] = 0
    BY <2>1, <2>2, RootBounds
  <2> QED
    BY <1>4, <2>1, <2>2, <2>3 DEF Below
<1>12. CASE FoundLeaf(w)
  <2>1. r.pc = "child" /\ x.pc = "lock" /\ x.n = r.n /\ x.ver = r.ver
    BY <1>1, <1>12 DEF FoundLeaf, Step, Goto, Fields, AtLeaf
  <2> QED
    BY <1>8, <2>1
<1>13. CASE FindChild(w)
  <2>1. r.pc = "child" /\ x.pc = "childver" /\ x.n = r.n /\ x.ver = r.ver /\ ~node[r.n].leaf
    BY <1>1, <1>13 DEF FindChild, Fields, N
  <2> QED
    BY <1>8, <2>1
<1>14. CASE ReadChildVersion(w)
  <2>1. r.pc = "childver" /\ x.pc = "nodelock" /\ x.n = r.n /\ x.ver = r.ver
    BY <1>1, <1>14 DEF ReadChildVersion, Fields
  <2> QED
    BY <1>8, <2>1
<1>15. CASE CheckNodeLock(w)
  <2>1. /\ r.pc = "nodelock" /\ x.n = r.n /\ x.ver = r.ver /\ x.kid = r.kid /\ x.kver = r.kver
        /\ x.pc # "root" => x.pc = "nodever" /\ ~node[r.n].locked
    BY <1>1, <1>15 DEF CheckNodeLock, Step, Goto, Fields, N
  <2> SUFFICES ASSUME ~node[r.n].locked, node[r.n].ver = r.ver PROVE covers(r.kid, r.kver)
    BY <2>1
  <2>2. r.n \in DOMAIN node /\ r.kid \in DOMAIN node
    BY <1>1, <2>1 DEF Descending
  <2>3. node[r.n].torn = {}
    BY <2>2, UnlockedWhole
  <2>4. r.kid = ChildOf(r.n, k) /\ r.kver \in 0..node[r.kid].ver
    BY <1>1, <2>1, <2>2, <2>3 DEF Fit, N
  <2>5. lo[r.kid] <= k /\ Below(k, hi[r.kid])
    <3>1. lo[r.n] <= k /\ Below(k, top[r.n]) /\ ~node[r.n].leaf
      BY <1>8, <2>1, <2>3
    <3> QED
      BY <1>4, <2>2, <2>4, <3>1, ChildBounds
  <2>6. node[r.kid].torn = {} => top[r.kid] = hi[r.kid]
    BY <2>2 DEF Order, NodeOrdered, LeftHalf, Halves
  <2> QED
    BY <2>4, <2>5, <2>6
<1>16. CASE CheckNodeVersion(w)
  <2>1. /\ r.pc = "nodever"
        /\ \/ x.pc = "root"
           \/ node[r.n].ver = r.ver /\ x.pc = "child" /\ x.n = r.kid /\ x.ver = r.kver
    BY <1>1, <1>16 DEF CheckNodeVersion, Fields, N
  <2> QED
    BY <1>6, <2>1 DEF Bound, Covers
<1> QED
  BY <1>9, <1>10, <1>11, <1>12, <1>13, <1>14, <1>15, <1>16

\* A reader in a leaf, and an insert on its way to the right
\* (xindex_buffer_impl.h:53-82, 188-213, 700-790).
LEMMA ReadOrder ==
  ASSUME IInv, VInv, NEW w \in Workers, WorkerStep(w), Steady,
         NEW lo, NEW hi, NEW top, Order(lo, hi, top),
         \/ Reread(w) \/ FollowNext(w) \/ Search(w) \/ Read(w) \/ Copy(w) \/ CopyNext(w)
         \/ CheckLeafLock(w) \/ CheckLeafVersion(w) \/ ReadLeafVersion(w)
  PROVE  Order(lo, hi, top)'
<1> DEFINE r == th[w]
           x == th'[w]
           k == Key(w)
           covers(n, v) == /\ v \in 0..node[n].ver /\ lo[n] <= k
                           /\ node[n].torn = {} /\ node[n].ver = v => Below(k, top[n])
           apart(n) == \A v \in Workers : th[v].pc = "link" => n # th[v].sib
<1>1. /\ DOMAIN th = Workers /\ DOMAIN r = Fields /\ Fit(w) /\ Bound(w, lo, top)
      /\ \A n \in DOMAIN node : node[n].ver \in Nat
      /\ lo \in Bounds /\ hi \in Bounds /\ top \in Bounds
  BY VersionFacts DEF IInv, VInv, Threads, Order
<1>2. UNCHANGED tree /\ node' = node
  BY DEF Reread, FollowNext, Search, Read, Copy, CopyNext, CheckLeafLock, CheckLeafVersion,
         ReadLeafVersion, Step, tree
<1>3. r.pc \in Reading
  BY DEF Reread, FollowNext, Search, Read, Copy, CopyNext, CheckLeafLock, CheckLeafVersion,
         ReadLeafVersion, Reading
<1>4. r.n \in Leaves /\ r.n \in DOMAIN node /\ k \in Nat
  <2>1. r.n \in Leaves /\ call[w] \in Map!Calls
    BY <1>3 DEF IInv, Placed, Knows
  <2> QED
    BY <2>1, CallFacts, ConstantFacts DEF Leaves, Key
<1>5. ASSUME x.pc \in Loose, call' = call,
             call[w].op = "put" => \/ x.pc = "next" /\ lo[x.n] <= k /\ apart(x.n)
                                   \/ x.pc = "moved" /\ lo[x.n] <= k /\ apart(x.n)
                                   \/ x.pc = "lock" /\ covers(x.n, x.ver)
      PROVE  Order(lo, hi, top)'
  <2>1. Bound(w, lo, top)'
    BY <1>2, <1>5 DEF Bound, Covers, Key, Loose, Descending, Reading
  <2>2. r.pc \in Loose
    BY <1>3 DEF Loose
  <2> QED
    BY <1>2, <1>5, <2>1, <2>2, LooseOrder
<1>6. ASSUME x.pc = "idle" PROVE Order(lo, hi, top)'
  <2>1. Bound(w, lo, top)'
    BY <1>6 DEF Bound, Reading
  <2> QED
    BY <1>2, <1>3, <1>6, <2>1, LooseOrder DEF Loose
<1>7. ASSUME r.pc \notin {"moved", "next"} PROVE Order(lo, hi, top)'
  <2>1. call[w].op # "put"
    BY <1>1, <1>3, <1>7 DEF Bound
  <2>2. x.pc = "idle" \/ (x.pc \in Loose /\ call' = call)
    <3>1. CASE Search(w) \/ Read(w) \/ Copy(w) \/ CopyNext(w) \/ ReadLeafVersion(w)
      BY <1>1, <3>1 DEF Search, Read, Copy, CopyNext, ReadLeafVersion, Fields, Silent,
                        Loose, Reading
    <3>2. CASE CheckLeafLock(w)
      BY <1>1, <3>2 DEF CheckLeafLock, Step, Goto, Fields, Silent, Again, Loose, Reading
    <3>3. CASE CheckLeafVersion(w)
      <4>1. ASSUME NEW a, Return(w, a) PROVE x.pc = "idle"
        BY <1>1, <4>1 DEF Return, Idle
      <4>2. \/ Goto(w, Again(w)) /\ Silent
            \/ \E a : Return(w, a)
            \/ /\ th' = [th EXCEPT ![w].pc = "leafver", ![w].n = r.next,
                                   ![w].out = @ \o r.part, ![w].first = FALSE]
               /\ Silent
        BY <3>3, Zenon DEF CheckLeafVersion
      <4>3. CASE Goto(w, Again(w)) /\ Silent
        BY <1>1, <4>3 DEF Goto, Fields, Silent, Again, Loose, Reading
      <4>4. CASE /\ th' = [th EXCEPT ![w].pc = "leafver", ![w].n = r.next,
                                     ![w].out = @ \o r.part, ![w].first = FALSE]
                 /\ Silent
        BY <1>1, <4>4 DEF Fields, Silent, Loose, Reading
      <4> QED
        BY <4>1, <4>2, <4>3, <4>4
    <3> QED
      BY <1>7, <3>1, <3>2, <3>3 DEF Reread, FollowNext
  <2> QED
    BY <1>5, <1>6, <2>1, <2>2
<1>8. call[w].op = "put" /\ r.pc \in {"moved", "next"} => lo[r.n] <= k /\ apart(r.n)
  <2>1. \A v \in Workers : Apart(v)
    BY DEF Order
  <2> QED
    BY <1>1, <2>1 DEF Bound, Apart
<1>9. CASE Reread(w)
  <2>1. r.pc = "moved" /\ x.pc = "next" /\ x.n = r.n /\ call' = call
    BY <1>1, <1>9 DEF Reread, Fields, Silent
  <2> QED
    BY <1>5, <1>8, <2>1 DEF Loose, Reading
<1>10. CASE FollowNext(w)
  <2> DEFINE m == node[r.n].next
  <2>1. /\ r.pc = "next" /\ call' = call
        /\ IF m # Null /\ node[m].keys[1] <= k THEN x.pc = "moved" /\ x.n = m
           ELSE x.pc = AtLeaf(w) /\ x.n = r.n /\ x.ver = r.ver
    BY <1>1, <1>10 DEF FollowNext, Fields, Silent, N
  <2>2. AtLeaf(w) \in {"search", "copy", "lock"} /\ (call[w].op = "put" => AtLeaf(w) = "lock")
    BY DEF AtLeaf
  <2>3. x.pc \in Loose
    BY <2>1, <2>2 DEF Loose, Reading
  <2> SUFFICES ASSUME call[w].op = "put"
               PROVE  \/ x.pc = "moved" /\ lo[x.n] <= k /\ apart(x.n)
                      \/ x.pc = "lock" /\ covers(x.n, x.ver)
    BY <1>5, <2>1, <2>3
  <2>4. m \in DOMAIN node \cup {Null} /\ (m # Null => node[m].leaf)
    BY <1>4, NextFacts DEF IInv, Leaves
  <2>5. m # Null /\ lo[m] # 0 => Len(node[m].keys) > 0 /\ node[m].keys[1] = lo[m]
    BY <2>4 DEF Order, NodeOrdered, KeysFit
  <2>6. CASE m # Null /\ node[m].keys[1] <= k
    <3>1. lo[m] <= k
      <4>1. lo[m] \in Nat
        BY <1>1, <2>4, <2>6 DEF Bounds
      <4> QED
        BY <1>4, <2>5, <2>6, <4>1
    <3>2. apart(m)
      BY <1>4 DEF Order, Apart
    <3> QED
      BY <2>1, <2>6, <3>1, <3>2
  <2>7. CASE ~(m # Null /\ node[m].keys[1] <= k)
    <3>1. x.pc = "lock" /\ x.n = r.n /\ x.ver = r.ver
      BY <2>1, <2>2, <2>7
    <3>2. r.ver \in 0..node[r.n].ver /\ lo[r.n] <= k
      BY <1>1, <1>4, <1>8, <2>1 DEF Fit, Versioned, N
    <3>3. ASSUME node[r.n].torn = {} PROVE Below(k, top[r.n])
      <4>1. Follows(top[r.n], m, lo)
        BY <1>4, <1>8, <2>1, <3>3, LeafEnds
      <4>2. CASE m = Null
        BY <4>1, <4>2 DEF Follows, Below
      <4>3. CASE m # Null
        <5>1. top[r.n] = lo[m] /\ lo[m] # 0 /\ lo[m] \in Nat
          BY <1>1, <2>4, <4>1, <4>3 DEF Follows, Bounds
        <5>2. ~(lo[m] <= k)
          BY <2>5, <2>7, <4>3, <5>1
        <5> QED
          BY <1>4, <5>1, <5>2 DEF Below
      <4> QED
        BY <4>2, <4>3
    <3> QED
      BY <3>1, <3>2, <3>3
  <2> QED
    BY <2>6, <2>7
<1> QED
  BY <1>7, <1>9, <1>10 DEF Search, Read, Copy, CopyNext, CheckLeafLock, CheckLeafVersion,
                           ReadLeafVersion

\* A call that begins knows nothing yet.
LEMMA BeginOrder ==
  ASSUME IInv, VInv, NEW w \in Workers, WorkerStep(w), Steady,
         NEW lo, NEW hi, NEW top, Order(lo, hi, top), Begin(w)
  PROVE  Order(lo, hi, top)'
<1>1. th[w].pc = "idle"
  <2>1. call[w].op \notin {"get", "scan", "remove", "put", "update", "done"}
    BY DEF Begin, Map!NoCall
  <2>2. call[w] \notin Map!Calls
    BY <2>1, CallFacts
  <2> QED
    BY <2>1, <2>2 DEF IInv, Placed, Knows
<1>2. th'[w].pc = "root" /\ UNCHANGED tree
  BY DEF Begin, Idle, IInv, Threads
<1>3. Bound(w, lo, top)'
  BY <1>2 DEF Bound, Reading
<1> QED
  BY <1>1, <1>2, <1>3, LooseOrder DEF Loose

\* Locks, values and versions are not part of the shape of the tree.
LEMMA SameShape ==
  ASSUME TreeFine, NEW n \in DOMAIN node, NEW x, node' = [node EXCEPT ![n] = x],
         \/ \E b : x = [node[n] EXCEPT !.locked = b]
         \/ \E s, v, t : x = [node[n] EXCEPT !.vals[s] = v, !.torn = t]
         \/ \E s, v : x = [node[n] EXCEPT !.vals[s] = v]
  PROVE  /\ SameTree
         /\ \A m \in DOMAIN node : m # n =>
              node'[m].torn = node[m].torn /\ node'[m].ver = node[m].ver
         /\ (\E b : x = [node[n] EXCEPT !.locked = b]) =>
              node'[n].torn = node[n].torn /\ node'[n].ver = node[n].ver
<1>1. DOMAIN node[n] = {"leaf", "keys", "vals", "kids", "next", "parent", "ver", "locked", "torn"}
  BY NodeDomain
<1>2. /\ x.keys = node[n].keys /\ x.kids = node[n].kids /\ x.next = node[n].next
      /\ x.parent = node[n].parent
  <2>1. CASE \E b : x = [node[n] EXCEPT !.locked = b]
    BY <1>1, <2>1
  <2>2. CASE \E s, v, t : x = [node[n] EXCEPT !.vals[s] = v, !.torn = t]
    <3>1. PICK s, v, t : x = [node[n] EXCEPT !.vals[s] = v, !.torn = t]
      BY <2>2
    <3> QED
      BY <1>1, <3>1
  <2>3. CASE \E s, v : x = [node[n] EXCEPT !.vals[s] = v]
    BY <1>1, <2>3
  <2> QED
    BY <2>1, <2>2, <2>3
<1>3. (\E b : x = [node[n] EXCEPT !.locked = b]) => x.torn = node[n].torn /\ x.ver = node[n].ver
  BY <1>1
<1>4. /\ DOMAIN node' = DOMAIN node /\ node'[n] = x
      /\ \A m \in DOMAIN node : m # n => node'[m] = node[m]
  OBVIOUS
<1> QED
  BY <1>2, <1>3, <1>4 DEF SameTree

\* An insert locks its leaf (xindex_buffer_impl.h:194-209).
LEMMA LockOrder ==
  ASSUME IInv, VInv, NEW w \in Workers, WorkerStep(w), Steady,
         NEW lo, NEW hi, NEW top, Order(lo, hi, top), Lock(w) \/ CheckLocked(w)
  PROVE  Order(lo, hi, top)'
<1> DEFINE r == th[w]
           x == th'[w]
           n == r.n
<1>1. /\ DOMAIN th = Workers /\ DOMAIN r = Fields /\ TreeFine /\ Bound(w, lo, top)
      /\ r.pc \in {"lock", "locked"} /\ r.n \in DOMAIN node
      /\ r.sib = Null /\ lo[root] = 0
  BY DEF IInv, Threads, Lock, CheckLocked, Placed, Knows, Writing, Leaves, Order
<1>2. /\ x.n = n /\ x.ver = r.ver /\ x.sib = Null /\ call' = call /\ root' = root
      /\ \/ r.pc = "lock" /\ x.pc = "locked"
         \/ r.pc = "locked" /\ x.pc = "moved"
         \/ r.pc = "locked" /\ x.pc = "apply" /\ node[n].ver = r.ver
  BY <1>1 DEF Lock, CheckLocked, Goto, Silent, Fields, N
<1>3. /\ SameTree
      /\ \A m \in DOMAIN node : node'[m].ver = node[m].ver /\ node'[m].torn = node[m].torn
  <2>1. node' = node \/ \E b : node' = [node EXCEPT ![n].locked = b]
    BY DEF Lock, CheckLocked
  <2>2. CASE node' = node
    BY <2>2 DEF SameTree
  <2>3. CASE \E b : node' = [node EXCEPT ![n].locked = b]
    <3>1. PICK b : node' = [node EXCEPT ![n] = [node[n] EXCEPT !.locked = b]]
      BY <2>3
    <3> HIDE DEF n
    <3> QED
      BY <1>1, <3>1, SameShape DEF n
  <2> QED
    BY <2>1, <2>2, <2>3
<1>4. r.pc = "locked" =>
        /\ node[n].torn = {}
        /\ \A v \in Workers \ {w} : th[v].pc = "link" => n # th[v].sib
  <2> SUFFICES ASSUME r.pc = "locked"
               PROVE  /\ node[n].torn = {}
                      /\ \A v \in Workers \ {w} : th[v].pc = "link" => n # th[v].sib
    OBVIOUS
  <2>1. n \in Holds(w) /\ TornBy(w) = {}
    BY DEF Holds, TornBy
  <2>2. \A v \in Workers \ {w} : n \notin Holds(v) /\ TornBy(v) \subseteq Holds(v)
    <3>1. \A v \in Workers : TornBy(v) \subseteq Holds(v)
      BY DEF TornBy, Holds
    <3> QED
      BY <2>1, <3>1 DEF IInv, LocksOwned
  <2>3. node[n].torn = {}
    BY <1>1, <2>1, <2>2 DEF VInv, Whole
  <2>4. \A v \in Workers : th[v].pc = "link" => th[v].sib \in Holds(v)
    BY DEF Holds
  <2> QED
    BY <2>2, <2>3, <2>4
<1>5. Bound(w, lo, top)'
  <2>1. Key(w)' = Key(w) /\ call'[w] = call[w]
    BY <1>2 DEF Key
  <2>2. call[w].op = "put" => Covers(n, r.ver, w, lo, top)
    BY <1>1 DEF Bound
  <2>3. r.pc = "locked" => node[n].torn = {}
    BY <1>4
  <2> HIDE DEF n, r, x
  <2>4. node'[n].ver = node[n].ver /\ node'[n].torn = node[n].torn
    BY <1>1, <1>3 DEF n, r
  <2> QED
    BY <1>1, <1>2, <2>1, <2>2, <2>3, <2>4 DEF Bound, Covers, Reading, x
<1>6. ~Pending(w) /\ ~Pending(w)'
  BY <1>1, <1>2 DEF Pending
<1>7. x.pc \in {"moved", "next"} => \A v \in Workers \ {w} : th[v].pc = "link" => x.n # th[v].sib
  BY <1>2, <1>4
<1>8. lo[root'] = 0 /\ r.pc # "link" /\ x.pc # "link"
  BY <1>1, <1>2
<1> QED
  BY <1>3, <1>5, <1>6, <1>7, <1>8, QuietOrder

\* Values are changed in a leaf, the keys are not (xindex_buffer_impl.h:86-116, 219-233).
LEMMA RecordOrder ==
  ASSUME IInv, VInv, NEW w \in Workers, WorkerStep(w), Steady,
         NEW lo, NEW hi, NEW top, Order(lo, hi, top), ChangeRecord(w) \/ Overwrite(w)
  PROVE  Order(lo, hi, top)'
<1> DEFINE r == th[w]
           x == th'[w]
           n == r.n
<1>1. r.pc = "apply" /\ root' = root /\ lo[root] = 0
  BY DEF ChangeRecord, Overwrite, TakeEffect, Order
<1>2. /\ DOMAIN th = Workers /\ DOMAIN r = Fields /\ TreeFine /\ n \in DOMAIN node /\ r.sib = Null
      /\ Holds(w) = {n} /\ DOMAIN call = Workers
  BY <1>1, ApplyFacts DEF IInv, Threads
<1>3. x.sib = Null /\ x.pc \in {"unlock", "bump"} /\ call'[w].op = "done"
  BY <1>2 DEF ChangeRecord, Overwrite, TakeEffect, Fields, Map!Done
<1>4. SameTree /\ \A m \in DOMAIN node \ {n} : node'[m].torn = node[m].torn
  <2> DEFINE s == SlotOf(n, Key(w))
             live == s # 0 /\ node[n].vals[s] # Removed
             v == IF call[w].op = "remove" THEN Removed ELSE call[w].val
             y == [node[n] EXCEPT !.vals[s] = v]
             z == [node[n] EXCEPT !.vals[s] = call[w].val, !.torn = {Null}]
  <2>1. CASE ChangeRecord(w) /\ live
    <3>1. node' = [node EXCEPT ![n] = y]
      BY <2>1 DEF ChangeRecord
    <3>2. \E i, u : y = [node[n] EXCEPT !.vals[i] = u]
      OBVIOUS
    <3> HIDE DEF n, y
    <3> QED
      BY <1>2, <3>1, <3>2, SameShape
  <2>2. CASE ChangeRecord(w) /\ ~live
    <3>1. node' = node
      BY <2>2 DEF ChangeRecord
    <3> QED
      BY <3>1 DEF SameTree
  <2>3. CASE Overwrite(w)
    <3>1. node' = [node EXCEPT ![n] = z]
      BY <1>2, <2>3 DEF Overwrite
    <3>2. \E i, u, m : z = [node[n] EXCEPT !.vals[i] = u, !.torn = m]
      OBVIOUS
    <3> HIDE DEF n, z
    <3> QED
      BY <1>2, <3>1, <3>2, SameShape
  <2> QED
    BY <2>1, <2>2, <2>3
<1>5. Bound(w, lo, top)'
  BY <1>3 DEF Bound, Reading
<1>6. ~Pending(w) /\ ~Pending(w)'
  BY <1>2, <1>3 DEF Pending
<1> QED
  BY <1>1, <1>2, <1>3, <1>4, <1>5, <1>6, QuietOrder

\* A split finds and locks the parent of its halves (xindex_buffer_impl.h:320-332).
LEMMA ParentOrder ==
  ASSUME IInv, VInv, NEW w \in Workers, WorkerStep(w), Steady,
         NEW lo, NEW hi, NEW top, Order(lo, hi, top),
         ReadParent(w) \/ LockParent(w) \/ CheckParent(w)
  PROVE  Order(lo, hi, top)'
<1> DEFINE r == th[w]
           x == th'[w]
           p == r.parent
<1>1. /\ r.pc \in {"parent", "lockparent", "checkparent"} /\ root' = root /\ call' = call
      /\ DOMAIN th = Workers /\ TreeFine /\ lo[root] = 0
  BY DEF ReadParent, LockParent, CheckParent, Silent, Order, IInv, Threads, tree
<1>2. /\ DOMAIN r = Fields /\ call[w].op = "done" /\ r.n \in DOMAIN node /\ r.sib # Null
      /\ r.pc \in {"lockparent", "checkparent"} => p \in DOMAIN node
  <2>1. r.pc \in Splitting
    BY <1>1 DEF Splitting
  <2>2. r.pc \in {"lockparent", "checkparent"} => p \in DOMAIN node
    BY DEF IInv, Placed, Splits
  <2> QED
    BY <2>1, <2>2, SplitFacts
<1>3. /\ x.n = r.n /\ x.sib = r.sib /\ x.split = r.split
      /\ \/ x.pc \in {"parent", "lockparent", "checkparent"}
         \/ x.pc = "newroot" /\ node[r.n].parent = Null /\ node' = node
         \/ x.pc = "insertparent" /\ x.parent = node[r.n].parent /\ node' = node
  <2>1. CASE ReadParent(w)
    BY <1>1, <1>2, <2>1 DEF ReadParent, Fields, N, tree
  <2>2. CASE LockParent(w)
    BY <1>1, <1>2, <2>2 DEF LockParent, Goto, Fields
  <2>3. CASE CheckParent(w)
    BY <1>1, <1>2, <2>3 DEF CheckParent, Goto, Fields, N
  <2> QED
    BY <2>1, <2>2, <2>3
<1>4. SameTree /\ \A m \in DOMAIN node : node'[m].torn = node[m].torn
  <2>1. CASE node' = node
    BY <2>1 DEF SameTree
  <2>2. CASE \E b : node' = [node EXCEPT ![p].locked = b] /\ p \in DOMAIN node
    <3>1. PICK b : node' = [node EXCEPT ![p] = [node[p] EXCEPT !.locked = b]] /\ p \in DOMAIN node
      BY <2>2
    <3> HIDE DEF p
    <3> QED
      BY <1>1, <3>1, SameShape
  <2>3. \/ node' = node
        \/ \E b : node' = [node EXCEPT ![p].locked = b] /\ p \in DOMAIN node
    BY <1>2 DEF ReadParent, LockParent, CheckParent, tree
  <2> QED
    BY <2>1, <2>2, <2>3
<1>5. Pending(w) /\ Pending(w)'
  BY <1>1, <1>2, <1>3 DEF Pending
<1>6. node'[r.n].torn # {}
  BY <1>2, <1>4, <1>5 DEF Order, Halves
<1>7. Bound(w, lo, top)'
  BY <1>1, <1>2, <1>3 DEF Bound, Reading
<1>8. lo[root'] = 0 /\ r.pc # "link" /\ x.pc \notin {"link", "moved", "next"}
  BY <1>1, <1>3
<1> QED
  BY <1>3, <1>4, <1>5, <1>6, <1>7, <1>8, QuietOrder

\* root is moved to a node without bounds.
LEMMA SetRootOrder ==
  ASSUME IInv, VInv, NEW w \in Workers, WorkerStep(w), Steady,
         NEW lo, NEW hi, NEW top, Order(lo, hi, top), SetRoot(w)
  PROVE  Order(lo, hi, top)'
<1> DEFINE r == th[w]
           x == th'[w]
<1>1. /\ r.pc = "setroot" /\ root' = r.parent /\ node' = node /\ call' = call
      /\ DOMAIN th = Workers /\ Bound(w, lo, top)
  BY DEF SetRoot, Silent, Order, IInv, Threads
<1>2. /\ DOMAIN r = Fields /\ call[w].op = "done" /\ r.n # r.sib /\ r.n \in DOMAIN node
      /\ r.sib \in DOMAIN node /\ r.parent \in DOMAIN node /\ r.parent \notin {r.n, r.sib}
  BY <1>1, SplitFacts DEF Splitting, IInv, Placed, Splits
<1>3. x.pc = "bump" /\ x.sib = r.sib /\ x.held = <<r.parent, r.n, r.sib>>
  BY <1>1, <1>2 DEF SetRoot, Fields
<1>4. ~Pending(w) /\ ~Pending(w)'
  <2>1. Range(<<r.parent, r.n, r.sib>>) = {r.parent, r.n, r.sib}
    <3> HIDE DEF r
    <3> QED
      BY <1>2, TripleFacts
  <2> QED
    BY <1>1, <1>3, <2>1 DEF Pending, Releasing
<1>5. lo[root'] = 0 /\ Bound(w, lo, top)'
  BY <1>1, <1>2, <1>3 DEF Bound, Reading
<1>6. SameTree
  BY <1>1 DEF SameTree
<1> QED
  BY <1>1, <1>3, <1>4, <1>5, <1>6, QuietOrder

\* Versions are moved, of no half that has still to be put in a parent.
LEMMA BumpOrder ==
  ASSUME IInv, VInv, NEW w \in Workers, WorkerStep(w), Steady,
         NEW lo, NEW hi, NEW top, Order(lo, hi, top), Bump(w)
  PROVE  Order(lo, hi, top)'
<1> DEFINE r == th[w]
           x == th'[w]
           h == r.held
<1>1. /\ r.pc = "bump" /\ root' = root /\ call' = call /\ lo[root] = 0
      /\ node' = [m \in DOMAIN node |-> IF m \in Range(h)
                    THEN [node[m] EXCEPT !.ver = @ + 1, !.torn = {}] ELSE node[m]]
      /\ DOMAIN th = Workers /\ DOMAIN r = Fields /\ TreeFine
  BY DEF Bump, Silent, Order, IInv, Threads
<1>2. /\ h \in Seq(DOMAIN node) /\ Len(h) > 0
      /\ r.sib = Null \/ r.sib = h[Len(h)] \/ (r.n \notin Range(h) /\ r.sib \notin Range(h))
      /\ call[w].op = "done"
  BY <1>1 DEF IInv, Placed, Releases, Knows, Releasing
<1>3. x.pc = "unlock" /\ x.n = r.n /\ x.sib = r.sib /\ x.split = r.split /\ x.held = h
  BY <1>1 DEF Bump, Goto, Fields
<1>4. /\ SameTree
      /\ \A m \in DOMAIN node : m \notin Range(h) => node'[m].torn = node[m].torn
  <2>1. \A m \in DOMAIN node : DOMAIN node[m] = {"leaf", "keys", "vals", "kids", "next",
                                                   "parent", "ver", "locked", "torn"}
    BY <1>1, NodeDomain
  <2> QED
    BY <1>1, <2>1 DEF SameTree
<1>5. Pending(w)' <=> Pending(w)
  BY <1>1, <1>3 DEF Pending, Releasing
<1>6. Pending(w) => node'[r.n].torn # {}
  <2> SUFFICES ASSUME Pending(w) PROVE node'[r.n].torn # {}
    OBVIOUS
  <2>1. r.sib \notin Range(h) /\ r.sib # Null
    BY <1>1 DEF Pending
  <2>2. h[Len(h)] \in Range(h)
    <3>1. Range(h) = {h[i] : i \in 1..Len(h)} /\ Len(h) \in 1..Len(h)
      BY <1>2, RangeFacts
    <3> QED
      BY <3>1
  <2>3. r.n \notin Range(h)
    BY <1>2, <2>1, <2>2
  <2>4. r.n \in DOMAIN node /\ node[r.n].torn # {}
    BY PendingFacts DEF Order, Halves
  <2> QED
    BY <1>4, <2>3, <2>4
<1>7. Bound(w, lo, top)'
  BY <1>1, <1>2, <1>3 DEF Bound, Reading
<1>8. \A m \in DOMAIN node \ Holds(w) : node'[m].torn = node[m].torn
  BY <1>1, <1>4 DEF Holds
<1> QED
  BY <1>1, <1>3, <1>4, <1>5, <1>6, <1>7, <1>8, QuietOrder

\* A lock is released.
LEMMA UnlockOrder ==
  ASSUME IInv, VInv, NEW w \in Workers, WorkerStep(w), Steady,
         NEW lo, NEW hi, NEW top, Order(lo, hi, top), Unlock(w)
  PROVE  Order(lo, hi, top)'
<1> DEFINE r == th[w]
           x == th'[w]
           h == r.held
           n == Head(h)
<1>1. /\ r.pc = "unlock" /\ root' = root /\ lo[root] = 0
      /\ node' = [node EXCEPT ![n].locked = FALSE]
      /\ DOMAIN th = Workers /\ DOMAIN r = Fields /\ TreeFine
  BY DEF Unlock, Order, IInv, Threads
<1>2. /\ h \in Seq(DOMAIN node) /\ Len(h) > 0 /\ Distinct(h)
      /\ r.sib = Null \/ r.sib = h[Len(h)] \/ (r.n \notin Range(h) /\ r.sib \notin Range(h))
      /\ call[w].op = "done"
  BY <1>1 DEF IInv, Placed, Releases, Knows, Releasing
<1>3. n \in DOMAIN node /\ n \in Range(h) /\ h[Len(h)] \in Range(h)
  <2>1. Range(h) = {h[i] : i \in 1..Len(h)} /\ 1 \in 1..Len(h) /\ Len(h) \in 1..Len(h)
    BY <1>2, RangeFacts
  <2> QED
    BY <1>2, <2>1
<1>4. SameTree /\ \A m \in DOMAIN node : node'[m].torn = node[m].torn
  <2>1. node' = [node EXCEPT ![n] = [node[n] EXCEPT !.locked = FALSE]]
    BY <1>1
  <2> HIDE DEF n
  <2> QED
    BY <1>1, <1>3, <2>1, SameShape
<1>5. \/ /\ x.pc = "unlock" /\ x.n = r.n /\ x.sib = r.sib /\ x.split = r.split
         /\ Len(h) > 1 /\ x.held = Tail(h) /\ call' = call
      \/ /\ x.pc = "parent" /\ x.n = r.n /\ x.sib = r.sib /\ x.split = r.split
         /\ r.sib \notin {Null, n} /\ Len(h) = 1 /\ call' = call
      \/ x.pc = "idle" /\ x.sib = Null /\ r.sib \in {Null, n}
  <2>1. CASE Len(h) > 1
    <3>1. th' = [th EXCEPT ![w].held = Tail(h)] /\ call' = call
      BY <1>1, <2>1 DEF Unlock, Silent
    <3> HIDE DEF h
    <3> QED
      BY <1>1, <2>1, <3>1 DEF Fields
  <2>2. CASE Len(h) <= 1 /\ r.sib \notin {Null, n}
    BY <1>1, <1>2, <2>2 DEF Unlock, Fields, Silent
  <2>3. CASE Len(h) <= 1 /\ r.sib \in {Null, n}
    BY <1>1, <1>2, <2>3 DEF Unlock, Return, Idle
  <2> QED
    BY <1>2, <2>1, <2>2, <2>3
<1>6. /\ Pending(w)' <=> Pending(w)
      /\ Pending(w) => x.n = r.n /\ x.sib = r.sib /\ x.split = r.split
  <2>1. Pending(w) <=> r.sib # Null /\ r.sib \notin Range(h)
    BY <1>1 DEF Pending, Releasing
  <2>2. CASE x.pc = "unlock" /\ x.n = r.n /\ x.sib = r.sib /\ x.split = r.split
             /\ Len(h) > 1 /\ x.held = Tail(h)
    <3>1. /\ Range(Tail(h)) = Range(h) \ {n} /\ Tail(h)[Len(Tail(h))] = h[Len(h)]
          /\ Tail(h) \in Seq(DOMAIN node) /\ Len(Tail(h)) > 0
      BY <1>2, <2>2, TailFacts
    <3>2. h[Len(h)] \in Range(Tail(h))
      <4>1. Range(Tail(h)) = {Tail(h)[i] : i \in 1..Len(Tail(h))}
        BY <3>1, RangeFacts
      <4>2. Len(Tail(h)) \in 1..Len(Tail(h))
        BY <3>1
      <4> QED
        BY <3>1, <4>1, <4>2
    <3>3. Pending(w)' <=> r.sib # Null /\ r.sib \notin Range(Tail(h))
      BY <2>2 DEF Pending, Releasing
    <3>4. r.sib # Null => (r.sib \in Range(h) <=> r.sib \in Range(Tail(h)))
      <4> HIDE DEF n, h
      <4> QED
        BY <1>2, <3>1, <3>2
    <3> QED
      BY <2>1, <2>2, <3>3, <3>4
  <2>3. CASE /\ x.pc = "parent" /\ x.n = r.n /\ x.sib = r.sib /\ x.split = r.split
             /\ r.sib \notin {Null, n} /\ Len(h) = 1
    <3>1. h[Len(h)] = n
      BY <1>2, <2>3
    <3>2. Pending(w)
      BY <1>2, <2>1, <2>3, <3>1
    <3> QED
      BY <2>3, <3>2 DEF Pending
  <2>4. CASE x.pc = "idle" /\ x.sib = Null /\ r.sib \in {Null, n}
    BY <1>3, <2>1, <2>4 DEF Pending
  <2> QED
    BY <1>5, <2>2, <2>3, <2>4
<1>7. Pending(w) => node'[r.n].torn # {}
  BY <1>4, PendingFacts DEF Order, Halves
<1>8. Bound(w, lo, top)'
  <2>1. x.pc = "idle" \/ (x.pc \in {"unlock", "parent"} /\ call'[w].op # "put")
    BY <1>2, <1>5
  <2> QED
    BY <2>1 DEF Bound, Reading
<1>9. lo[root'] = 0 /\ r.pc # "link" /\ x.pc \notin {"link", "moved", "next"}
  BY <1>1, <1>5
<1> QED
  BY <1>4, <1>6, <1>7, <1>8, <1>9, QuietOrder

\* The keys of a leaf, from l on and below t.
LeafFit(keys, l, t) ==
  /\ Ascending(keys) /\ \A i \in 1..Len(keys) : l <= keys[i] /\ Below(keys[i], t)
  /\ l # 0 => Len(keys) > 0 /\ keys[1] = l

\* A key that is not in the leaf has no slot in it.
LEMMA SlotMissing ==
  ASSUME NEW n, node[n].keys \in Seq(Keys), Ascending(node[n].keys), NEW k \in Nat,
         SlotOf(n, k) = 0
  PROVE  \A j \in 1..Len(node[n].keys) : node[n].keys[j] # k
<1> DEFINE s == node[n].keys
           f == FirstAtLeast(s, k)
<1>1. ~(f + 1 <= Len(s) /\ s[f + 1] = k) \/ f + 1 = 0
  BY DEF SlotOf
<1> HIDE DEF s
<1>2. s \in Seq(Keys) /\ Ascending(s)
  BY DEF s
<1>3. f \in 0..Len(s) /\ \A i \in 1..Len(s) : s[i] < k <=> i <= f
  BY <1>2, Ranks
<1> HIDE DEF f
<1>4. \A i \in 1..Len(s) : s[i] \in Nat
  <2>1. \A i \in 1..Len(s) : s[i] \in Keys
    BY <1>2
  <2> QED
    BY <2>1, ConstantFacts
<1> SUFFICES ASSUME NEW j \in 1..Len(s), s[j] = k PROVE FALSE
  BY DEF s
<1>5. f < j
  BY <1>2, <1>3, <1>4
<1>6. f + 1 \in 1..Len(s) /\ ~(f + 1 <= f) /\ (f + 1 = j \/ f + 1 < j)
  BY <1>2, <1>3, <1>5
<1>7. ~(s[f + 1] < k) /\ s[f + 1] <= s[j]
  BY <1>2, <1>3, <1>4, <1>6 DEF Ascending
<1>8. s[f + 1] = k
  BY <1>4, <1>6, <1>7
<1> QED
  BY <1>1, <1>3, <1>6, <1>8

\* A key is inserted where it belongs.
LEMMA InsertFit ==
  ASSUME NEW s, NEW k, NEW l, NEW t
  PROVE  LET i == FirstAtLeast(s, k) + 1
             K == InsertAt(s, i, k)
         IN  /\ s \in Seq(Keys) /\ k \in Keys /\ l \in Nat /\ t \in Nat /\ LeafFit(s, l, t)
             /\ (\A j \in 1..Len(s) : s[j] # k) /\ l <= k /\ Below(k, t)
             => /\ K \in Seq(Keys) /\ Len(K) = Len(s) + 1 /\ LeafFit(K, l, t)
<1> DEFINE i == FirstAtLeast(s, k) + 1
           K == InsertAt(s, i, k)
<1> HIDE DEF i, K
<1>1. SUFFICES ASSUME s \in Seq(Keys), k \in Keys, l \in Nat, t \in Nat, LeafFit(s, l, t),
                      \A j \in 1..Len(s) : s[j] # k, l <= k, Below(k, t)
               PROVE  K \in Seq(Keys) /\ Len(K) = Len(s) + 1 /\ LeafFit(K, l, t)
  BY DEF i, K
<1> DEFINE len == Len(s)
<1>2. len \in Nat /\ k \in Nat /\ \A j \in 1..len : s[j] \in Nat
  <2>1. len \in Nat /\ \A j \in 1..len : s[j] \in Keys
    BY <1>1
  <2> QED
    BY <1>1, <2>1, ConstantFacts
<1>3. i \in 1..len + 1 /\ \A j \in 1..len : s[j] < k <=> j < i
  <2>1. Ascending(s)
    BY <1>1 DEF LeafFit
  <2>2. FirstAtLeast(s, k) \in 0..len /\ \A j \in 1..len : s[j] < k <=> j <= FirstAtLeast(s, k)
    BY <1>1, <1>2, <2>1, Ranks
  <2> QED
    BY <1>2, <2>2 DEF i
<1>4. /\ K \in Seq(Keys) /\ Len(K) = len + 1
      /\ \A j \in 1..len + 1 : K[j] = IF j < i THEN s[j] ELSE IF j = i THEN k ELSE s[j - 1]
  BY <1>1, <1>3, InsertElements DEF K
<1>5. /\ \A j, m \in 1..len : j < m => s[j] < s[m]
      /\ \A j \in 1..len : l <= s[j] /\ Below(s[j], t)
      /\ l # 0 => len > 0 /\ s[1] = l
  BY <1>1 DEF LeafFit, Ascending
<1>6. \A j \in 1..len : s[j] # k
  BY <1>1
<1> HIDE DEF len
<1>7. \A j \in 1..len + 1 : j < i => j \in 1..len /\ K[j] = s[j] /\ s[j] < k
  BY <1>2, <1>3, <1>4
<1>8. K[i] = k
  BY <1>3, <1>4
<1>9. \A j \in 1..len + 1 : j > i => j - 1 \in 1..len /\ K[j] = s[j - 1] /\ k < s[j - 1]
  <2> SUFFICES ASSUME NEW j \in 1..len + 1, j > i
               PROVE  j - 1 \in 1..len /\ K[j] = s[j - 1] /\ k < s[j - 1]
    OBVIOUS
  <2>1. j - 1 \in 1..len /\ ~(j < i) /\ j # i /\ ~(j - 1 < i)
    BY <1>2, <1>3
  <2>2. ~(s[j - 1] < k) /\ s[j - 1] \in Nat /\ s[j - 1] # k
    BY <1>2, <1>3, <1>6, <2>1
  <2> QED
    BY <1>2, <1>4, <2>1, <2>2
<1>10. \A j \in 1..len + 1 : l <= K[j] /\ Below(K[j], t)
  <2>1. \A j \in 1..len + 1 : j < i \/ j = i \/ j > i
    BY <1>2, <1>3
  <2> QED
    BY <1>1, <1>5, <1>7, <1>8, <1>9, <2>1
<1>11. ASSUME NEW j \in 1..len + 1, NEW m \in 1..len + 1, j < m PROVE K[j] < K[m]
  <2>1. CASE j < i /\ m < i
    BY <1>5, <1>7, <1>11, <2>1
  <2>2. CASE j < i /\ m = i
    BY <1>7, <1>8, <2>2
  <2>3. CASE j < i /\ m > i
    <3>1. s[j] \in Nat /\ s[m - 1] \in Nat /\ s[j] < k /\ k < s[m - 1]
      BY <1>2, <1>7, <1>9, <2>3
    <3> QED
      BY <1>2, <1>7, <1>9, <2>3, <3>1
  <2>4. CASE j = i /\ m > i
    BY <1>8, <1>9, <2>4
  <2>5. CASE j > i /\ m > i
    <3>1. j - 1 < m - 1
      BY <1>11
    <3> QED
      BY <1>5, <1>9, <2>5, <3>1
  <2>6. (j < i \/ j = i \/ j > i) /\ (m < i \/ m = i \/ m > i)
        /\ ~(j = i /\ m < i) /\ ~(j = i /\ m = i) /\ ~(j > i /\ m < i) /\ ~(j > i /\ m = i)
    BY <1>2, <1>3, <1>11
  <2> QED
    BY <2>1, <2>2, <2>3, <2>4, <2>5, <2>6
<1>12. l # 0 => K[1] = l
  <2> SUFFICES ASSUME l # 0 PROVE K[1] = l
    OBVIOUS
  <2>1. 1 \in 1..len /\ s[1] = l /\ l # k
    BY <1>2, <1>5, <1>6
  <2>2. s[1] < k
    BY <1>1, <1>2, <2>1
  <2>3. 1 < i /\ 1 \in 1..len + 1
    BY <1>2, <1>3, <2>1, <2>2
  <2> QED
    BY <1>7, <2>1, <2>3
<1> QED
  BY <1>2, <1>4, <1>10, <1>11, <1>12 DEF LeafFit, Ascending, len

\* A leaf is cut in two.
LEMMA CutFit ==
  ASSUME NEW K, NEW l, NEW t, NEW c
  PROVE  LET L == SubSeq(K, 1, c)
             R == SubSeq(K, c + 1, Len(K))
         IN  /\ K \in Seq(Keys) /\ l \in Nat /\ t \in Nat /\ LeafFit(K, l, t)
             /\ c \in 1..Len(K) - 1
             => /\ L \in Seq(Keys) /\ R \in Seq(Keys) /\ K[c + 1] \in Keys
                /\ LeafFit(L, l, K[c + 1]) /\ LeafFit(R, K[c + 1], t)
                /\ l < K[c + 1] /\ Below(K[c + 1], t)
<1> DEFINE L == SubSeq(K, 1, c)
           R == SubSeq(K, c + 1, Len(K))
<1> HIDE DEF L, R
<1>1. SUFFICES ASSUME K \in Seq(Keys), l \in Nat, t \in Nat, LeafFit(K, l, t),
                      c \in 1..Len(K) - 1
               PROVE  /\ L \in Seq(Keys) /\ R \in Seq(Keys) /\ K[c + 1] \in Keys
                      /\ LeafFit(L, l, K[c + 1]) /\ LeafFit(R, K[c + 1], t)
                      /\ l < K[c + 1] /\ Below(K[c + 1], t)
  BY DEF L, R
<1> DEFINE len == Len(K)
           q == len - c
<1>2. len \in Nat /\ \A j \in 1..len : K[j] \in Keys /\ K[j] \in Nat /\ K[j] # 0
  <2>1. len \in Nat /\ \A j \in 1..len : K[j] \in Keys
    BY <1>1
  <2> QED
    BY <2>1, ConstantFacts
<1>3. c \in Nat /\ c > 0 /\ q \in Nat /\ q > 0 /\ len = c + q /\ c + 1 \in 1..len /\ 1 \in 1..len
  BY <1>1, <1>2
<1>4. /\ \A j, m \in 1..len : j < m => K[j] < K[m]
      /\ \A j \in 1..len : l <= K[j] /\ Below(K[j], t)
      /\ l # 0 => K[1] = l
  BY <1>1 DEF LeafFit, Ascending
<1>5. L \in Seq(Keys) /\ Len(L) = c /\ \A j \in 1..c : L[j] = K[j]
  <2>1. /\ 1 \in Nat \ {0} /\ c \in 0..Len(K) /\ 1 <= c + 1 /\ c - 1 + 1 = c
        /\ \A j \in 1..c : 1 + j - 1 = j
    BY <1>3
  <2> QED
    BY <1>1, <2>1, PartElements DEF L
<1>6. R \in Seq(Keys) /\ Len(R) = q /\ \A j \in 1..q : R[j] = K[c + j]
  <2>1. /\ c + 1 \in Nat \ {0} /\ Len(K) \in 0..Len(K) /\ c + 1 <= Len(K) + 1
        /\ Len(K) - (c + 1) + 1 = q /\ \A j \in 1..q : c + 1 + j - 1 = c + j
    BY <1>2, <1>3
  <2> QED
    BY <1>1, <2>1, PartElements DEF R
<1> HIDE DEF len, q
<1> DEFINE s == K[c + 1]
<1>7. s \in Keys /\ s \in Nat /\ s # 0 /\ Below(s, t)
  BY <1>2, <1>3, <1>4
<1>8. l < s
  <2>1. 1 < c + 1 /\ l <= K[1] /\ K[1] \in Nat
    BY <1>2, <1>3, <1>4
  <2>2. K[1] < s
    BY <1>3, <1>4, <2>1
  <2> QED
    BY <1>1, <1>7, <2>1, <2>2
<1>9. LeafFit(L, l, s)
  <2>1. \A j \in 1..c : j \in 1..len /\ j < c + 1
    BY <1>3
  <2>2. \A j \in 1..c : L[j] < s /\ l <= L[j]
    BY <1>3, <1>4, <1>5, <2>1
  <2>3. \A j, m \in 1..c : j < m => L[j] < L[m]
    BY <1>4, <1>5, <2>1
  <2>4. l # 0 => L[1] = l
    BY <1>3, <1>4, <1>5
  <2> QED
    BY <1>3, <1>5, <2>2, <2>3, <2>4 DEF LeafFit, Ascending, Below
<1>10. LeafFit(R, s, t)
  <2>1. /\ \A j \in 1..q :
             c + j \in 1..len /\ (j = 1 => c + j = c + 1) /\ (j # 1 => c + 1 < c + j)
        /\ \A j, m \in 1..q : j < m => c + j < c + m
    BY <1>3
  <2>2. \A j \in 1..q : s <= R[j] /\ Below(R[j], t)
    <3> SUFFICES ASSUME NEW j \in 1..q PROVE s <= R[j] /\ Below(R[j], t)
      OBVIOUS
    <3>1. R[j] = K[c + j] /\ K[c + j] \in Nat /\ Below(K[c + j], t)
      BY <1>2, <1>4, <1>6, <2>1
    <3>2. s <= K[c + j]
      BY <1>3, <1>4, <1>7, <2>1, <3>1
    <3> QED
      BY <3>1, <3>2
  <2>3. \A j, m \in 1..q : j < m => R[j] < R[m]
    BY <1>4, <1>6, <2>1
  <2>4. R[1] = s /\ q > 0
    BY <1>3, <1>6
  <2> QED
    BY <1>6, <2>2, <2>3, <2>4 DEF LeafFit, Ascending
<1> QED
  BY <1>5, <1>6, <1>7, <1>8, <1>9, <1>10

\* A leaf that is locked and not yet rewritten.
LEMMA ApplyWhole ==
  ASSUME IInv, VInv, NEW w \in Workers, th[w].pc = "apply"
  PROVE  LET n == th[w].n
         IN  /\ node[n].torn = {} /\ ~LeftHalf(n) /\ ~RightHalf(n) /\ ~Unlisted(n)
             /\ \A v \in Workers : Pending(v) => n \notin {th[v].n, th[v].sib}
<1> DEFINE n == th[w].n
<1>1. n \in Holds(w) /\ TornBy(w) = {} /\ ~Pending(w) /\ n \in DOMAIN node
  BY ApplyFacts DEF Holds, TornBy, Pending
<1>2. \A v \in Workers \ {w} : n \notin Holds(v) /\ TornBy(v) \subseteq Holds(v)
  <2>1. \A v \in Workers : TornBy(v) \subseteq Holds(v)
    BY DEF TornBy, Holds
  <2> QED
    BY <1>1, <2>1 DEF IInv, LocksOwned
<1>3. node[n].torn = {}
  BY <1>1, <1>2 DEF VInv, Whole
<1>4. \A v \in Workers : Pending(v) => n \notin {th[v].n, th[v].sib}
  <2> SUFFICES ASSUME NEW v \in Workers, Pending(v) PROVE n \notin {th[v].n, th[v].sib}
    OBVIOUS
  <2>1. v # w /\ th[v].n \in Holds(v) /\ th[v].sib \in Holds(v)
    BY <1>1, PendingFacts
  <2> QED
    BY <1>2, <2>1
<1> QED
  BY <1>3, <1>4 DEF LeftHalf, RightHalf, Unlisted

\* What an insert knows of its leaf.
LEMMA LeafKnown ==
  ASSUME IInv, VInv, NEW w \in Workers, th[w].pc = "apply", call[w].op = "put",
         NEW lo, NEW hi, NEW top, Order(lo, hi, top)
  PROVE  LET n == th[w].n
         IN  /\ node[n].keys \in Seq(Keys) /\ LeafFit(node[n].keys, lo[n], top[n])
             /\ Key(w) \in Keys /\ Key(w) \in Nat /\ lo[n] <= Key(w) /\ Below(Key(w), top[n])
             /\ lo[n] \in Nat /\ hi[n] \in Nat /\ top[n] \in Nat /\ top[n] = hi[n]
             /\ node[n].parent # Null => n \in Range(node[node[n].parent].kids)
             /\ node[n].parent = Null => lo[n] = 0 /\ hi[n] = 0
             /\ Follows(hi[n], node[n].next, lo) /\ node[n].kids = <<>>
             /\ node[n].parent \in (DOMAIN node \ Leaves) \cup {Null}
             /\ node[n].next \in Leaves \cup {Null}
<1> DEFINE n == th[w].n
<1>1. n \in Leaves /\ n \in DOMAIN node /\ node[n].leaf /\ TreeFine /\ Key(w) \in Keys
  BY ApplyFacts DEF Leaves
<1>2. NodeOrdered(n, lo, hi, top) /\ Bound(w, lo, top)
      /\ lo \in Bounds /\ hi \in Bounds /\ top \in Bounds
  BY <1>1 DEF Order
<1>3. ~LeftHalf(n) /\ ~RightHalf(n) /\ ~Unlisted(n)
  BY ApplyWhole
<1>4. NodeFine(node[n], DOMAIN node, Leaves) /\ node[n] \in Nodes
  BY <1>1, NodeFacts
<1> HIDE DEF n
<1>5. LeafFit(node[n].keys, lo[n], top[n])
  BY <1>1, <1>2 DEF NodeOrdered, KeysFit, LeafFit, Ascending
<1>6. Key(w) \in Nat /\ lo[n] <= Key(w) /\ Below(Key(w), top[n])
  BY <1>1, <1>2, ConstantFacts DEF Bound, n
<1>7. lo[n] \in Nat /\ hi[n] \in Nat /\ top[n] \in Nat
  BY <1>1, <1>2 DEF Bounds
<1> QED
  BY <1>1, <1>2, <1>3, <1>4, <1>5, <1>6, <1>7 DEF NodeOrdered, NodeFine, Nodes, n

\* A leaf below a parent does not belong to the children of another leaf.
LEMMA NoLeafAbove ==
  ASSUME TreeFine, NEW m \in DOMAIN node
  PROVE  node[m].parent \notin Leaves
<1>1. NodeFine(node[m], DOMAIN node, Leaves)
  BY NodeFacts
<1>2. Null \notin Leaves
  BY NodeSeq DEF Leaves, Null
<1> QED
  BY <1>1, <1>2 DEF NodeFine

\* insert_leaf into a leaf that is not full (xindex_buffer_impl.h:236-250).
LEMMA InsertOrder ==
  ASSUME IInv, VInv, NEW w \in Workers, WorkerStep(w), Steady,
         NEW lo, NEW hi, NEW top, Order(lo, hi, top), Insert(w)
  PROVE  Order(lo, hi, top)'
<1>0. PICK n : n = th[w].n
  OBVIOUS
<1> DEFINE S == {n}
           i == FirstAtLeast(node[n].keys, Key(w)) + 1
           ks == InsertAt(node[n].keys, i, Key(w))
           x == [node[n] EXCEPT !.keys = ks, !.vals = InsertAt(@, i, call[w].val),
                                !.torn = {Null}]
<1>1. /\ th[w].pc = "apply" /\ root' = root /\ call[w].op = "put" /\ SlotOf(n, Key(w)) = 0
      /\ lo[root] = 0 /\ TreeFine /\ DOMAIN th = Workers /\ DOMAIN call = Workers
  BY <1>0 DEF Insert, TakeEffect, Order, IInv, Threads
<1>2. /\ DOMAIN th[w] = Fields /\ n \in Leaves /\ n \in DOMAIN node /\ node[n].leaf
      /\ th[w].sib = Null /\ Holds(w) = {n}
  BY <1>0, <1>1, ApplyFacts DEF Leaves
<1>3. /\ node[n].torn = {} /\ ~LeftHalf(n) /\ ~RightHalf(n) /\ ~Unlisted(n)
      /\ \A v \in Workers : Pending(v) => n \notin {th[v].n, th[v].sib}
  BY <1>0, <1>1, ApplyWhole
<1>4. /\ node[n].keys \in Seq(Keys) /\ LeafFit(node[n].keys, lo[n], top[n])
      /\ Key(w) \in Keys /\ Key(w) \in Nat /\ lo[n] <= Key(w) /\ Below(Key(w), top[n])
      /\ lo[n] \in Nat /\ top[n] \in Nat /\ top[n] = hi[n]
      /\ node[n].parent # Null => n \in Range(node[node[n].parent].kids)
      /\ node[n].parent = Null => lo[n] = 0 /\ hi[n] = 0
      /\ Follows(hi[n], node[n].next, lo) /\ node[n].kids = <<>>
      /\ node[n].parent \in (DOMAIN node \ Leaves) \cup {Null}
  BY <1>0, <1>1, LeafKnown
<1>5. node' = [node EXCEPT ![n] = x]
  BY <1>0 DEF Insert
<1>6. LeafFit(ks, lo[n], top[n])
  <2>1. \A j \in 1..Len(node[n].keys) : node[n].keys[j] # Key(w)
    <3>1. Ascending(node[n].keys)
      BY <1>4 DEF LeafFit
    <3> QED
      BY <1>1, <1>4, <3>1, SlotMissing
  <2> QED
    BY <1>4, <2>1, InsertFit
<1>7. /\ th'[w].pc = "bump" /\ th'[w].sib = Null /\ call'[w].op = "done"
  BY <1>1, <1>2 DEF Insert, TakeEffect, Fields, Map!Done
<1>8. DOMAIN node[n] = {"leaf", "keys", "vals", "kids", "next", "parent", "ver", "locked", "torn"}
  BY <1>1, <1>2, NodeDomain
<1> HIDE DEF ks
<1>9. /\ x.keys = ks /\ x.leaf /\ x.kids = node[n].kids /\ x.next = node[n].next
      /\ x.parent = node[n].parent /\ x.torn = {Null}
  BY <1>2, <1>8
<1> HIDE DEF x
<1>10. /\ DOMAIN node' = DOMAIN node /\ node'[n] = x
       /\ \A m \in DOMAIN node : m # n => node'[m] = node[m]
  BY <1>2, <1>5
<1>11. \A m \in DOMAIN node : node[m].parent # n
  BY <1>1, <1>2, NoLeafAbove
<1>12. Frame(w, S, lo, hi, top, lo, hi, top)
  <2>1. lo \in Bounds' /\ hi \in Bounds' /\ top \in Bounds'
    BY <1>10 DEF Order, Bounds
  <2>2. \A m \in DOMAIN node : m # n => /\ node'[m].keys = node[m].keys
          /\ node'[m].kids = node[m].kids /\ node'[m].next = node[m].next
          /\ node'[m].torn = node[m].torn /\ node'[m].parent = node[m].parent
    BY <1>10
  <2>3. node'[n].parent = node[n].parent
    BY <1>9, <1>10
  <2> QED
    BY <1>2, <1>11, <2>1, <2>2, <2>3 DEF Frame
<1>13. HalvesStay(w, S)
  BY <1>2 DEF HalvesStay, Pending
<1>14. ~Pending(w)' /\ \A v \in Workers \ {w} : Pending(v)' <=> Pending(v)
  BY <1>7 DEF Pending, WorkerStep, Others
<1>15. NodeOrdered(n, lo, hi, top)'
  <2>1. ~LeftHalf(n)' /\ ~RightHalf(n)' /\ ~Unlisted(n)'
    <3>1. \A v \in Workers \ {w} : th'[v] = th[v]
      BY DEF WorkerStep, Others
    <3> QED
      BY <1>3, <1>14, <3>1 DEF LeftHalf, RightHalf, Unlisted
  <2>2. KeysFit(node'[n], lo[n], top[n])
    BY <1>6, <1>9, <1>10 DEF KeysFit, LeafFit, Ascending
  <2>3. node'[n].parent # Null => n \in Range(node'[node'[n].parent].kids)
    <3>1. node[n].parent # Null => node[n].parent \in DOMAIN node /\ node[n].parent # n
      BY <1>2, <1>4
    <3> QED
      BY <1>4, <1>9, <1>10, <3>1
  <2> QED
    BY <1>4, <1>9, <1>10, <2>1, <2>2, <2>3 DEF NodeOrdered
<1>16. Rest(w, S, lo, hi, top)
  <2>1. Bound(w, lo, top)' /\ Apart(w)'
    BY <1>7 DEF Bound, Apart, Reading
  <2>2. \A v \in Workers : th[v].pc = "link" => node'[n].next # th[v].sib
    BY <1>2, <1>9, <1>10 DEF Order, Apart
  <2> QED
    BY <1>1, <1>7, <1>10, <1>14, <1>15, <2>1, <2>2 DEF Rest, Leaves
<1> QED
  BY <1>12, <1>13, <1>16, StepKeepsOrder

\* The cut of a leaf lies within it, and the new sibling comes after all nodes.
LEMMA SplitKnown ==
  ASSUME IInv, VInv, NEW w \in Workers, NEW lo, NEW hi, NEW top, Order(lo, hi, top),
         SplitLeaf(w)
  PROVE  LET n == th[w].n
             slot == FirstAtLeast(node[n].keys, Key(w))
             K == InsertAt(node[n].keys, slot + 1, Key(w))
             cut == LeafCut(slot)
         IN  /\ Len(K) = Capacity + 1 /\ K[cut + 1] \in Keys
             /\ LeafFit(SubSeq(K, 1, cut), lo[n], K[cut + 1])
             /\ LeafFit(SubSeq(K, cut + 1, Capacity + 1), K[cut + 1], top[n])
             /\ lo[n] < K[cut + 1] /\ Below(K[cut + 1], top[n])
<1>0. PICK n : n = th[w].n
  OBVIOUS
<1> DEFINE slot == FirstAtLeast(node[n].keys, Key(w))
           K == InsertAt(node[n].keys, slot + 1, Key(w))
           cut == LeafCut(slot)
<1>1. /\ th[w].pc = "apply" /\ call[w].op = "put" /\ SlotOf(n, Key(w)) = 0
      /\ Len(node[n].keys) = Capacity /\ Capacity \in Nat
  BY <1>0, ConstantFacts DEF SplitLeaf, IsFull
<1>2. /\ node[n].keys \in Seq(Keys) /\ LeafFit(node[n].keys, lo[n], top[n])
      /\ Key(w) \in Keys /\ Key(w) \in Nat /\ lo[n] <= Key(w) /\ Below(Key(w), top[n])
      /\ lo[n] \in Nat /\ top[n] \in Nat
  BY <1>0, <1>1, LeafKnown
<1>3. K \in Seq(Keys) /\ Len(K) = Len(node[n].keys) + 1 /\ LeafFit(K, lo[n], top[n])
  <2>1. \A j \in 1..Len(node[n].keys) : node[n].keys[j] # Key(w)
    <3>1. Ascending(node[n].keys)
      BY <1>2 DEF LeafFit
    <3> QED
      BY <1>1, <1>2, <3>1, SlotMissing
  <2> QED
    BY <1>2, <2>1, InsertFit
<1>4. cut \in 1..Capacity
  <2>1. slot \in 0..Capacity
    BY <1>1, <1>2, RankFacts
  <2> HIDE DEF slot
  <2> QED
    BY <2>1, CutFacts
<1> HIDE DEF K, cut, slot
<1>5. Len(K) = Capacity + 1 /\ cut \in 1..Len(K) - 1
  BY <1>1, <1>3, <1>4
<1>6. /\ K[cut + 1] \in Keys /\ LeafFit(SubSeq(K, 1, cut), lo[n], K[cut + 1])
      /\ LeafFit(SubSeq(K, cut + 1, Len(K)), K[cut + 1], top[n])
      /\ lo[n] < K[cut + 1] /\ Below(K[cut + 1], top[n])
  BY <1>2, <1>3, <1>5, CutFit
<1> QED
  BY <1>0, <1>5, <1>6 DEF K, cut, slot

\* split_n_insert_leaf: the leaf keeps the lower half of its range
\* (xindex_buffer_impl.h:257-299).
LEMMA SplitLeafOrder ==
  ASSUME IInv, VInv, NEW w \in Workers, WorkerStep(w), Steady,
         NEW lo, NEW hi, NEW top, Order(lo, hi, top), SplitLeaf(w)
  PROVE  Ordered'
<1>0. PICK n, s, split : /\ n = th[w].n /\ s = Len(node) + 1
                         /\ split = LET slot == FirstAtLeast(node[n].keys, Key(w))
                                    IN  InsertAt(node[n].keys, slot + 1, Key(w))[LeafCut(slot) + 1]
  OBVIOUS
<1> DEFINE S == {n}
           slot == FirstAtLeast(node[n].keys, Key(w))
           keys == InsertAt(node[n].keys, slot + 1, Key(w))
           vals == InsertAt(node[n].vals, slot + 1, call[w].val)
           cut == LeafCut(slot)
           lk == SubSeq(keys, 1, cut)
           lv == SubSeq(vals, 1, cut)
           rk == SubSeq(keys, cut + 1, Capacity + 1)
           rv == SubSeq(vals, cut + 1, Capacity + 1)
           sib == [Leaf(rk, rv, Null, Null) EXCEPT !.locked = TRUE]
           x == [node[n] EXCEPT !.keys = lk, !.vals = lv, !.torn = {Null}]
           f == [node EXCEPT ![n] = x]
           D == DOMAIN node \cup {s}
<1>1. /\ th[w].pc = "apply" /\ root' = root /\ call[w].op = "put"
      /\ lo[root] = 0 /\ TreeFine /\ DOMAIN th = Workers /\ DOMAIN call = Workers
      /\ root \in DOMAIN node
  BY DEF SplitLeaf, Order, IInv, Threads, TreeFine
<1>2. /\ DOMAIN th[w] = Fields /\ n \in Leaves /\ n \in DOMAIN node /\ node[n].leaf
      /\ th[w].sib = Null /\ Holds(w) = {n} /\ Leaves \subseteq DOMAIN node
  BY <1>0, <1>1, ApplyFacts DEF Leaves
<1>3. /\ ~LeftHalf(n) /\ ~RightHalf(n) /\ ~Unlisted(n)
      /\ \A v \in Workers : Pending(v) => n \notin {th[v].n, th[v].sib}
  BY <1>0, <1>1, ApplyWhole
<1>4. /\ lo[n] \in Nat /\ hi[n] \in Nat /\ top[n] \in Nat /\ top[n] = hi[n]
      /\ node[n].parent # Null => n \in Range(node[node[n].parent].kids)
      /\ node[n].parent = Null => lo[n] = 0 /\ hi[n] = 0
      /\ Follows(hi[n], node[n].next, lo) /\ node[n].kids = <<>>
      /\ node[n].parent \in (DOMAIN node \ Leaves) \cup {Null}
      /\ node[n].next \in Leaves \cup {Null}
  BY <1>0, <1>1, LeafKnown
<1>5. /\ split \in Keys /\ LeafFit(lk, lo[n], split) /\ LeafFit(rk, split, top[n])
      /\ lo[n] < split /\ Below(split, top[n]) /\ split = keys[cut + 1]
  BY <1>0, SplitKnown
<1>6. node' = Append(f, sib)
  BY <1>0 DEF SplitLeaf
<1>7. /\ th'[w].pc = "link" /\ th'[w].sib = s /\ th'[w].n = n /\ th'[w].split = split
      /\ call'[w].op = "done"
  <2>1. th' = [th EXCEPT ![w].pc = "link", ![w].sib = s, ![w].split = keys[cut + 1]]
    BY <1>0 DEF SplitLeaf
  <2>2. call'[w].op = "done"
    BY <1>1 DEF SplitLeaf, Map!Done
  <2> HIDE DEF keys, cut
  <2> QED
    BY <1>0, <1>1, <1>2, <1>5, <2>1, <2>2 DEF Fields
<1>8. DOMAIN node[n] = {"leaf", "keys", "vals", "kids", "next", "parent", "ver", "locked", "torn"}
  BY <1>1, <1>2, NodeDomain
<1> HIDE DEF slot, keys, vals, cut, lk, lv, rk, rv
<1>9. /\ x.keys = lk /\ x.leaf = TRUE /\ x.kids = node[n].kids /\ x.next = node[n].next
      /\ x.parent = node[n].parent /\ x.torn = {Null}
  <2>1. node[n].leaf = TRUE
    BY <1>1, <1>2, NodeFacts DEF Nodes
  <2> QED
    BY <1>8, <2>1
<1>10. sib.keys = rk /\ sib.leaf = TRUE /\ sib.kids = <<>> /\ sib.next = Null /\ sib.parent = Null
  BY DEF Leaf
<1> HIDE DEF x, sib
<1>11. /\ DOMAIN node = 1..Len(node) /\ Len(node) \in Nat /\ s \notin DOMAIN node /\ s # Null
       /\ s \in Nat /\ Null \notin DOMAIN node
  BY <1>0, <1>1, NodeSeq DEF Null
<1>12. f = [m \in 1..Len(node) |-> f[m]] /\ f[n] = x
       /\ \A m \in DOMAIN node : m # n => f[m] = node[m]
  BY <1>2, <1>11
<1> HIDE DEF f
<1>13. /\ DOMAIN node' = D /\ node'[s] = sib /\ node'[n] = x
       /\ \A m \in DOMAIN node : m # n => node'[m] = node[m]
  <2>1. /\ DOMAIN node' = 1..Len(node) + 1 /\ node'[s] = sib
        /\ \A m \in 1..Len(node) : node'[m] = f[m]
    BY <1>0, <1>6, <1>11, <1>12, AppendFacts
  <2>2. DOMAIN node' = D
    BY <1>0, <1>11, <2>1
  <2> QED
    BY <1>2, <1>11, <1>12, <2>1, <2>2
<1>14. PICK lo2, hi2, top2 :
         /\ lo2 = [m \in D |-> IF m = s THEN split ELSE lo[m]]
         /\ hi2 = [m \in D |-> IF m = s THEN hi[n] ELSE hi[m]]
         /\ top2 = [m \in D |-> IF m = s THEN hi[n] ELSE IF m = n THEN split ELSE top[m]]
  OBVIOUS
<1>15. /\ \A m \in DOMAIN node : lo2[m] = lo[m] /\ hi2[m] = hi[m] /\ (m # n => top2[m] = top[m])
       /\ lo2[s] = split /\ hi2[s] = hi[n] /\ top2[s] = hi[n] /\ top2[n] = split
  BY <1>2, <1>11, <1>14
<1>16. lo2 \in Bounds' /\ hi2 \in Bounds' /\ top2 \in Bounds'
  <2>1. lo \in Bounds /\ hi \in Bounds /\ top \in Bounds
    BY DEF Order
  <2>2. split \in Nat /\ \A m \in DOMAIN node : lo[m] \in Nat /\ hi[m] \in Nat /\ top[m] \in Nat
    BY <1>5, <2>1, ConstantFacts DEF Bounds
  <2>3. lo2 \in [D -> Nat] /\ hi2 \in [D -> Nat] /\ top2 \in [D -> Nat]
    BY <1>2, <1>14, <2>2
  <2> QED
    BY <1>13, <2>3 DEF Bounds
<1> HIDE DEF D
<1>17. \A m \in DOMAIN node : node[m].parent # n
  BY <1>1, <1>2, NoLeafAbove
<1>18. Frame(w, S, lo, hi, top, lo2, hi2, top2)
  <2>1. \A m \in DOMAIN node : m # n => /\ node'[m].keys = node[m].keys
          /\ node'[m].kids = node[m].kids /\ node'[m].next = node[m].next
          /\ node'[m].torn = node[m].torn /\ node'[m].parent = node[m].parent
    BY <1>13
  <2>2. node'[n].parent = node[n].parent /\ node'[n].torn # {}
    BY <1>9, <1>13
  <2> QED
    BY <1>2, <1>15, <1>16, <1>17, <2>1, <2>2 DEF Frame
<1>19. HalvesStay(w, S)
  BY <1>2 DEF HalvesStay, Pending
<1>20. Pending(w)' /\ \A v \in Workers \ {w} : th'[v] = th[v] /\ (Pending(v)' <=> Pending(v))
  BY <1>7, <1>11 DEF Pending, WorkerStep, Others
<1>21. NodeOrdered(n, lo2, hi2, top2)'
  <2>1. LeftHalf(n)' /\ ~Unlisted(n)'
    BY <1>2, <1>3, <1>7, <1>11, <1>20 DEF LeftHalf, Unlisted
  <2>2. KeysFit(node'[n], lo2[n], top2[n])
    BY <1>2, <1>5, <1>9, <1>13, <1>15 DEF KeysFit, LeafFit, Ascending
  <2>3. node'[n].parent # Null => n \in Range(node'[node'[n].parent].kids)
    <3>1. node[n].parent # Null => node[n].parent \in DOMAIN node /\ node[n].parent # n
      BY <1>2, <1>4
    <3> QED
      BY <1>4, <1>9, <1>13, <3>1
  <2>4. Follows(hi2[n], node'[n].next, lo2)
    BY <1>2, <1>4, <1>9, <1>13, <1>15 DEF Follows
  <2> QED
    BY <1>2, <1>4, <1>9, <1>13, <1>15, <2>1, <2>2, <2>3, <2>4 DEF NodeOrdered
<1>22. NodeOrdered(s, lo2, hi2, top2)'
  <2>1. RightHalf(s)' /\ Unlisted(s)'
    BY <1>7, <1>20 DEF RightHalf, Unlisted
  <2>2. KeysFit(node'[s], lo2[s], top2[s])
    BY <1>4, <1>5, <1>10, <1>13, <1>15 DEF KeysFit, LeafFit, Ascending
  <2>3. node'[s].leaf /\ node'[s].parent = Null /\ top2[s] = hi2[s] /\ node'[s].kids = <<>>
    BY <1>10, <1>13, <1>15
  <2> QED
    BY <2>1, <2>2, <2>3 DEF NodeOrdered
<1>23. Halves(w, lo2, hi2, top2)'
  <2>1. node'[n].torn # {} /\ node'[s].parent = Null /\ node'[n].leaf = node'[s].leaf
        /\ node'[s].next = Null
    BY <1>9, <1>10, <1>13
  <2> QED
    BY <1>2, <1>4, <1>5, <1>7, <1>15, <2>1 DEF Halves
<1>24. Apart(w)'
  <2>1. \A m \in Leaves' : node'[m].next # s
    <3>1. \A m \in Leaves : node[m].next # s
      BY <1>1, <1>2, <1>11, NextFacts
    <3>2. \A m \in Leaves' : m \in Leaves \cup {s}
      BY <1>13 DEF Leaves, D, WorkerStep, Grows
    <3> QED
      BY <1>2, <1>9, <1>10, <1>11, <1>13, <3>1, <3>2
  <2>2. \A u \in Workers \ {w} : th[u].pc \in {"moved", "next"} => th[u].n # s
    BY <1>2, <1>11 DEF IInv, Placed, Knows, Reading
  <2> QED
    BY <1>7, <1>20, <2>1, <2>2 DEF Apart
<1>25. Rest(w, S, lo2, hi2, top2)
  <2>1. Bound(w, lo2, top2)'
    BY <1>7 DEF Bound, Reading
  <2>2. \A v \in Workers : th[v].pc = "link" =>
          node'[n].next # th[v].sib /\ node'[s].next # th[v].sib
    <3>1. \A v \in Workers : th[v].pc = "link" => th[v].sib # Null
      BY DEF IInv, Placed, Splits, Splitting
    <3> QED
      BY <1>2, <1>9, <1>10, <1>13, <3>1 DEF Order, Apart
  <2>3. lo2[root'] = 0
    BY <1>1, <1>15
  <2> QED
    BY <1>7, <1>11, <1>13, <1>21, <1>22, <1>23, <1>24, <2>1, <2>2, <2>3 DEF Rest, D, Leaves
<1> QED
  BY <1>18, <1>19, <1>25, StepKeepsOrder DEF Ordered

\* The nodes that a worker holds are not halves of another one's split.
LEMMA OwnHalves ==
  ASSUME IInv, NEW w \in Workers, NEW n \in Holds(w), NEW v \in Workers \ {w}
  PROVE  /\ Pending(v) => n \notin {th[v].n, th[v].sib}
         /\ th[v].pc = "link" => n # th[v].sib
<1>1. n \notin Holds(v)
  BY DEF IInv, LocksOwned
<1>2. th[v].pc = "link" => th[v].sib \in Holds(v)
  BY DEF Holds
<1> QED
  BY <1>1, <1>2, PendingFacts

\* The children of a node stay where they are.
KidsStay(n, lo, hi, lo2, hi2) ==
  \A c \in DOMAIN node : node[c].parent = n =>
    lo2[c] = lo[c] /\ hi2[c] = hi[c] /\ node'[c].parent = n

\* The children of such a node are in order.
LEMMA InnerKept ==
  ASSUME TreeFine, NEW lo, NEW hi, NEW top, NEW lo2, NEW hi2, NEW top2,
         NEW n \in DOMAIN node, ~node[n].leaf, NodeOrdered(n, lo, hi, top),
         node'[n].keys = node[n].keys, node'[n].kids = node[n].kids,
         lo2[n] = lo[n], top2[n] = top[n],
         KidsStay(n, lo, hi, lo2, hi2)
  PROVE  /\ Laid(node'[n].keys, node'[n].kids, lo2[n], top2[n], lo2, hi2)
         /\ \A i \in 1..Len(node'[n].keys) + 1 : node'[node'[n].kids[i]].parent = n
<1> DEFINE r == node[n]
<1>1. /\ Laid(r.keys, r.kids, lo[n], top[n], lo, hi)
      /\ \A i \in 1..Len(r.keys) + 1 : node[r.kids[i]].parent = n
  BY DEF NodeOrdered
<1>2. \A i \in 1..Len(r.keys) + 1 : r.kids[i] \in DOMAIN node
  <2>1. r.kids \in Seq(DOMAIN node) /\ Len(r.kids) = Len(r.keys) + 1
    BY NodeFacts DEF NodeFine
  <2> HIDE DEF r
  <2> QED
    BY <2>1
<1> HIDE DEF r
<1>3. \A i \in 1..Len(r.keys) + 1 : /\ lo2[r.kids[i]] = lo[r.kids[i]]
                                    /\ hi2[r.kids[i]] = hi[r.kids[i]]
                                    /\ node'[r.kids[i]].parent = n
  BY <1>1, <1>2 DEF KidsStay
<1>4. Laid(r.keys, r.kids, lo2[n], top2[n], lo2, hi2)
  BY <1>1, <1>3 DEF Laid
<1>5. node'[n].keys = r.keys /\ node'[n].kids = r.kids
  BY DEF r
<1> QED
  BY <1>3, <1>4, <1>5

\* The upper half of a leaf is linked into the list (xindex_buffer_impl.h:300-302).
LEMMA LinkOrder ==
  ASSUME IInv, VInv, NEW w \in Workers, WorkerStep(w), Steady,
         NEW lo, NEW hi, NEW top, Order(lo, hi, top), Link(w)
  PROVE  Order(lo, hi, top)'
<1>0. PICK n, s : n = th[w].n /\ s = th[w].sib
  OBVIOUS
<1> DEFINE S == {n, s}
           x == [node[s] EXCEPT !.next = node[n].next]
           y == [node[n] EXCEPT !.next = s]
<1>1. /\ th[w].pc = "link" /\ th[w].pc \in Splitting /\ root' = root /\ call' = call
      /\ lo[root] = 0 /\ TreeFine /\ DOMAIN th = Workers
  BY DEF Link, Silent, Splitting, Order, IInv, Threads
<1>2. /\ DOMAIN th[w] = Fields /\ n \in Leaves /\ s \in Leaves /\ n # s /\ s # Null
      /\ n \in DOMAIN node /\ s \in DOMAIN node /\ Leaves \subseteq DOMAIN node
      /\ Holds(w) = {n, s} /\ call[w].op = "done"
  BY <1>0, <1>1, SplitFacts DEF IInv, Placed, Splits, Holds, Leaves
<1>3. /\ top[n] = th[w].split /\ lo[s] = th[w].split /\ hi[s] = hi[n]
      /\ lo[n] < th[w].split /\ Below(th[w].split, hi[n])
      /\ node[n].torn # {} /\ node[s].parent = Null /\ node[s].next = Null
      /\ node[n].leaf = node[s].leaf /\ Pending(w)
  <2>1. Pending(w)
    BY <1>0, <1>1, <1>2 DEF Pending
  <2> QED
    BY <1>0, <1>1, <1>2, <2>1 DEF Order, Halves, Leaves
<1>4. \A m \in S : \A v \in Workers \ {w} :
        /\ Pending(v) => m \notin {th[v].n, th[v].sib}
        /\ th[v].pc = "link" => m # th[v].sib
  BY <1>2, OwnHalves
<1>5. NodeOrdered(n, lo, hi, top) /\ NodeOrdered(s, lo, hi, top)
  BY <1>2 DEF Order
<1>6. Follows(hi[n], node[n].next, lo) /\ top[s] = hi[s]
  <2>1. ~Unlisted(n)
    BY <1>0, <1>1, <1>2, <1>4 DEF Unlisted
  <2>2. ~LeftHalf(s)
    BY <1>0, <1>1, <1>2, <1>4 DEF LeftHalf
  <2> QED
    BY <1>2, <1>5, <2>1, <2>2 DEF NodeOrdered, Leaves
<1>7. node' = [[node EXCEPT ![s] = x] EXCEPT ![n] = y]
  BY <1>0, <1>2 DEF Link
<1>8. /\ th'[w].pc = "parent" /\ th'[w].n = n /\ th'[w].sib = s
      /\ th'[w].split = th[w].split
  BY <1>0, <1>1, <1>2 DEF Link, Goto, Fields
<1>9. \A m \in DOMAIN node : DOMAIN node[m] = {"leaf", "keys", "vals", "kids", "next",
                                                 "parent", "ver", "locked", "torn"}
  BY <1>1, NodeDomain
<1>10. /\ x.keys = node[s].keys /\ x.leaf = node[s].leaf /\ x.kids = node[s].kids
       /\ x.next = node[n].next /\ x.parent = node[s].parent /\ x.torn = node[s].torn
       /\ y.keys = node[n].keys /\ y.leaf = node[n].leaf /\ y.kids = node[n].kids
       /\ y.next = s /\ y.parent = node[n].parent /\ y.torn = node[n].torn
  BY <1>2, <1>9
<1> HIDE DEF x, y
<1>11. /\ DOMAIN node' = DOMAIN node /\ node'[n].next = s /\ node'[s].next = node[n].next
       /\ \A m \in DOMAIN node : /\ node'[m].keys = node[m].keys /\ node'[m].leaf = node[m].leaf
                                 /\ node'[m].kids = node[m].kids
                                 /\ node'[m].parent = node[m].parent
                                 /\ node'[m].torn = node[m].torn
       /\ \A m \in DOMAIN node \ S : node'[m].next = node[m].next
  <2>1. /\ DOMAIN node' = DOMAIN node /\ node'[n] = y /\ node'[s] = x
        /\ \A m \in DOMAIN node \ S : node'[m] = node[m]
    BY <1>2, <1>7
  <2> QED
    BY <1>2, <1>10, <2>1
<1>12. \A m \in DOMAIN node : node[m].parent \notin S
  BY <1>1, <1>2, NoLeafAbove
<1>13. Frame(w, S, lo, hi, top, lo, hi, top)
  <2>1. lo \in Bounds' /\ hi \in Bounds' /\ top \in Bounds'
    BY <1>11 DEF Order, Bounds
  <2> QED
    BY <1>2, <1>11, <1>12, <2>1 DEF Frame
<1>14. HalvesStay(w, S)
  BY <1>0 DEF HalvesStay
<1>15. /\ Pending(w)' /\ LeftHalf(n)' /\ RightHalf(s)' /\ Unlisted(n)' /\ ~LeftHalf(s)'
       /\ RightHalf(n)' <=> RightHalf(n)
  <2>1. \A v \in Workers \ {w} : th'[v] = th[v] /\ (Pending(v)' <=> Pending(v))
    BY DEF WorkerStep, Others, Pending
  <2>2. Pending(w)'
    BY <1>2, <1>8 DEF Pending
  <2>3. LeftHalf(n)' /\ RightHalf(s)' /\ Unlisted(n)'
    BY <1>8, <2>2 DEF LeftHalf, RightHalf, Unlisted
  <2>4. ~LeftHalf(s)' /\ ~RightHalf(n)' /\ ~RightHalf(n)
    BY <1>0, <1>2, <1>4, <1>8, <2>1 DEF LeftHalf, RightHalf
  <2> QED
    BY <2>2, <2>3, <2>4
<1>16. NodeOrdered(n, lo, hi, top)'
  <2>1. KeysFit(node'[n], lo[n], top[n])
    BY <1>2, <1>5, <1>11 DEF NodeOrdered, KeysFit
  <2>2. node[n].parent # Null => node[n].parent \in DOMAIN node
    <3>1. NodeFine(node[n], DOMAIN node, Leaves)
      BY <1>1, <1>2, NodeFacts
    <3> QED
      BY <3>1 DEF NodeFine
  <2>3. node'[n].leaf /\ node'[n].parent = node[n].parent /\ node'[n].kids = <<>>
    BY <1>2, <1>5, <1>11 DEF Leaves, NodeOrdered
  <2>4. node'[n].parent # Null => n \in Range(node'[node'[n].parent].kids)
    BY <1>5, <1>11, <2>2, <2>3 DEF NodeOrdered
  <2>5. node'[n].parent = Null /\ ~RightHalf(n)' => lo[n] = 0 /\ hi[n] = 0
    BY <1>5, <1>15, <2>3 DEF NodeOrdered
  <2> QED
    BY <1>15, <2>1, <2>3, <2>4, <2>5 DEF NodeOrdered
<1>17. NodeOrdered(s, lo, hi, top)'
  <2>1. KeysFit(node'[s], lo[s], top[s])
    BY <1>2, <1>5, <1>11 DEF NodeOrdered, KeysFit
  <2>2. node'[s].leaf /\ node'[s].parent = Null /\ node'[s].kids = <<>>
    BY <1>2, <1>3, <1>5, <1>11 DEF Leaves, NodeOrdered
  <2>3. Follows(hi[s], node'[s].next, lo)
    BY <1>3, <1>6, <1>11
  <2> QED
    BY <1>6, <1>15, <2>1, <2>2, <2>3 DEF NodeOrdered
<1>18. Halves(w, lo, hi, top)'
  BY <1>2, <1>3, <1>8, <1>11 DEF Halves, Leaves
<1>19. Rest(w, S, lo, hi, top)
  <2>1. Bound(w, lo, top)' /\ Apart(w)'
    BY <1>1, <1>2, <1>8 DEF Bound, Apart, Reading
  <2>2. \A v \in Workers \ {w} : th[v].pc = "link" =>
          node'[n].next # th[v].sib /\ node'[s].next # th[v].sib
    BY <1>2, <1>4, <1>11 DEF Order, Apart
  <2> QED
    BY <1>1, <1>8, <1>11, <1>16, <1>17, <1>18, <2>1, <2>2 DEF Rest, Leaves
<1> QED
  BY <1>13, <1>14, <1>19, StepKeepsOrder

\* The halves of a split before they have a parent.
LEMMA HalvesKnown ==
  ASSUME IInv, VInv, NEW w \in Workers, th[w].pc \in {"newroot", "insertparent"},
         NEW lo, NEW hi, NEW top, Order(lo, hi, top)
  PROVE  LET n == th[w].n
             s == th[w].sib
         IN  /\ n \in DOMAIN node /\ s \in DOMAIN node /\ n # s /\ s # Null
             /\ n \in Holds(w) /\ s \in Holds(w) /\ th[w].split \in Keys /\ call[w].op = "done"
             /\ Parted(n, s, th[w].split, lo, hi)
             /\ top[n] = th[w].split /\ top[s] = hi[s] /\ node[s].parent = Null
             /\ NodeOrdered(n, lo, hi, top) /\ NodeOrdered(s, lo, hi, top)
             /\ ~RightHalf(n)
             /\ node[n].leaf => node[n].next = s
             /\ node[s].leaf => Follows(hi[s], node[s].next, lo)
<1>0. PICK n, s : n = th[w].n /\ s = th[w].sib
  OBVIOUS
<1>1. /\ n \in DOMAIN node /\ s \in DOMAIN node /\ n # s /\ s # Null
      /\ n \in Holds(w) /\ s \in Holds(w) /\ th[w].split \in Keys /\ call[w].op = "done"
  BY <1>0, SplitFacts DEF Splitting
<1>2. Pending(w)
  BY <1>0, <1>1 DEF Pending
<1>3. /\ top[n] = th[w].split /\ lo[s] = th[w].split /\ hi[s] = hi[n]
      /\ lo[n] < th[w].split /\ Below(th[w].split, hi[n]) /\ node[s].parent = Null
      /\ node[n].leaf => node[n].next = s
  BY <1>0, <1>2 DEF Order, Halves
<1>4. NodeOrdered(n, lo, hi, top) /\ NodeOrdered(s, lo, hi, top)
  BY <1>1 DEF Order
<1>5. \A m \in {n, s} : \A v \in Workers \ {w} : Pending(v) => m \notin {th[v].n, th[v].sib}
  BY <1>1, OwnHalves
<1>6. ~LeftHalf(s) /\ ~Unlisted(s) /\ ~RightHalf(n)
  BY <1>0, <1>1, <1>5 DEF LeftHalf, Unlisted, RightHalf
<1>7. top[s] = hi[s] /\ (node[s].leaf => Follows(hi[s], node[s].next, lo))
  BY <1>4, <1>6 DEF NodeOrdered
<1> QED
  BY <1>0, <1>1, <1>3, <1>4, <1>6, <1>7 DEF Parted

\* A step that puts nodes n and s, parted at split, below a parent.
Hung(n, s, split, lo, hi, top, lo2, hi2, top2) ==
  /\ \A m \in DOMAIN node : lo2[m] = lo[m]
  /\ hi2[n] = split /\ \A m \in DOMAIN node \ {n} : hi2[m] = hi[m]
  /\ \A m \in {n, s} :
       /\ top2[m] = top[m] /\ node'[m].keys = node[m].keys
       /\ node'[m].kids = node[m].kids /\ node'[m].next = node[m].next
       /\ node'[m].parent # Null /\ m \in Range(node'[node'[m].parent].kids)
       /\ \A c \in DOMAIN node : node[c].parent = m => node'[c].parent = m /\ c # n

\* The halves of a split once they have a parent.
LEMMA HalvesOrdered ==
  ASSUME IInv, VInv, NEW w \in Workers, th[w].pc \in {"newroot", "insertparent"},
         WorkerStep(w), NEW lo, NEW hi, NEW top, Order(lo, hi, top),
         NEW lo2, NEW hi2, NEW top2, NEW n, NEW s, n = th[w].n, s = th[w].sib,
         Hung(n, s, th[w].split, lo, hi, top, lo2, hi2, top2)
  PROVE  NodeOrdered(n, lo2, hi2, top2)' /\ NodeOrdered(s, lo2, hi2, top2)'
<1>1. /\ n \in DOMAIN node /\ s \in DOMAIN node /\ n # s /\ th[w].split \in Keys
      /\ lo[s] = th[w].split /\ top[n] = th[w].split /\ top[s] = hi[s]
      /\ NodeOrdered(n, lo, hi, top) /\ NodeOrdered(s, lo, hi, top)
      /\ node[n].leaf => node[n].next = s
      /\ node[s].leaf => Follows(hi[s], node[s].next, lo)
  BY HalvesKnown DEF Parted
<1>2. /\ \A m \in DOMAIN node : lo2[m] = lo[m] /\ node'[m].leaf = node[m].leaf
      /\ hi2[n] = th[w].split /\ \A m \in DOMAIN node \ {n} : hi2[m] = hi[m]
      /\ \A m \in {n, s} :
           /\ top2[m] = top[m] /\ node'[m].keys = node[m].keys
           /\ node'[m].kids = node[m].kids /\ node'[m].next = node[m].next
           /\ node'[m].parent # Null /\ m \in Range(node'[node'[m].parent].kids)
           /\ \A c \in DOMAIN node : node[c].parent = m => node'[c].parent = m /\ c # n
  BY DEF Hung, WorkerStep, Grows
<1>3. TreeFine /\ th[w].split # 0 /\ s # Null
  BY <1>1, NodeSeq, ConstantFacts DEF IInv, Null
<1>4. ASSUME NEW m \in {n, s}
      PROVE  /\ KeysFit(node'[m], lo2[m], top2[m])
             /\ ~node'[m].leaf =>
                  /\ Laid(node'[m].keys, node'[m].kids, lo2[m], top2[m], lo2, hi2)
                  /\ \A i \in 1..Len(node'[m].keys) + 1 : node'[node'[m].kids[i]].parent = m
             /\ node'[m].leaf <=> node[m].leaf
             /\ node'[m].leaf => node'[m].kids = <<>>
  <2>1. m \in DOMAIN node /\ NodeOrdered(m, lo, hi, top) /\ node'[m].leaf = node[m].leaf
    BY <1>1, <1>2
  <2>2. node'[m].keys = node[m].keys /\ node'[m].kids = node[m].kids
        /\ lo2[m] = lo[m] /\ top2[m] = top[m]
    BY <1>2, <2>1
  <2>3. KeysFit(node'[m], lo2[m], top2[m])
    BY <2>1, <2>2 DEF NodeOrdered, KeysFit
  <2>4. KidsStay(m, lo, hi, lo2, hi2)
    BY <1>2 DEF KidsStay
  <2>5. ~node[m].leaf =>
          /\ Laid(node'[m].keys, node'[m].kids, lo2[m], top2[m], lo2, hi2)
          /\ \A i \in 1..Len(node'[m].keys) + 1 : node'[node'[m].kids[i]].parent = m
    BY <1>3, <2>1, <2>2, <2>4, InnerKept
  <2>6. node[m].leaf => node[m].kids = <<>>
    BY <2>1 DEF NodeOrdered
  <2> QED
    BY <2>1, <2>2, <2>3, <2>5, <2>6
<1>5. top2[n] = hi2[n] /\ top2[s] = hi2[s]
  BY <1>1, <1>2
<1>6. node[n].leaf => Follows(hi2[n], node'[n].next, lo2)
  BY <1>1, <1>3, <1>2 DEF Follows
<1>7. node[s].leaf => Follows(hi2[s], node'[s].next, lo2)
  <2>1. node[s].leaf => node[s].next \in DOMAIN node \cup {Null}
    BY <1>1, <1>3, NextFacts DEF Leaves
  <2> QED
    BY <1>1, <1>2, <2>1 DEF Follows
<1>8. NodeOrdered(n, lo2, hi2, top2)'
  BY <1>4, <1>5, <1>6, <1>2 DEF NodeOrdered
<1>9. NodeOrdered(s, lo2, hi2, top2)'
  BY <1>4, <1>5, <1>7, <1>2 DEF NodeOrdered
<1> QED
  BY <1>8, <1>9

\* A root above the two halves (xindex_buffer_impl.h:334-349).
LEMMA NewRootOrder ==
  ASSUME IInv, VInv, NEW w \in Workers, WorkerStep(w), Steady,
         NEW lo, NEW hi, NEW top, Order(lo, hi, top), NewRoot(w)
  PROVE  Ordered'
<1>0. PICK n, s, p : n = th[w].n /\ s = th[w].sib /\ p = Len(node) + 1
  OBVIOUS
<1> DEFINE S == {n, s}
           split == th[w].split
           x == [node[n] EXCEPT !.parent = p]
           y == [node[s] EXCEPT !.parent = p]
           f == [[node EXCEPT ![n] = x] EXCEPT ![s] = y]
           above == [Internal(<<split>>, <<n, s>>, Null) EXCEPT !.locked = TRUE]
           D == DOMAIN node \cup {p}
<1>1. /\ th[w].pc = "newroot" /\ root' = root /\ call' = call /\ lo[root] = 0
      /\ TreeFine /\ DOMAIN th = Workers /\ root \in DOMAIN node
  BY DEF NewRoot, Silent, Order, IInv, Threads, TreeFine
<1>2. /\ n \in DOMAIN node /\ s \in DOMAIN node /\ n # s /\ s # Null /\ DOMAIN th[w] = Fields
      /\ split \in Keys /\ call[w].op = "done" /\ Parted(n, s, split, lo, hi)
      /\ top[n] = split /\ top[s] = hi[s] /\ node[s].parent = Null
      /\ NodeOrdered(n, lo, hi, top) /\ NodeOrdered(s, lo, hi, top) /\ ~RightHalf(n)
  BY <1>0, <1>1, HalvesKnown DEF IInv, Threads
<1>3. node[n].parent = Null /\ lo[n] = 0 /\ hi[n] = 0 /\ hi[s] = 0 /\ lo[s] = split
  <2>1. node[n].parent = Null
    BY <1>0, <1>1 DEF Order, Bound
  <2> QED
    BY <1>2, <2>1 DEF NodeOrdered, Parted
<1>4. node' = Append(f, above)
  BY <1>0, <1>2 DEF NewRoot
<1>5. /\ th'[w].pc = "setroot" /\ th'[w].parent = p
  BY <1>0, <1>1, <1>2 DEF NewRoot, Fields
<1>6. \A m \in DOMAIN node : DOMAIN node[m] = {"leaf", "keys", "vals", "kids", "next",
                                                 "parent", "ver", "locked", "torn"}
  BY <1>1, NodeDomain
<1>7. /\ x.keys = node[n].keys /\ x.leaf = node[n].leaf /\ x.kids = node[n].kids
      /\ x.next = node[n].next /\ x.parent = p /\ x.torn = node[n].torn
      /\ y.keys = node[s].keys /\ y.leaf = node[s].leaf /\ y.kids = node[s].kids
      /\ y.next = node[s].next /\ y.parent = p /\ y.torn = node[s].torn
  BY <1>2, <1>6
<1>8. /\ above.keys = <<split>> /\ above.kids = <<n, s>> /\ above.leaf = FALSE
      /\ above.parent = Null
  BY DEF Internal
<1> HIDE DEF x, y, above
<1>9. /\ DOMAIN node = 1..Len(node) /\ Len(node) \in Nat /\ p \notin DOMAIN node /\ p # Null
      /\ Null \notin DOMAIN node
  BY <1>0, <1>1, NodeSeq DEF Null
<1>10. /\ f = [m \in 1..Len(node) |-> f[m]] /\ f[n] = x /\ f[s] = y
       /\ \A m \in DOMAIN node \ S : f[m] = node[m]
  BY <1>2, <1>9
<1> HIDE DEF f
<1>11. /\ DOMAIN node' = D /\ node'[p] = above /\ node'[n] = x /\ node'[s] = y
       /\ \A m \in DOMAIN node \ S : node'[m] = node[m]
  <2>1. /\ DOMAIN node' = 1..Len(node) + 1 /\ node'[p] = above
        /\ \A m \in 1..Len(node) : node'[m] = f[m]
    BY <1>0, <1>4, <1>9, <1>10, AppendFacts
  <2>2. DOMAIN node' = D
    BY <1>0, <1>9, <2>1
  <2> QED
    BY <1>2, <1>9, <1>10, <2>1, <2>2
<1>12. /\ \A m \in DOMAIN node : /\ node'[m].keys = node[m].keys /\ node'[m].leaf = node[m].leaf
                                 /\ node'[m].kids = node[m].kids /\ node'[m].next = node[m].next
                                 /\ node'[m].torn = node[m].torn
       /\ \A m \in DOMAIN node \ S : node'[m].parent = node[m].parent
       /\ node'[n].parent = p /\ node'[s].parent = p
  BY <1>2, <1>7, <1>11
<1>13. PICK lo2, hi2, top2 :
         /\ lo2 = [m \in D |-> IF m = p THEN 0 ELSE lo[m]]
         /\ hi2 = [m \in D |-> IF m = p THEN 0 ELSE IF m = n THEN split ELSE hi[m]]
         /\ top2 = [m \in D |-> IF m = p THEN 0 ELSE top[m]]
  OBVIOUS
<1>14. /\ \A m \in DOMAIN node : lo2[m] = lo[m] /\ top2[m] = top[m] /\ (m # n => hi2[m] = hi[m])
       /\ lo2[p] = 0 /\ hi2[p] = 0 /\ top2[p] = 0 /\ hi2[n] = split
  BY <1>2, <1>9, <1>13
<1>15. lo2 \in Bounds' /\ hi2 \in Bounds' /\ top2 \in Bounds'
  <2>1. lo \in Bounds /\ hi \in Bounds /\ top \in Bounds
    BY DEF Order
  <2>2. split \in Nat /\ \A m \in DOMAIN node : lo[m] \in Nat /\ hi[m] \in Nat /\ top[m] \in Nat
    BY <1>2, <2>1, ConstantFacts DEF Bounds
  <2>3. lo2 \in [D -> Nat] /\ hi2 \in [D -> Nat] /\ top2 \in [D -> Nat]
    BY <1>2, <1>13, <2>2
  <2> QED
    BY <1>11, <2>3 DEF Bounds
<1>16. /\ Range(<<n, s>>) = {n, s} /\ Holds(w) = {n, s}
       /\ \A m \in DOMAIN node : node[m].parent # Null =>
            node[m].parent \in DOMAIN node /\ m \in Range(node[node[m].parent].kids)
  <2>1. \A m \in DOMAIN node : node[m].parent # Null => node[m].parent \in DOMAIN node
    <3>1. \A m \in DOMAIN node : NodeFine(node[m], DOMAIN node, Leaves)
      BY <1>1, NodeFacts
    <3> QED
      BY <3>1 DEF NodeFine
  <2>2. \A m \in DOMAIN node : NodeOrdered(m, lo, hi, top)
    BY DEF Order
  <2>3. Range(<<n, s>>) = {n, s}
    BY <1>2, PairFacts
  <2> QED
    BY <1>0, <1>1, <2>1, <2>2, <2>3 DEF NodeOrdered, Holds
<1>17. \A m \in DOMAIN node : node[m].parent \in S => m \notin S
  BY <1>2, <1>3, <1>9
<1>18. Frame(w, S, lo, hi, top, lo2, hi2, top2)
  <2>1. \A m \in DOMAIN node \ S : node[m].parent \in S =>
          node'[m].parent # Null /\ m \in Range(node'[node'[m].parent].kids)
    BY <1>2, <1>9, <1>12, <1>16
  <2> QED
    BY <1>2, <1>3, <1>12, <1>14, <1>15, <1>16, <2>1 DEF Frame
<1>19. HalvesStay(w, S)
  BY <1>0 DEF HalvesStay
<1>20. NodeOrdered(n, lo2, hi2, top2)' /\ NodeOrdered(s, lo2, hi2, top2)'
  <2>1. \A m \in {n, s} :
           /\ top2[m] = top[m] /\ node'[m].keys = node[m].keys
           /\ node'[m].kids = node[m].kids /\ node'[m].next = node[m].next
           /\ node'[m].parent # Null /\ m \in Range(node'[node'[m].parent].kids)
           /\ \A c \in DOMAIN node : node[c].parent = m => node'[c].parent = m /\ c # n
    BY <1>2, <1>8, <1>9, <1>11, <1>12, <1>14, <1>16, <1>17
  <2>2. Hung(n, s, split, lo, hi, top, lo2, hi2, top2)
    BY <1>14, <2>1 DEF Hung
  <2> QED
    BY <1>0, <1>1, <2>2, HalvesOrdered
<1>21. NodeOrdered(p, lo2, hi2, top2)'
  <2>1. split \in Nat /\ split # 0
    BY <1>2, ConstantFacts
  <2>2. Len(<<split>>) = 1 /\ <<split>>[1] = split /\ <<n, s>>[1] = n /\ <<n, s>>[2] = s
    OBVIOUS
  <2>3. KeysFit(node'[p], lo2[p], top2[p])
    BY <1>8, <1>11, <1>14, <2>1, <2>2 DEF KeysFit, Below
  <2>4. \A i \in 1..Len(<<split>>) + 1 : i = 1 \/ i = 2
    BY <2>2
  <2>5. /\ lo2[n] = 0 /\ hi2[n] = split /\ lo2[s] = split /\ hi2[s] = 0
    BY <1>2, <1>3, <1>14
  <2>6. Laid(<<split>>, <<n, s>>, 0, 0, lo2, hi2)
    BY <2>2, <2>4, <2>5 DEF Laid
  <2>7. \A i \in 1..Len(<<split>>) + 1 : node'[<<n, s>>[i]].parent = p
    BY <1>12, <2>2, <2>4
  <2> QED
    BY <1>8, <1>11, <1>14, <2>3, <2>6, <2>7 DEF NodeOrdered
<1>22. Rest(w, S, lo2, hi2, top2)
  <2>1. Bound(w, lo2, top2)' /\ Apart(w)' /\ ~Pending(w)'
    BY <1>1, <1>2, <1>5, <1>14 DEF Bound, Apart, Reading, Pending, Releasing
  <2>2. \A v \in Workers : th[v].pc = "link" =>
          \A m \in Leaves' : m \in S => node'[m].next # th[v].sib
    BY <1>2, <1>12 DEF Order, Apart, Leaves
  <2>3. lo2[root'] = 0 /\ p \notin Leaves'
    BY <1>1, <1>8, <1>11, <1>14 DEF Leaves
  <2>4. \A m \in DOMAIN node' : m \notin DOMAIN node => m = p
    BY <1>11
  <2>5. \A m \in Leaves' : m \in DOMAIN node'
    BY DEF Leaves
  <2> QED
    BY <1>5, <1>20, <1>21, <2>1, <2>2, <2>3, <2>4, <2>5 DEF Rest
<1> QED
  BY <1>18, <1>19, <1>22, StepKeepsOrder DEF Ordered

\* The parent of the halves, which their worker has locked.
LEMMA ParentKnown ==
  ASSUME IInv, VInv, NEW w \in Workers, th[w].pc = "insertparent",
         NEW lo, NEW hi, NEW top, Order(lo, hi, top)
  PROVE  LET n == th[w].n
             s == th[w].sib
             p == th[w].parent
         IN  /\ p \in DOMAIN node /\ p \notin {n, s} /\ node[n].parent = p /\ ~node[p].leaf
             /\ Holds(w) = {n, s, p} /\ top[p] = hi[p] /\ NodeOrdered(p, lo, hi, top)
             /\ node[p].keys \in Seq(Keys) /\ node[p].kids \in Seq(DOMAIN node)
             /\ lo[p] \in Nat /\ hi[p] \in Nat /\ hi \in [DOMAIN node -> Nat]
             /\ Inner(node[p].keys, node[p].kids, lo[p], top[p], lo, hi)
             /\ n \in Range(node[p].kids) /\ s \notin Range(node[p].kids)
             /\ \A c \in Range(node[p].kids) : c \in DOMAIN node /\ node[c].parent = p
             /\ \A v \in Workers \ {w} : th[v].pc = "link" => th[v].sib \notin {n, s, p}
<1>0. PICK n, s, p : n = th[w].n /\ s = th[w].sib /\ p = th[w].parent
  OBVIOUS
<1>1. /\ n \in DOMAIN node /\ s \in DOMAIN node /\ node[s].parent = Null
      /\ NodeOrdered(n, lo, hi, top)
  BY <1>0, HalvesKnown
<1>2. p \in DOMAIN node \ Leaves /\ p \notin {n, s} /\ TreeFine /\ p # Null
  BY <1>0, NodeSeq DEF IInv, Placed, Splits, Null
<1>3. node[n].parent = p /\ Holds(w) = {n, s, p} /\ n \in Range(node[p].kids)
  <2>1. node[n].parent = p
    BY <1>0 DEF Order, Bound
  <2> QED
    BY <1>0, <1>1, <1>2, <2>1 DEF NodeOrdered, Holds
<1>4. \A m \in {n, s, p} : \A v \in Workers \ {w} :
        /\ Pending(v) => m \notin {th[v].n, th[v].sib}
        /\ th[v].pc = "link" => m # th[v].sib
  BY <1>3, OwnHalves
<1>5. ~LeftHalf(p)
  BY <1>0, <1>2, <1>4 DEF LeftHalf
<1>6. NodeOrdered(p, lo, hi, top) /\ ~node[p].leaf
  BY <1>2 DEF Order, Leaves
<1>7. top[p] = hi[p] /\ lo[p] \in Nat /\ hi[p] \in Nat /\ hi \in [DOMAIN node -> Nat]
  BY <1>2, <1>5, <1>6 DEF NodeOrdered, Order, Bounds
<1>8. /\ node[p].keys \in Seq(Keys) /\ node[p].kids \in Seq(DOMAIN node)
      /\ Len(node[p].kids) = Len(node[p].keys) + 1
  BY <1>2, <1>6, NodeFacts DEF NodeFine, Nodes
<1>9. Inner(node[p].keys, node[p].kids, lo[p], top[p], lo, hi)
  BY <1>6, <1>8 DEF NodeOrdered, KeysFit, Inner, Strict, Ascending
<1>10. \A c \in Range(node[p].kids) : c \in DOMAIN node /\ node[c].parent = p
  <2>1. /\ Range(node[p].kids) \subseteq DOMAIN node
        /\ Range(node[p].kids) = {node[p].kids[i] : i \in 1..Len(node[p].kids)}
    BY <1>8, RangeFacts
  <2>2. \A i \in 1..Len(node[p].kids) : node[node[p].kids[i]].parent = p
    BY <1>6, <1>8 DEF NodeOrdered
  <2> QED
    BY <2>1, <2>2
<1>11. s \notin Range(node[p].kids)
  BY <1>1, <1>2, <1>10
<1> QED
  BY <1>0, <1>2, <1>3, <1>4, <1>6, <1>7, <1>8, <1>9, <1>10, <1>11

\* Every node is among the children of its parent.
LEMMA ParentsKnow ==
  ASSUME IInv, NEW lo, NEW hi, NEW top, Order(lo, hi, top),
         NEW m \in DOMAIN node, node[m].parent # Null
  PROVE  node[m].parent \in DOMAIN node /\ m \in Range(node[node[m].parent].kids)
<1>1. NodeFine(node[m], DOMAIN node, Leaves)
  BY NodeFacts DEF IInv
<1> QED
  BY <1>1 DEF NodeFine, Order, NodeOrdered

\* The upper half is put in a parent that has room for it (xindex_buffer_impl.h:360-371).
LEMMA InsertParentOrder ==
  ASSUME IInv, VInv, NEW w \in Workers, WorkerStep(w), Steady,
         NEW lo, NEW hi, NEW top, Order(lo, hi, top), InsertParent(w)
  PROVE  Ordered'
<1>0. PICK n, s, p, split : /\ n = th[w].n /\ s = th[w].sib /\ p = th[w].parent
                            /\ split = th[w].split
  OBVIOUS
<1> DEFINE S == {n, s, p}
           D == DOMAIN node
           i == FirstLarger(node[p].keys, split) + 1
           K == InsertAt(node[p].keys, i, split)
           C == InsertAt(node[p].kids, i + 1, s)
           torn == Range(node[p].kids) \cup {s}
           x == [node[p] EXCEPT !.keys = K, !.kids = C, !.torn = torn]
           y == [node[s] EXCEPT !.parent = p]
<1>1. /\ th[w].pc = "insertparent" /\ root' = root /\ call' = call /\ lo[root] = 0
      /\ TreeFine /\ DOMAIN th = Workers /\ root \in DOMAIN node
  BY DEF InsertParent, Silent, Order, IInv, Threads, TreeFine
<1>2. /\ n \in DOMAIN node /\ s \in DOMAIN node /\ n # s /\ s # Null /\ DOMAIN th[w] = Fields
      /\ split \in Keys /\ call[w].op = "done" /\ Parted(n, s, split, lo, hi)
      /\ top[n] = split /\ node[s].parent = Null
  BY <1>0, <1>1, HalvesKnown DEF IInv, Threads
<1>3. /\ p \in DOMAIN node /\ p \notin {n, s} /\ node[n].parent = p /\ node[p].leaf = FALSE
      /\ Holds(w) = {n, s, p} /\ top[p] = hi[p] /\ NodeOrdered(p, lo, hi, top)
      /\ node[p].keys \in Seq(Keys) /\ node[p].kids \in Seq(DOMAIN node)
      /\ lo[p] \in Nat /\ hi[p] \in Nat /\ hi \in [DOMAIN node -> Nat]
      /\ Inner(node[p].keys, node[p].kids, lo[p], top[p], lo, hi)
      /\ n \in Range(node[p].kids) /\ s \notin Range(node[p].kids)
      /\ \A c \in Range(node[p].kids) : c \in DOMAIN node /\ node[c].parent = p
      /\ \A v \in Workers \ {w} : th[v].pc = "link" => th[v].sib \notin S
  <2>1. node[p].leaf \in BOOLEAN
    <3>1. p \in DOMAIN node
      BY <1>0, <1>1, ParentKnown
    <3> QED
      BY <1>1, <3>1, NodeFacts DEF Nodes
  <2> QED
    BY <1>0, <1>1, <2>1, ParentKnown
<1>4. node' = [[node EXCEPT ![p] = x] EXCEPT ![s] = y]
  BY <1>0, <1>2, <1>3 DEF InsertParent
<1>5. th'[w].pc = "bump" /\ th'[w].sib = s /\ th'[w].held = <<p, n, s>>
  BY <1>0, <1>1, <1>2 DEF InsertParent, Fields
<1>6. /\ K \in Seq(Keys) /\ C \in Seq(D)
      /\ Inner(K, C, lo[p], top[p], lo, [hi EXCEPT ![n] = split])
      /\ Range(C) = Range(node[p].kids) \cup {s}
  <2>1. Fitting(D, node[p].keys, node[p].kids, lo[p], top[p], lo, hi, n, s, split)
    BY <1>2, <1>3 DEF Fitting
  <2> HIDE DEF D
  <2>2. /\ K \in Seq(Keys) /\ C \in Seq(D)
        /\ Inner(K, C, lo[p], top[p], lo, [hi EXCEPT ![n] = split])
        /\ Joins(C, node[p].kids, s)
    BY <2>1, InsertLaid
  <2> QED
    BY <2>2 DEF Joins
<1>7. DOMAIN node[p] = {"leaf", "keys", "vals", "kids", "next", "parent", "ver", "locked", "torn"}
      /\ DOMAIN node[s] = DOMAIN node[p]
  BY <1>1, <1>2, <1>3, NodeDomain
<1> HIDE DEF K, C, i
<1>8. /\ x.keys = K /\ x.leaf = FALSE /\ x.kids = C /\ x.next = node[p].next
      /\ x.parent = node[p].parent /\ x.torn # {}
      /\ y.keys = node[s].keys /\ y.leaf = node[s].leaf /\ y.kids = node[s].kids
      /\ y.next = node[s].next /\ y.parent = p /\ y.torn = node[s].torn
  BY <1>3, <1>7
<1> HIDE DEF x, y, torn
<1>9. /\ DOMAIN node' = D /\ node'[p] = x /\ node'[s] = y
      /\ \A m \in DOMAIN node \ {p, s} : node'[m] = node[m]
  BY <1>2, <1>3, <1>4
<1>10. /\ \A m \in DOMAIN node \ {p} : /\ node'[m].keys = node[m].keys
                                       /\ node'[m].kids = node[m].kids
                                       /\ node'[m].torn = node[m].torn
       /\ \A m \in DOMAIN node : node'[m].leaf = node[m].leaf /\ node'[m].next = node[m].next
       /\ \A m \in DOMAIN node \ {s} : node'[m].parent = node[m].parent
       /\ node'[s].parent = p /\ node'[p].keys = K /\ node'[p].kids = C /\ node'[p].torn # {}
  BY <1>2, <1>3, <1>8, <1>9
<1>11. PICK hi2 : hi2 = [hi EXCEPT ![n] = split]
  OBVIOUS
<1>12. hi2[n] = split /\ \A m \in DOMAIN node \ {n} : hi2[m] = hi[m]
  BY <1>2, <1>3, <1>11
<1>13. lo \in Bounds' /\ hi2 \in Bounds' /\ top \in Bounds'
  <2>1. lo \in Bounds /\ top \in Bounds
    BY DEF Order
  <2>2. split \in Nat
    BY <1>2, ConstantFacts
  <2>3. hi2 \in [D -> Nat]
    BY <1>2, <1>3, <1>11, <2>2
  <2> QED
    BY <1>9, <2>1, <2>3 DEF Bounds
<1> HIDE DEF D
<1>14. p # Null /\ \A m \in DOMAIN node : node[m].parent # Null =>
         node[m].parent \in DOMAIN node /\ m \in Range(node[node[m].parent].kids)
  BY <1>1, <1>3, ParentsKnow, NodeSeq DEF Null
<1>15. \A m \in DOMAIN node : node'[m].parent # Null =>
         m \in Range(node'[node'[m].parent].kids)
  <2> SUFFICES ASSUME NEW m \in DOMAIN node, node'[m].parent # Null
               PROVE  m \in Range(node'[node'[m].parent].kids)
    OBVIOUS
  <2>1. CASE m = s
    BY <1>6, <1>10, <2>1
  <2>2. CASE m # s
    <3>1. /\ node'[m].parent = node[m].parent /\ node[m].parent \in DOMAIN node
          /\ m \in Range(node[node[m].parent].kids)
      BY <1>10, <1>14, <2>2
    <3> QED
      BY <1>6, <1>10, <3>1
  <2> QED
    BY <2>1, <2>2
<1>16. Frame(w, S, lo, hi, top, lo, hi2, top)
  <2>1. \A m \in DOMAIN node \ S : node[m].parent \in S =>
          node'[m].parent # Null /\ m \in Range(node'[node'[m].parent].kids)
    <3>1. Null \notin S
      BY <1>1, <1>2, <1>3, NodeSeq DEF Null
    <3> QED
      BY <1>10, <1>15, <3>1
  <2>2. \A m \in DOMAIN node : node[m].parent \notin S =>
          \/ node'[m].parent = node[m].parent /\ hi2[m] = hi[m]
          \/ node[m].parent = Null /\ m \in S
    BY <1>2, <1>3, <1>10, <1>12
  <2> QED
    BY <1>3, <1>10, <1>12, <1>13, <2>1, <2>2 DEF Frame
<1>17. HalvesStay(w, S)
  BY <1>0 DEF HalvesStay
<1>18. NodeOrdered(n, lo, hi2, top)' /\ NodeOrdered(s, lo, hi2, top)'
  <2>1. \A m \in {n, s} : \A c \in DOMAIN node : node[c].parent = m =>
          node'[c].parent = m /\ c # n
    <3>1. s # Null /\ n # Null
      BY <1>1, <1>2, NodeSeq DEF Null
    <3> QED
      BY <1>2, <1>3, <1>10, <3>1
  <2>2. \A m \in {n, s} : node'[m].parent # Null /\ m \in Range(node'[node'[m].parent].kids)
    BY <1>2, <1>3, <1>10, <1>14, <1>15
  <2>3. Hung(n, s, split, lo, hi, top, lo, hi2, top)
    BY <1>2, <1>3, <1>10, <1>12, <2>1, <2>2 DEF Hung
  <2> QED
    BY <1>0, <1>1, <2>3, HalvesOrdered
<1>19. NodeOrdered(p, lo, hi2, top)'
  <2>1. Inner(K, C, lo[p], top[p], lo, hi2)
    BY <1>6, <1>11
  <2>2. KeysFit(node'[p], lo[p], top[p])
    <3>1. Strict(K, lo[p], top[p]) /\ Len(K) \in Nat /\ \A j \in 1..Len(K) : K[j] \in Nat
      <4>1. Len(K) \in Nat /\ \A j \in 1..Len(K) : K[j] \in Keys
        BY <1>6
      <4> QED
        BY <2>1, <4>1, ConstantFacts DEF Inner
    <3> QED
      BY <1>3, <1>10, <3>1 DEF KeysFit, Strict, Ascending
  <2>3. Laid(K, C, lo[p], top[p], lo, hi2)
    BY <2>1 DEF Inner
  <2>4. \A j \in 1..Len(K) + 1 : node'[C[j]].parent = p
    <3>1. Range(C) = {C[j] : j \in 1..Len(C)} /\ Len(C) = Len(K) + 1
      BY <1>6, <2>1, RangeFacts DEF Inner
    <3>2. \A c \in Range(C) : node'[c].parent = p
      BY <1>3, <1>6, <1>10
    <3> QED
      BY <3>1, <3>2
  <2>5. node'[p].parent = Null /\ ~RightHalf(p)' => lo[p] = 0 /\ hi2[p] = 0
    <3>1. \A v \in Workers \ {w} : th'[v] = th[v] /\ (Pending(v)' <=> Pending(v))
      BY DEF WorkerStep, Others, Pending
    <3>2. RightHalf(p) => RightHalf(p)'
      BY <1>0, <1>3, <3>1 DEF RightHalf
    <3> QED
      BY <1>3, <1>10, <1>12, <3>2 DEF NodeOrdered
  <2>6. top[p] = hi2[p] /\ node'[p].leaf = FALSE
    BY <1>3, <1>10, <1>12
  <2>7. node'[p].parent # Null => p \in Range(node'[node'[p].parent].kids)
    BY <1>3, <1>15
  <2> QED
    BY <1>10, <2>2, <2>3, <2>4, <2>5, <2>6, <2>7 DEF NodeOrdered
<1>20. Rest(w, S, lo, hi2, top)
  <2>1. ~Pending(w)'
    <3>1. Range(<<p, n, s>>) = {p, n, s}
      BY <1>2, <1>3, TripleFacts
    <3> QED
      BY <1>5, <3>1 DEF Pending, Releasing
  <2>2. Bound(w, lo, top)' /\ Apart(w)'
    BY <1>1, <1>2, <1>5 DEF Bound, Apart, Reading
  <2>3. \A v \in Workers : th[v].pc = "link" => \A m \in Leaves' : node'[m].next # th[v].sib
    BY <1>9, <1>10 DEF Order, Apart, Leaves, D
  <2> QED
    BY <1>1, <1>5, <1>9, <1>18, <1>19, <2>1, <2>2, <2>3 DEF Rest, D
<1> QED
  BY <1>16, <1>17, <1>20, StepKeepsOrder DEF Ordered

\* The parts of node p when it is split, with the new child s in one of them.
Parts(p, s, split, kids, lk, lc, rk, rc, mid) ==
  LET slot == FirstLarger(node[p].keys, split)
      keys == InsertAt(node[p].keys, slot + 1, split)
      cut == ParentCut(slot)
  IN  /\ kids = InsertAt(node[p].kids, slot + 2, s)
      /\ lk = SubSeq(keys, 1, cut) /\ lc = SubSeq(kids, 1, cut + 1)
      /\ rk = SubSeq(keys, cut + 2, Capacity + 1) /\ rc = SubSeq(kids, cut + 2, Capacity + 2)
      /\ mid = keys[cut + 1]

\* They are in order.
LEMMA ParentDivided ==
  ASSUME IInv, VInv, NEW w \in Workers, th[w].pc = "insertparent", IsFull(th[w].parent),
         NEW lo, NEW hi, NEW top, Order(lo, hi, top),
         NEW n, NEW s, NEW p, NEW split, NEW C, NEW lk, NEW lc, NEW rk, NEW rc, NEW mid,
         n = th[w].n, s = th[w].sib, p = th[w].parent, split = th[w].split,
         Parts(p, s, split, C, lk, lc, rk, rc, mid)
  PROVE  /\ Divided(DOMAIN node, C, lk, lc, rk, rc, mid, lo[p], top[p],
                    lo, [hi EXCEPT ![n] = split])
         /\ Joins(C, node[p].kids, s)
<1> DEFINE D == DOMAIN node
           slot == FirstLarger(node[p].keys, split)
           i == slot + 1
           keys == InsertAt(node[p].keys, i, split)
           kids == InsertAt(node[p].kids, i + 1, s)
           cut == ParentCut(slot)
           hi2 == [hi EXCEPT ![n] = split]
<1>1. /\ n \in DOMAIN node /\ s \in DOMAIN node /\ split \in Keys
      /\ Parted(n, s, split, lo, hi)
  BY HalvesKnown
<1>2. /\ node[p].keys \in Seq(Keys) /\ node[p].kids \in Seq(DOMAIN node)
      /\ lo[p] \in Nat /\ top[p] \in Nat /\ hi \in [DOMAIN node -> Nat]
      /\ Inner(node[p].keys, node[p].kids, lo[p], top[p], lo, hi)
      /\ n \in Range(node[p].kids) /\ s \notin Range(node[p].kids)
  BY ParentKnown
<1>3. /\ slot \in 0..Len(node[p].keys) /\ keys \in Seq(Keys)
      /\ Len(keys) = Len(node[p].keys) + 1 /\ Len(node[p].keys) = Capacity
      /\ kids \in Seq(D) /\ Len(kids) = Len(node[p].keys) + 2
  <2>1. slot \in 0..Len(node[p].keys) /\ slot + 2 = i + 1
    BY InsertParentFacts
  <2> HIDE DEF slot
  <2> QED
    BY <2>1, InsertParentFacts DEF IsFull, slot
<1>4. Capacity \in Nat
  BY ConstantFacts
<1> HIDE DEF slot
<1>5. cut \in 1..Capacity - 1 /\ slot + 2 = i + 1
  BY <1>3, <1>4, CutFacts
<1>6. Fitting(D, node[p].keys, node[p].kids, lo[p], top[p], lo, hi, n, s, split)
  BY <1>1, <1>2 DEF Fitting
<1> HIDE DEF D
<1>7. Inner(keys, kids, lo[p], top[p], lo, hi2) /\ Joins(kids, node[p].kids, s)
  BY <1>6, InsertLaid DEF slot
<1> HIDE DEF i, keys, kids, cut, hi2
<1>8. cut \in 0..Len(keys) - 1 /\ Len(keys) = Capacity + 1 /\ Len(kids) = Capacity + 2
  BY <1>3, <1>4, <1>5
<1>9. Divided(D, kids, SubSeq(keys, 1, cut), SubSeq(kids, 1, cut + 1),
              SubSeq(keys, cut + 2, Len(keys)), SubSeq(kids, cut + 2, Len(kids)),
              keys[cut + 1], lo[p], top[p], lo, hi2)
  BY <1>2, <1>3, <1>7, <1>8, CutLaid
<1>10. /\ C = kids /\ lk = SubSeq(keys, 1, cut) /\ lc = SubSeq(kids, 1, cut + 1)
       /\ rk = SubSeq(keys, cut + 2, Capacity + 1) /\ rc = SubSeq(kids, cut + 2, Capacity + 2)
       /\ mid = keys[cut + 1]
  BY <1>5 DEF Parts, slot, i, keys, kids, cut
<1> QED
  BY <1>7, <1>8, <1>9, <1>10 DEF D, hi2

\* The nodes in D have the same ranges.
SameRanges(D, lo, hi, lo2, hi2) == \A m \in D : lo2[m] = lo[m] /\ hi2[m] = hi[m]

\* The ranges of the children are the same.
LEMMA LaidSame ==
  ASSUME NEW D, NEW K, NEW C \in Seq(D), NEW l, NEW t, NEW lo, NEW hi, NEW lo2, NEW hi2,
         Inner(K, C, l, t, lo, hi), SameRanges(D, lo, hi, lo2, hi2)
  PROVE  Laid(K, C, l, t, lo2, hi2)
<1>1. Len(C) = Len(K) + 1 /\ Laid(K, C, l, t, lo, hi)
  BY DEF Inner
<1>2. \A i \in 1..Len(K) + 1 : C[i] \in D
  BY <1>1
<1> QED
  BY <1>1, <1>2 DEF Laid, SameRanges

\* The keys of an inner node fit.
LEMMA InnerFit ==
  ASSUME NEW r, r.leaf = FALSE, r.keys \in Seq(Keys), NEW C, NEW l \in Nat, NEW t, NEW lo,
         NEW hi, Inner(r.keys, C, l, t, lo, hi)
  PROVE  KeysFit(r, l, t)
<1>1. Strict(r.keys, l, t)
  BY DEF Inner
<1>2. \A j \in 1..Len(r.keys) : r.keys[j] \in Nat
  <2>1. \A j \in 1..Len(r.keys) : r.keys[j] \in Keys
    OBVIOUS
  <2> QED
    BY <2>1, ConstantFacts
<1> QED
  BY <1>1, <1>2 DEF KeysFit, Strict, Ascending

\* The parent p gives the upper part of its children to the new node q.
Adopted(n, s, p, q, lk, lc, rk, rc) ==
  /\ DOMAIN node' = DOMAIN node \cup {q}
  /\ \A m \in DOMAIN node \ {p} : /\ node'[m].keys = node[m].keys
                                  /\ node'[m].kids = node[m].kids
                                  /\ node'[m].torn = node[m].torn
  /\ \A m \in DOMAIN node : /\ node'[m].leaf = node[m].leaf /\ node'[m].next = node[m].next
                            /\ node'[m].parent = IF m \in Range(rc) THEN q
                                                 ELSE IF m = s THEN p ELSE node[m].parent
  /\ node'[p].keys = lk /\ node'[p].kids = lc /\ node'[p].torn # {}
  /\ node'[q].keys = rk /\ node'[q].kids = rc /\ node'[q].leaf = FALSE
  /\ node'[q].parent = Null

\* Its worker goes on with the parts of p.
Climbed(w, n, s, p, q, mid) ==
  /\ th'[w].pc = "bump" /\ th'[w].n = p /\ th'[w].sib = q
  /\ th'[w].held = <<n, s>> /\ th'[w].split = mid

\* What the split of a full parent does to the nodes.
LEMMA ParentAdopts ==
  ASSUME IInv, VInv, NEW w \in Workers, WorkerStep(w), SplitParent(w),
         NEW n, NEW s, NEW p, NEW q, NEW split, NEW C, NEW K1, NEW C1, NEW K2, NEW C2, NEW mid,
         n = th[w].n, s = th[w].sib, p = th[w].parent, q = Len(node) + 1, split = th[w].split,
         Parts(p, s, split, C, K1, C1, K2, C2, mid)
  PROVE  Adopted(n, s, p, q, K1, C1, K2, C2) /\ Climbed(w, n, s, p, q, mid)
<1> DEFINE slot == FirstLarger(node[p].keys, th[w].split)
           keys == InsertAt(node[p].keys, slot + 1, th[w].split)
           kids == InsertAt(node[p].kids, slot + 2, s)
           cut == ParentCut(slot)
           lk == SubSeq(keys, 1, cut)
           lc == SubSeq(kids, 1, cut + 1)
           rk == SubSeq(keys, cut + 2, Capacity + 1)
           rc == SubSeq(kids, cut + 2, Capacity + 2)
           torn == Range(kids)
           adopted == [c \in DOMAIN node |->
                         IF c \in Range(rc) THEN [node[c] EXCEPT !.parent = q]
                         ELSE IF c = s THEN [node[c] EXCEPT !.parent = p]
                         ELSE node[c]]
           x == [adopted[p] EXCEPT !.keys = lk, !.kids = lc, !.torn = torn]
           f == [adopted EXCEPT ![p] = x]
           above == [Internal(rk, rc, Null) EXCEPT !.locked = TRUE]
           r == [th[w] EXCEPT !.pc = "bump", !.held = <<n, s>>, !.n = p, !.sib = q,
                              !.split = keys[cut + 1]]
<1>1. /\ TreeFine /\ p \in DOMAIN node /\ s \in DOMAIN node /\ n \in DOMAIN node
      /\ Len(kids) = Len(node[p].keys) + 2 /\ kids \in Seq(DOMAIN node)
  BY InsertParentFacts DEF SplitParent
<1>2. DOMAIN th = Workers /\ DOMAIN th[w] = Fields
  BY DEF IInv, Threads
<1>3. node' = Append(f, above)
  BY <1>1 DEF SplitParent
<1>4. th' = [th EXCEPT ![w] = r]
  BY <1>2 DEF SplitParent
<1>5. torn # {}
  <2>1. Len(kids) \in Nat /\ Len(kids) > 0
    BY <1>1, NodeFacts DEF NodeFine, Nodes
  <2> HIDE DEF kids
  <2>2. kids[1] \in Range(kids)
    BY <1>1, <2>1, RangeFacts
  <2> QED
    BY <2>2
<1> HIDE DEF slot, keys, kids, cut, torn, lk, lc, rk, rc
<1>6. /\ th'[w].pc = "bump" /\ th'[w].n = p /\ th'[w].sib = q
      /\ th'[w].held = <<n, s>> /\ th'[w].split = keys[cut + 1]
  BY <1>2, <1>4 DEF Fields
<1>7. /\ DOMAIN node = 1..Len(node) /\ Len(node) \in Nat /\ q \notin DOMAIN node
  BY <1>1, NodeSeq
<1>8. \A m \in DOMAIN node : DOMAIN node[m] = {"leaf", "keys", "vals", "kids", "next",
                                               "parent", "ver", "locked", "torn"}
  BY <1>1, NodeDomain
<1>9. ASSUME NEW m \in DOMAIN node
      PROVE  /\ DOMAIN adopted[m] = DOMAIN node[m]
             /\ adopted[m].keys = node[m].keys /\ adopted[m].kids = node[m].kids
             /\ adopted[m].torn = node[m].torn /\ adopted[m].leaf = node[m].leaf
             /\ adopted[m].next = node[m].next
             /\ adopted[m].parent = IF m \in Range(rc) THEN q
                                    ELSE IF m = s THEN p ELSE node[m].parent
  <2>1. CASE m \in Range(rc)
    <3>1. adopted[m] = [node[m] EXCEPT !.parent = q]
      BY <2>1
    <3> HIDE DEF adopted
    <3> QED
      BY <1>8, <2>1, <3>1
  <2>2. CASE m \notin Range(rc) /\ m = s
    <3>1. adopted[m] = [node[m] EXCEPT !.parent = p]
      BY <2>2
    <3> HIDE DEF adopted
    <3> QED
      BY <1>8, <2>2, <3>1
  <2>3. CASE m \notin Range(rc) /\ m # s
    <3>1. adopted[m] = node[m]
      BY <2>3
    <3> HIDE DEF adopted
    <3> QED
      BY <2>3, <3>1
  <2> QED
    BY <2>1, <2>2, <2>3
<1>10. DOMAIN adopted = 1..Len(node)
  BY <1>7
<1> HIDE DEF adopted
<1>11. /\ x.keys = lk /\ x.kids = lc /\ x.torn = torn /\ x.leaf = node[p].leaf
       /\ x.next = node[p].next
       /\ x.parent = IF p \in Range(rc) THEN q ELSE IF p = s THEN p ELSE node[p].parent
  <2>1. /\ DOMAIN adopted[p] = {"leaf", "keys", "vals", "kids", "next", "parent", "ver",
                                "locked", "torn"}
        /\ adopted[p].leaf = node[p].leaf /\ adopted[p].next = node[p].next
        /\ adopted[p].parent = IF p \in Range(rc) THEN q
                               ELSE IF p = s THEN p ELSE node[p].parent
    BY <1>1, <1>8, <1>9
  <2> QED
    BY <2>1
<1>12. above.keys = rk /\ above.kids = rc /\ above.leaf = FALSE /\ above.parent = Null
  BY DEF Internal
<1> HIDE DEF x, above
<1>13. /\ f = [m \in 1..Len(node) |-> f[m]] /\ f[p] = x
       /\ \A m \in DOMAIN node \ {p} : f[m] = adopted[m]
  BY <1>1, <1>7, <1>10
<1> HIDE DEF f
<1>14. /\ DOMAIN node' = DOMAIN node \cup {q} /\ node'[q] = above /\ node'[p] = x
       /\ \A m \in DOMAIN node \ {p} : node'[m] = adopted[m]
  <2>1. /\ DOMAIN node' = 1..Len(node) + 1 /\ node'[q] = above
        /\ \A m \in 1..Len(node) : node'[m] = f[m]
    BY <1>3, <1>7, <1>13, AppendFacts
  <2>2. DOMAIN node' = DOMAIN node \cup {q}
    BY <1>7, <2>1
  <2> QED
    BY <1>1, <1>7, <1>13, <2>1, <2>2
<1>15. Adopted(n, s, p, q, lk, lc, rk, rc)
  <2>1. \A m \in DOMAIN node \ {p} : /\ node'[m].keys = node[m].keys
                                     /\ node'[m].kids = node[m].kids
                                     /\ node'[m].torn = node[m].torn
    BY <1>9, <1>14
  <2>2. \A m \in DOMAIN node : /\ node'[m].leaf = node[m].leaf /\ node'[m].next = node[m].next
                               /\ node'[m].parent = IF m \in Range(rc) THEN q
                                                    ELSE IF m = s THEN p ELSE node[m].parent
    BY <1>9, <1>11, <1>14
  <2> QED
    BY <1>5, <1>11, <1>12, <1>14, <2>1, <2>2 DEF Adopted
<1>16. K1 = lk /\ C1 = lc /\ K2 = rk /\ C2 = rc /\ mid = keys[cut + 1]
  BY DEF Parts, slot, keys, kids, cut, lk, lc, rk, rc
<1> QED
  BY <1>6, <1>15, <1>16 DEF Climbed

\* A full parent is split in its turn, and its upper part hangs below no node yet
\* (xindex_buffer_impl.h:402-473).
LEMMA SplitParentOrder ==
  ASSUME IInv, VInv, NEW w \in Workers, WorkerStep(w), Steady,
         NEW lo, NEW hi, NEW top, Order(lo, hi, top), SplitParent(w)
  PROVE  Ordered'
<1>0. PICK n, s, p, q, split : /\ n = th[w].n /\ s = th[w].sib /\ p = th[w].parent
                               /\ q = Len(node) + 1 /\ split = th[w].split
  OBVIOUS
<1>1. /\ th[w].pc = "insertparent" /\ IsFull(p) /\ root' = root /\ call' = call
      /\ lo[root] = 0 /\ TreeFine /\ root \in DOMAIN node
  BY <1>0 DEF SplitParent, Silent, Order, IInv, TreeFine
<1>2. PICK kids, lk, lc, rk, rc, mid : Parts(p, s, split, kids, lk, lc, rk, rc, mid)
  BY DEF Parts
<1>3. PICK hi1 : hi1 = [hi EXCEPT ![n] = split]
  OBVIOUS
<1>4. /\ Divided(DOMAIN node, kids, lk, lc, rk, rc, mid, lo[p], top[p], lo, hi1)
      /\ Joins(kids, node[p].kids, s)
  BY <1>0, <1>1, <1>2, <1>3, ParentDivided
<1>5. /\ Adopted(n, s, p, q, lk, lc, rk, rc)
      /\ th'[w].pc = "bump" /\ th'[w].n = p /\ th'[w].sib = q
      /\ th'[w].held = <<n, s>> /\ th'[w].split = mid
  <2>1. Adopted(n, s, p, q, lk, lc, rk, rc) /\ Climbed(w, n, s, p, q, mid)
    BY <1>0, <1>2, ParentAdopts
  <2> QED
    BY <2>1 DEF Climbed
<1>6. /\ n \in DOMAIN node /\ s \in DOMAIN node /\ n # s /\ s # Null /\ split \in Keys
      /\ call[w].op = "done" /\ top[n] = split /\ node[s].parent = Null
      /\ Parted(n, s, split, lo, hi)
  BY <1>0, <1>1, HalvesKnown
<1>7. /\ p \in DOMAIN node /\ p \notin {n, s} /\ node[n].parent = p /\ ~node[p].leaf
      /\ Holds(w) = {n, s, p} /\ top[p] = hi[p] /\ NodeOrdered(p, lo, hi, top)
      /\ lo[p] \in Nat /\ hi[p] \in Nat /\ hi \in [DOMAIN node -> Nat]
      /\ n \in Range(node[p].kids)
      /\ \A c \in Range(node[p].kids) : c \in DOMAIN node /\ node[c].parent = p
      /\ \A v \in Workers \ {w} : th[v].pc = "link" => th[v].sib \notin {n, s, p}
  BY <1>0, <1>1, ParentKnown
<1>8. /\ q \in Nat /\ q \notin DOMAIN node /\ q # Null /\ p # Null /\ n # Null
      /\ Null \notin DOMAIN node
  BY <1>0, <1>1, <1>6, <1>7, NodeSeq DEF Null
<1> DEFINE D == DOMAIN node
           S == {n, s, p}
<1>9. /\ mid \in Keys /\ lo[p] < mid /\ Below(mid, hi[p])
      /\ lk \in Seq(Keys) /\ lc \in Seq(D) /\ rk \in Seq(Keys) /\ rc \in Seq(D)
      /\ Inner(lk, lc, lo[p], mid, lo, hi1) /\ Inner(rk, rc, mid, hi[p], lo, hi1)
      /\ Range(lc) \cup Range(rc) = Range(node[p].kids) \cup {s}
      /\ Range(lc) \cap Range(rc) = {}
  BY <1>4, <1>7 DEF Divided, Joins
<1>10. /\ DOMAIN node' = DOMAIN node \cup {q}
       /\ \A m \in DOMAIN node \ {p} : /\ node'[m].keys = node[m].keys
                                       /\ node'[m].kids = node[m].kids
                                       /\ node'[m].torn = node[m].torn
       /\ \A m \in DOMAIN node : node'[m].leaf = node[m].leaf /\ node'[m].next = node[m].next
       /\ node'[p].keys = lk /\ node'[p].kids = lc /\ node'[p].torn # {}
       /\ node'[q].keys = rk /\ node'[q].kids = rc /\ node'[q].leaf = FALSE
       /\ node'[q].parent = Null
  BY <1>5 DEF Adopted
<1>11. \A m \in DOMAIN node : node'[m].parent = IF m \in Range(rc) THEN q
                                                ELSE IF m = s THEN p ELSE node[m].parent
  BY <1>5 DEF Adopted
<1>12. PICK lo2, hi2, top2 :
         /\ lo2 = [m \in D \cup {q} |-> IF m = q THEN mid ELSE lo[m]]
         /\ hi2 = [m \in D \cup {q} |->
                     IF m = q THEN hi[p] ELSE IF m = n THEN split ELSE hi[m]]
         /\ top2 = [m \in D \cup {q} |->
                      IF m = q THEN hi[p] ELSE IF m = p THEN mid ELSE top[m]]
  OBVIOUS
<1>13. /\ \A m \in DOMAIN node : lo2[m] = lo[m]
       /\ \A m \in DOMAIN node \ {n} : hi2[m] = hi[m]
       /\ \A m \in DOMAIN node \ {p} : top2[m] = top[m]
       /\ hi2[n] = split /\ top2[p] = mid
       /\ lo2[q] = mid /\ hi2[q] = hi[p] /\ top2[q] = hi[p] /\ hi2[p] = hi[p]
  BY <1>6, <1>7, <1>8, <1>12
<1>14. lo2 \in Bounds' /\ hi2 \in Bounds' /\ top2 \in Bounds'
  <2>1. lo \in Bounds /\ hi \in Bounds /\ top \in Bounds
    BY DEF Order
  <2>2. /\ split \in Nat /\ mid \in Nat
        /\ \A m \in DOMAIN node : lo[m] \in Nat /\ hi[m] \in Nat /\ top[m] \in Nat
    BY <1>6, <1>9, <2>1, ConstantFacts DEF Bounds
  <2>3. lo2 \in [D \cup {q} -> Nat] /\ hi2 \in [D \cup {q} -> Nat] /\ top2 \in [D \cup {q} -> Nat]
    BY <1>7, <1>12, <2>2
  <2> QED
    BY <1>10, <2>3 DEF Bounds
<1> HIDE DEF D
<1>15. \A m \in DOMAIN node : node[m].parent # Null =>
         node[m].parent \in DOMAIN node /\ m \in Range(node[node[m].parent].kids)
  BY ParentsKnow
<1>16. \A m \in DOMAIN node : node'[m].parent # Null =>
         m \in Range(node'[node'[m].parent].kids)
  <2> SUFFICES ASSUME NEW m \in DOMAIN node, node'[m].parent # Null
               PROVE  m \in Range(node'[node'[m].parent].kids)
    OBVIOUS
  <2>1. CASE m \in Range(rc)
    BY <1>10, <1>11, <2>1
  <2>2. CASE m \notin Range(rc) /\ m = s
    BY <1>9, <1>10, <1>11, <2>2
  <2>3. CASE m \notin Range(rc) /\ m # s
    <3>1. /\ node'[m].parent = node[m].parent /\ node[m].parent \in DOMAIN node
          /\ m \in Range(node[node[m].parent].kids)
      BY <1>11, <1>15, <2>3
    <3> QED
      BY <1>9, <1>10, <2>3, <3>1
  <2> QED
    BY <2>1, <2>2, <2>3
<1>17. \A m \in DOMAIN node : m \in Range(rc) => node[m].parent = p \/ m = s
  BY <1>7, <1>9
<1>18. \A m \in DOMAIN node \ {s} : node[m].parent # p => node'[m].parent = node[m].parent
  BY <1>11, <1>17
<1>19. Frame(w, S, lo, hi, top, lo2, hi2, top2)
  <2>1. \A m \in DOMAIN node \ S : node[m].parent \in S =>
          node'[m].parent # Null /\ m \in Range(node'[node'[m].parent].kids)
    <3>1. \A m \in DOMAIN node : node[m].parent \in S => node'[m].parent # Null
      BY <1>6, <1>7, <1>8, <1>11
    <3> QED
      BY <1>16, <3>1
  <2>2. \A m \in DOMAIN node : node[m].parent \notin S =>
          \/ node'[m].parent = node[m].parent /\ hi2[m] = hi[m]
          \/ node[m].parent = Null /\ m \in S
    BY <1>6, <1>7, <1>13, <1>18
  <2> QED
    BY <1>7, <1>10, <1>13, <1>14, <2>1, <2>2 DEF Frame
<1>20. HalvesStay(w, S)
  BY <1>0 DEF HalvesStay
<1>21. NodeOrdered(n, lo2, hi2, top2)' /\ NodeOrdered(s, lo2, hi2, top2)'
  <2>1. \A m \in {n, s} : \A c \in DOMAIN node : node[c].parent = m =>
          node'[c].parent = m /\ c # n
    BY <1>6, <1>7, <1>8, <1>18
  <2>2. \A m \in {n, s} : node'[m].parent # Null /\ m \in Range(node'[node'[m].parent].kids)
    <3>1. \A m \in {n, s} : node'[m].parent # Null
      BY <1>6, <1>7, <1>8, <1>11
    <3> QED
      BY <1>6, <1>16, <3>1
  <2>3. Hung(n, s, split, lo, hi, top, lo2, hi2, top2)
    BY <1>6, <1>7, <1>10, <1>13, <2>1, <2>2 DEF Hung
  <2> QED
    BY <1>0, <1>1, <2>3, HalvesOrdered
<1>22. SameRanges(D, lo, hi1, lo2, hi2)
  BY <1>6, <1>7, <1>13, <1>3 DEF D, SameRanges
<1>23. \A v \in Workers \ {w} : th'[v] = th[v] /\ (Pending(v)' <=> Pending(v))
  BY DEF WorkerStep, Others, Pending
<1>24. Pending(w)'
  <2>1. Range(<<n, s>>) = {n, s}
    BY <1>6, PairFacts
  <2> QED
    BY <1>5, <1>6, <1>8, <2>1 DEF Pending, Releasing
<1>25. NodeOrdered(p, lo2, hi2, top2)'
  <2>1. node'[p].leaf = FALSE
    <3>1. node[p].leaf \in BOOLEAN
      BY <1>1, <1>7, NodeFacts DEF Nodes
    <3> QED
      BY <1>7, <1>10, <3>1
  <2>2. KeysFit(node'[p], lo2[p], top2[p])
    <3>1. lo2[p] = lo[p] /\ top2[p] = mid
      BY <1>7, <1>13
    <3>2. /\ node'[p].keys \in Seq(Keys) /\ lo[p] \in Nat
          /\ Inner(node'[p].keys, lc, lo[p], mid, lo, hi1)
      BY <1>7, <1>9, <1>10
    <3> QED
      BY <2>1, <3>1, <3>2, InnerFit
  <2>3. Laid(lk, lc, lo[p], mid, lo2, hi2)
    BY <1>9, <1>22, LaidSame
  <2>4. \A j \in 1..Len(lk) + 1 : node'[lc[j]].parent = p
    <3>1. Range(lc) = {lc[j] : j \in 1..Len(lc)} /\ Len(lc) = Len(lk) + 1
      BY <1>9, RangeFacts DEF Inner
    <3>2. \A c \in Range(lc) : node'[c].parent = p
      BY <1>6, <1>7, <1>9, <1>11
    <3> QED
      BY <3>1, <3>2
  <2>5. node'[p].parent = Null /\ ~RightHalf(p)' => lo2[p] = 0 /\ hi2[p] = 0
    <3>1. RightHalf(p) => RightHalf(p)'
      BY <1>0, <1>7, <1>23 DEF RightHalf
    <3>2. node'[p].parent = Null => node[p].parent = Null
      BY <1>7, <1>8, <1>11
    <3> QED
      BY <1>7, <1>13, <3>1, <3>2 DEF NodeOrdered
  <2>6. LeftHalf(p)'
    BY <1>5, <1>24 DEF LeftHalf
  <2>7. node'[p].parent # Null => p \in Range(node'[node'[p].parent].kids)
    BY <1>7, <1>16
  <2>8. lo2[p] = lo[p] /\ top2[p] = mid
    BY <1>7, <1>13
  <2> QED
    BY <1>10, <2>1, <2>2, <2>3, <2>4, <2>5, <2>6, <2>7, <2>8 DEF NodeOrdered
<1>26. NodeOrdered(q, lo2, hi2, top2)'
  <2>1. KeysFit(node'[q], lo2[q], top2[q])
    <3>1. mid \in Nat
      BY <1>9, ConstantFacts
    <3>2. /\ node'[q].keys \in Seq(Keys) /\ node'[q].leaf = FALSE
          /\ Inner(node'[q].keys, rc, mid, hi[p], lo, hi1)
      BY <1>9, <1>10
    <3> QED
      BY <1>13, <3>1, <3>2, InnerFit
  <2>2. Laid(rk, rc, mid, hi[p], lo2, hi2)
    BY <1>9, <1>22, LaidSame
  <2>3. \A j \in 1..Len(rk) + 1 : node'[rc[j]].parent = q
    <3>1. Range(rc) = {rc[j] : j \in 1..Len(rc)} /\ Len(rc) = Len(rk) + 1
      BY <1>9, RangeFacts DEF Inner
    <3>2. \A c \in Range(rc) : node'[c].parent = q
      BY <1>6, <1>7, <1>9, <1>11
    <3> QED
      BY <3>1, <3>2
  <2>4. RightHalf(q)'
    BY <1>5, <1>24 DEF RightHalf
  <2> QED
    BY <1>10, <1>13, <2>1, <2>2, <2>3, <2>4 DEF NodeOrdered
<1>27. Halves(w, lo2, hi2, top2)'
  <2>1. node'[p].leaf = FALSE
    <3>1. node[p].leaf \in BOOLEAN
      BY <1>1, <1>7, NodeFacts DEF Nodes
    <3> QED
      BY <1>7, <1>10, <3>1
  <2>2. lo2[p] = lo[p]
    BY <1>7, <1>13
  <2> QED
    BY <1>5, <1>9, <1>10, <1>13, <2>1, <2>2 DEF Halves
<1>28. Rest(w, S, lo2, hi2, top2)
  <2>1. Bound(w, lo2, top2)' /\ Apart(w)'
    BY <1>1, <1>5, <1>6 DEF Bound, Apart, Reading
  <2>2. \A v \in Workers : th[v].pc = "link" =>
          \A m \in Leaves' : m \in S => node'[m].next # th[v].sib
    BY <1>6, <1>7, <1>10 DEF Order, Apart, Leaves
  <2>3. lo2[root'] = 0 /\ q \notin Leaves'
    BY <1>1, <1>10, <1>13 DEF Leaves
  <2>4. \A m \in DOMAIN node' : m \notin DOMAIN node => m = q
    BY <1>10
  <2>5. \A m \in Leaves' : m \in DOMAIN node'
    BY DEF Leaves
  <2>6. \A m \in DOMAIN node' : m \in S \/ m \notin DOMAIN node => NodeOrdered(m, lo2, hi2, top2)'
    BY <1>21, <1>25, <1>26, <2>4
  <2> QED
    BY <1>5, <1>27, <2>1, <2>2, <2>3, <2>4, <2>5, <2>6 DEF Rest
<1> QED
  BY <1>19, <1>20, <1>28, StepKeepsOrder DEF Ordered

-----------------------------------------------------------------------------
(* Every step keeps the tree in order.                                      *)

\* A tree that inserts made, with nobody at work, is in order.
LEMMA InitOrder ==
  ASSUME Init
  PROVE  Ordered
<1>1. PICK s \in Scenarios : node = s.nodes /\ root = s.root
  BY DEF Init
<1>2. PICK lo, hi : lo = Ranges(node).lo /\ hi = Ranges(node).hi
  OBVIOUS
<1>3. /\ lo \in Bounds /\ hi \in Bounds /\ InOrder(node, lo, hi)
      /\ node[root].parent = Null /\ root \in DOMAIN node
  BY <1>1, <1>2, OrderAssumption, TreeAssumption DEF Bounds
<1>4. \A w \in Workers : /\ th[w].pc = "idle" /\ th[w].sib = Null
                         /\ call[w].op = "none"
  BY DEF Init, Idle, Map!NoCall
<1>5. \A w \in Workers : ~Pending(w)
  BY <1>4 DEF Pending
<1>6. \A n \in DOMAIN node : NodeOrdered(n, lo, hi, hi)
  <2> SUFFICES ASSUME NEW n \in DOMAIN node PROVE NodeOrdered(n, lo, hi, hi)
    OBVIOUS
  <2>1. ~LeftHalf(n) /\ ~RightHalf(n) /\ ~Unlisted(n)
    BY <1>5 DEF LeftHalf, RightHalf, Unlisted
  <2>2. node[n] \in Nodes
    BY InitFine, NodeFacts DEF IInv
  <2>3. node[n].keys \in Seq(Keys) /\ Len(node[n].keys) \in Nat
    BY <2>2 DEF Nodes
  <2>4. KeysFit(node[n], lo[n], hi[n])
    BY <1>3 DEF InOrder, KeysFit
  <2>5. node[n].parent # Null => n \in Range(node[node[n].parent].kids)
    BY <1>3 DEF InOrder
  <2>6. node[n].parent = Null => lo[n] = 0 /\ hi[n] = 0
    BY <1>3 DEF InOrder
  <2>7. ~node[n].leaf =>
          /\ Laid(node[n].keys, node[n].kids, lo[n], hi[n], lo, hi)
          /\ \A i \in 1..Len(node[n].keys) + 1 : node[node[n].kids[i]].parent = n
    <3> SUFFICES ASSUME ~node[n].leaf, NEW i \in 1..Len(node[n].keys) + 1
                 PROVE  /\ node[node[n].kids[i]].parent = n
                        /\ lo[node[n].kids[i]] = IF i = 1 THEN lo[n] ELSE node[n].keys[i - 1]
                        /\ hi[node[n].kids[i]] = IF i = Len(node[n].keys) + 1 THEN hi[n]
                                                 ELSE node[n].keys[i]
      BY DEF Laid
    <3>1. i > Len(node[n].keys) <=> i = Len(node[n].keys) + 1
      BY <2>3
    <3> QED
      BY <1>3, <3>1 DEF InOrder
  <2>8. node[n].leaf => node[n].kids = <<>> /\ Follows(hi[n], node[n].next, lo)
    BY <1>3 DEF InOrder, Follows
  <2> QED
    BY <2>1, <2>4, <2>5, <2>6, <2>7, <2>8 DEF NodeOrdered
<1>7. \A w \in Workers : Bound(w, lo, hi) /\ Apart(w)
  BY <1>4 DEF Bound, Apart
<1>8. lo[root] = 0
  BY <1>3 DEF InOrder
<1> QED
  BY <1>3, <1>5, <1>6, <1>7, <1>8 DEF Order, Ordered

\* Steps that change nothing.
LEMMA StutterOrder ==
  ASSUME Ordered, UNCHANGED vars
  PROVE  Ordered'
<1>1. node' = node /\ root' = root /\ th' = th /\ call' = call
  BY DEF vars, tree
<1>2. PICK lo, hi, top : Order(lo, hi, top)
  BY DEF Ordered
<1>3. /\ Bounds' = Bounds
      /\ \A w \in Workers : Pending(w)' <=> Pending(w)
  BY <1>1 DEF Bounds, Pending
<1>4. ASSUME NEW n \in DOMAIN node
      PROVE  NodeOrdered(n, lo, hi, top)'
  <2>1. /\ LeftHalf(n)' <=> LeftHalf(n)
        /\ RightHalf(n)' <=> RightHalf(n)
        /\ Unlisted(n)' <=> Unlisted(n)
    BY <1>1, <1>3 DEF LeftHalf, RightHalf, Unlisted
  <2>2. NodeOrdered(n, lo, hi, top)
    BY <1>2 DEF Order
  <2> QED
    BY <1>1, <2>1, <2>2 DEF NodeOrdered
<1>5. \A n \in DOMAIN node' : NodeOrdered(n, lo, hi, top)'
  BY <1>1, <1>4
<1>6. \A w \in Workers : Pending(w)' => Halves(w, lo, hi, top)'
  BY <1>1, <1>2, <1>3 DEF Order, Halves
<1>7. \A w \in Workers : Bound(w, lo, top)' /\ Apart(w)'
  <2> SUFFICES ASSUME NEW w \in Workers PROVE Bound(w, lo, top)' /\ Apart(w)'
    OBVIOUS
  <2>1. Bound(w, lo, top) /\ Apart(w)
    BY <1>2 DEF Order
  <2>2. Bound(w, lo, top)'
    BY <1>1, <2>1 DEF Bound, Covers, Key
  <2>3. Apart(w)'
    BY <1>1, <2>1 DEF Apart, Leaves
  <2> QED
    BY <2>2, <2>3
<1>8. lo \in Bounds' /\ hi \in Bounds' /\ top \in Bounds' /\ lo[root'] = 0
  BY <1>1, <1>2, <1>3 DEF Order
<1>9. Order(lo, hi, top)'
  BY <1>5, <1>6, <1>7, <1>8 DEF Order
<1> QED
  BY <1>9 DEF Ordered

\* Every step keeps the tree in order, whatever the other workers have under way.
LEMMA OrderKept ==
  ASSUME IInv, VInv, Ordered, [Next]_vars
  PROVE  Ordered'
<1>1. CASE UNCHANGED vars
  BY <1>1, StutterOrder
<1>2. ASSUME NEW w \in Workers, Begin(w) \/ Continue(w)
      PROVE  Ordered'
  <2>1. WorkerStep(w)
    BY <1>2, WorkersStep
  <2>2. Steady
    <3>1. ASSUME Begin(w) PROVE KeepsReaders(w)
      BY <2>1, <3>1, BeginReaders
    <3>2. ASSUME Continue(w) PROVE KeepsReaders(w)
      BY <2>1, <3>2, DescentReaders, LeafReadersFit, LockLeafReaders, LeafReaders,
         SplitLeafReaders, ParentReaders, NewRootReaders, TopReaders, SplitParentReaders,
         BumpReaders, UnlockReaders DEF Continue, VInv
    <3> QED
      BY <1>2, <3>1, <3>2 DEF KeepsReaders
  <2>3. PICK lo, hi, top : Order(lo, hi, top)
    BY DEF Ordered
  <2>4. CASE Begin(w)
    BY <2>1, <2>2, <2>3, <2>4, BeginOrder DEF Ordered
  <2>5. CASE \/ ReadRoot(w) \/ ReadRootVersion(w) \/ IsRoot(w) \/ FoundLeaf(w)
             \/ FindChild(w) \/ ReadChildVersion(w) \/ CheckNodeLock(w)
             \/ CheckNodeVersion(w)
    <3>1. Order(lo, hi, top)'
      BY <2>1, <2>2, <2>3, <2>5, DescentOrder
    <3> QED
      BY <3>1 DEF Ordered
  <2>6. CASE \/ Reread(w) \/ FollowNext(w) \/ Search(w) \/ Read(w) \/ Copy(w) \/ CopyNext(w)
             \/ CheckLeafLock(w) \/ CheckLeafVersion(w) \/ ReadLeafVersion(w)
    <3>1. Order(lo, hi, top)'
      BY <2>1, <2>2, <2>3, <2>6, ReadOrder
    <3> QED
      BY <3>1 DEF Ordered
  <2>7. CASE \/ Lock(w) \/ CheckLocked(w) \/ ChangeRecord(w) \/ Overwrite(w) \/ Insert(w)
             \/ Link(w)
    <3>1. Order(lo, hi, top)'
      BY <2>1, <2>2, <2>3, <2>7, LockOrder, RecordOrder, InsertOrder, LinkOrder
    <3> QED
      BY <3>1 DEF Ordered
  <2>8. CASE \/ ReadParent(w) \/ LockParent(w) \/ CheckParent(w) \/ SetRoot(w) \/ Bump(w)
             \/ Unlock(w)
    <3>1. Order(lo, hi, top)'
      BY <2>1, <2>2, <2>3, <2>8, ParentOrder, SetRootOrder, BumpOrder, UnlockOrder
    <3> QED
      BY <3>1 DEF Ordered
  <2>9. CASE SplitLeaf(w) \/ NewRoot(w) \/ InsertParent(w) \/ SplitParent(w)
    BY <2>1, <2>2, <2>3, <2>9, SplitLeafOrder, NewRootOrder, InsertParentOrder,
       SplitParentOrder
  <2> QED
    BY <1>2, <2>4, <2>5, <2>6, <2>7, <2>8, <2>9 DEF Continue
<1> QED
  BY <1>1, <1>2 DEF Next, Finished

\* The keys of a node are within its range, whatever a split has still to link.
LEMMA KeysInRange ==
  ASSUME IInv, NEW lo, NEW hi, NEW top, Order(lo, hi, top),
         NEW n \in DOMAIN node, NEW k \in KeysIn(n)
  PROVE  /\ k \in Keys /\ k \in Nat /\ lo[n] \in Nat /\ hi[n] \in Nat /\ top[n] \in Nat
         /\ lo[n] <= k /\ Below(k, top[n]) /\ Below(k, hi[n])
<1>1. NodeOrdered(n, lo, hi, top) /\ lo[n] \in Nat /\ hi[n] \in Nat /\ top[n] \in Nat
  BY DEF Order, Bounds
<1>2. node[n].keys \in Seq(Keys)
  BY NodeFacts DEF IInv, Nodes
<1>3. PICK i \in 1..Len(node[n].keys) : k = node[n].keys[i]
  BY <1>2, RangeFacts DEF KeysIn
<1>4. k \in Keys /\ k \in Nat
  <2>1. k \in Keys
    BY <1>2, <1>3
  <2> QED
    BY <2>1, ConstantFacts
<1>5. lo[n] <= k /\ Below(k, top[n])
  BY <1>1, <1>3 DEF NodeOrdered, KeysFit
<1>6. CASE LeftHalf(n)
  <2>1. PICK w \in Workers : Pending(w) /\ th[w].n = n
    BY <1>6 DEF LeftHalf
  <2>2. top[n] = th[w].split /\ Below(th[w].split, hi[n])
    BY <2>1 DEF Order, Halves
  <2>3. th[w].split \in Nat /\ th[w].split # 0
    BY <2>1, PendingFacts, ConstantFacts
  <2> QED
    BY <1>1, <1>4, <1>5, <2>2, <2>3 DEF Below
<1>7. CASE ~LeftHalf(n)
  BY <1>1, <1>4, <1>5, <1>7 DEF NodeOrdered
<1> QED
  BY <1>1, <1>4, <1>5, <1>6, <1>7

\* What the parents, the list and the splits under way say makes the tree be in order.
LEMMA OrderedInOrder ==
  ASSUME IInv, VInv, Ordered
  PROVE  TreeInOrder
<1>1. PICK lo, hi, top : Order(lo, hi, top)
  BY DEF Ordered
<1>2. ASSUME NEW n \in DOMAIN node, ~node[n].locked,
             NEW i \in 1..(Len(node[n].keys) - 1)
      PROVE  node[n].keys[i] < node[n].keys[i + 1]
  <2>1. node[n].keys \in Seq(Keys)
    BY NodeFacts DEF IInv, Nodes
  <2>2. i \in 1..Len(node[n].keys) /\ i + 1 \in 1..Len(node[n].keys) /\ i < i + 1
    BY <2>1
  <2> QED
    BY <1>1, <2>2 DEF Order, NodeOrdered, KeysFit
<1>3. ASSUME NEW n \in DOMAIN node, ~node[n].locked, NEW i \in 1..Len(node[n].kids)
      PROVE  LET c == node[n].kids[i]
             IN  /\ node[c].parent = n
                 /\ i > 1 => \A k \in KeysIn(c) : k >= node[n].keys[i - 1]
                 /\ i <= Len(node[n].keys) => \A k \in KeysIn(c) : k < node[n].keys[i]
  <2>1. PICK c : c = node[n].kids[i]
    OBVIOUS
  <2>2. NodeOrdered(n, lo, hi, top) /\ NodeFine(node[n], DOMAIN node, Leaves)
    BY <1>1, NodeFacts DEF Order, IInv
  <2>3. ~node[n].leaf
    <3>1. CASE node[n].leaf
      <4>1. node[n].kids = <<>>
        BY <2>2, <3>1 DEF NodeOrdered
      <4> QED
        BY <4>1
    <3> QED
      BY <3>1
  <2>4. /\ Len(node[n].kids) = Len(node[n].keys) + 1 /\ c \in DOMAIN node
        /\ node[n].keys \in Seq(Keys)
    BY <2>1, <2>2, <2>3 DEF NodeFine, Nodes
  <2>5. i \in 1..Len(node[n].keys) + 1
    BY <2>4
  <2>6. /\ node[c].parent = n
        /\ lo[c] = IF i = 1 THEN lo[n] ELSE node[n].keys[i - 1]
        /\ hi[c] = IF i = Len(node[n].keys) + 1 THEN top[n] ELSE node[n].keys[i]
    BY <2>1, <2>2, <2>3, <2>5 DEF NodeOrdered, Laid
  <2>7. ASSUME NEW k \in KeysIn(c), i > 1 PROVE k >= node[n].keys[i - 1]
    <3>1. lo[c] = node[n].keys[i - 1] /\ lo[c] <= k /\ lo[c] \in Nat /\ k \in Nat
      BY <1>1, <2>4, <2>5, <2>6, <2>7, KeysInRange
    <3> QED
      BY <3>1
  <2>8. ASSUME NEW k \in KeysIn(c), i <= Len(node[n].keys) PROVE k < node[n].keys[i]
    <3>1. Below(k, hi[c])
      BY <1>1, <2>4, KeysInRange
    <3>2. hi[c] = node[n].keys[i] /\ hi[c] # 0
      BY <2>4, <2>5, <2>6, <2>8, ConstantFacts
    <3> QED
      BY <3>1, <3>2 DEF Below
  <2> QED
    BY <2>1, <2>6, <2>7, <2>8
<1>4. ASSUME NEW n \in Leaves, node[n].next # Null,
             NEW j \in KeysIn(n), NEW k \in KeysIn(node[n].next)
      PROVE  j < k
  <2>1. PICK m : m = node[n].next
    OBVIOUS
  <2>2. m \in Leaves /\ m \in DOMAIN node /\ n \in DOMAIN node /\ node[n].leaf
    BY <1>4, <2>1, NextFacts DEF IInv, Leaves
  <2>3. /\ j \in Nat /\ Below(j, top[n]) /\ Below(j, hi[n])
        /\ k \in Nat /\ lo[m] \in Nat /\ lo[m] <= k
    BY <1>1, <1>4, <2>1, <2>2, KeysInRange
  <2>4. CASE ~Unlisted(n)
    <3>1. Follows(hi[n], m, lo)
      BY <1>1, <2>1, <2>2, <2>4 DEF Order, NodeOrdered
    <3> QED
      BY <1>4, <2>1, <2>3, <3>1 DEF Follows, Below
  <2>5. CASE Unlisted(n)
    <3>1. PICK w \in Workers : Pending(w) /\ n = IF th[w].pc = "link" THEN th[w].sib
                                                 ELSE th[w].n
      BY <2>5 DEF Unlisted
    <3>2. Halves(w, lo, hi, top) /\ th[w].split \in Keys
      BY <1>1, <3>1, PendingFacts DEF Order
    <3>3. th[w].pc # "link" /\ n = th[w].n /\ m = th[w].sib
      BY <1>4, <2>1, <2>2, <3>1, <3>2 DEF Halves
    <3>4. top[n] = lo[m] /\ top[n] \in Keys
      BY <3>2, <3>3 DEF Halves
    <3>5. top[n] # 0
      BY <3>4, ConstantFacts
    <3> QED
      BY <2>3, <3>4, <3>5 DEF Below
  <2> QED
    BY <2>4, <2>5
<1> QED
  BY <1>2, <1>3, <1>4 DEF TreeInOrder

\* The parents, the list of the leaves and the workers of the splits under way agree on
\* one range for every node, and an insert is never below a node its key does not belong
\* below (xindex_buffer_impl.h:98-104, 154-213, 216-480).
THEOREM TreeOrdered == Spec => []Ordered
<1>1. Init => Ordered
  BY InitOrder
<1>2. IInv /\ VInv /\ Ordered /\ [Next]_vars => Ordered'
  BY OrderKept
<1> QED
  BY <1>1, <1>2, TreeInvariant, VersionsMove, PTL DEF Spec

\* What split_n_insert_leaf asserts of the tree holds of every node that nobody has
\* locked, and the leaves are in one ascending list, for every capacity, tree, number of
\* workers and script (xindex_buffer_impl.h:304-391, 482-521).
THEOREM TreeSorted == Spec => []TreeInOrder
<1>1. IInv /\ VInv /\ Ordered => TreeInOrder
  BY OrderedInOrder
<1> QED
  BY <1>1, TreeInvariant, VersionsMove, TreeOrdered, PTL
=============================================================================
