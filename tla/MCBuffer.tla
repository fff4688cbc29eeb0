------------------------------ MODULE MCBuffer ------------------------------
(***************************************************************************)
(* Instances of BufferTree with nodes of three keys.                       *)
(***************************************************************************)
EXTENDS BufferTree

CONSTANTS w1, w2, w3, a, b

MCWorkers == {w1, w2, w3}
MCVals == {a, b}

Calls(s1, s2, s3) == w1 :> s1 @@ w2 :> s2 @@ w3 :> s3
Plan(nodes, top, script) == [nodes |-> nodes, root |-> top, script |-> script]

A(n) == [i \in 1..n |-> a]

\* A buffer as its constructor leaves it, one that has no room left, one with a
\* removed record.
New == <<Leaf(<<>>, <<>>, Null, Null)>>
FullLeaf == <<Leaf(<<2, 4, 6>>, A(3), Null, Null)>>
OneRemoved == <<Leaf(<<2, 4>>, <<a, Removed>>, Null, Null)>>

\* Two leaves, the first of them full.
Pair ==
  <<Leaf(<<1, 2, 4>>, A(3), 2, 3), Leaf(<<6>>, A(1), Null, 3),
    Internal(<<6>>, <<1, 2>>, Null)>>

\* Four leaves under a root that is full; the outer leaves are full as well.
Wide ==
  <<Leaf(<<1, 2, 4>>, A(3), 2, 5), Leaf(<<5>>, A(1), 3, 5),
    Leaf(<<6>>, A(1), 4, 5), Leaf(<<7, 9, 10>>, A(3), Null, 5),
    Internal(<<5, 6, 7>>, <<1, 2, 3, 4>>, Null)>>

MCScenarios == {
  \* The first calls on a new buffer.
  Plan(New, 1, Calls(<<Map!Put(2, a), Map!Remove(2)>>, <<Map!Put(2, b), Map!Get(2)>>, <<>>)),
  \* The root is a leaf and is split, in all places; it was read before.
  Plan(FullLeaf, 1, Calls(<<Map!Put(3, b)>>, <<Map!Put(5, b)>>, <<Map!Get(6)>>)),
  Plan(FullLeaf, 1, Calls(<<Map!Put(7, b)>>, <<Map!Get(6), Map!Get(7)>>, <<>>)),
  Plan(FullLeaf, 1, Calls(<<Map!Put(1, b)>>, <<Map!Update(4, b), Map!Remove(6)>>, <<>>)),
  \* A removed record is inserted again.
  Plan(OneRemoved, 1, Calls(<<Map!Put(4, b), Map!Remove(4)>>,
                            <<Map!Get(4), Map!Update(4, a)>>, <<>>)),
  Plan(OneRemoved, 1, Calls(<<Map!Put(4, b)>>, <<Map!Put(4, a)>>, <<Map!Get(4)>>)),
  \* A scan passes leaves that are split.
  Plan(Pair, 3, Calls(<<Map!Put(3, b), Map!Put(5, b)>>, <<Map!Scan(2)>>, <<>>)),
  Plan(Pair, 3, Calls(<<Map!Remove(6), Map!Put(6, b)>>, <<Map!Scan(4)>>, <<>>)),
  \* The root is split, by one of two inserts, under a reader.
  Plan(Wide, 5, Calls(<<Map!Put(3, b)>>, <<Map!Put(8, b)>>, <<>>)),
  Plan(Wide, 5, Calls(<<Map!Put(8, b)>>, <<Map!Get(10), Map!Put(3, b)>>, <<>>)),
  Plan(Wide, 5, Calls(<<Map!Put(8, b)>>, <<Map!Scan(9)>>, <<>>))
  }
=============================================================================
