------------------------------ MODULE MCGroup ------------------------------
(* Scenarios for XIndexGroup.  Maintenance treats keys independently except  *)
(* for the choice of the groups and of the pivot.  The scenarios are closed  *)
(* under permutations of workers and values.                                 *)
EXTENDS XIndexGroup, TLC

Puts(k, V) == {Map!Put(k, v) : v \in V}
Writes(k, V) == Puts(k, V) \cup {Map!Remove(k)}
Pair(w, C, D) == [x \in Workers |-> IF x = w THEN C ELSE D]

\* One group and in effect one key.  One worker makes any calls, the other puts.
Compacted == {
  [script |-> Pair(w, Writes(1, Vals) \cup {Map!Get(1)}, Puts(1, Vals)),
   kinds |-> {"compact"}, slot0 |-> <<1, 1>>,
   loads |-> <<Vals, {Absent}>>,
   groups |-> 1..2, stores |-> 1..4] : w \in Workers}

\* Model replacement between compactions.
Remodelled == {
  [script |-> Pair(w, {Map!Get(1), Map!Remove(1)}, Puts(1, {v})),
   kinds |-> {"compact", "model"}, slot0 |-> <<1, 1>>,
   loads |-> <<{v}, {Absent}>>,
   groups |-> 1..2, stores |-> 1..4] : w \in Workers, v \in Vals}

\* Two groups of one key each.  Key 2 comes and goes in the second group while it
\* is read; key 1 is updated in the first.
Merged == {
  [script |-> Pair(w, Puts(1, {v}) \cup {Map!Get(2)}, Writes(2, {v})),
   kinds |-> {"merge"}, slot0 |-> <<1, 2>>,
   loads |-> <<{v}, {v}>>,
   groups |-> 1..3, stores |-> 1..6] : w \in Workers, v \in Vals}

\* A group is split while one worker writes key 1 and the other reads it: the
\* testbed's threads insert disjoint sets of keys.  Whether key 2 is loaded
\* decides if key 1 falls to the left or to the right part.
Split == {
  [script |-> Pair(w, Writes(1, Vals), {Map!Get(1)}),
   kinds |-> {"split"}, slot0 |-> <<1, 1>>,
   loads |-> <<Vals \cup {Absent}, {v, Absent}>>,
   groups |-> 1..5, stores |-> 1..6] : w \in Workers, v \in Vals}

\* A group is split while two workers put the same key.
SplitRace == {
  [script |-> Pair(w, Puts(1, {v}), Puts(1, {v})),
   kinds |-> {"split"}, slot0 |-> <<1, 1>>,
   loads |-> <<{Absent}, {v}>>,
   groups |-> 1..5, stores |-> 1..6] : w \in Workers, v \in Vals}

\* A group is compacted while one worker scans it and the other inserts into it.
\* No key is removed: the testbed never does.
Scanned == {
  [script |-> Pair(w, {Map!Scan(1)}, Puts(2, Vals \ {v})),
   kinds |-> {"compact"}, slot0 |-> <<1, 1>>,
   loads |-> <<{v}, {v, Absent}>>,
   groups |-> 1..2, stores |-> 1..4] : w \in Workers, v \in Vals}

Tour == Compacted \cup Remodelled \cup Merged \cup Split \cup Scanned
Symmetry == Permutations(Workers) \cup Permutations(Vals)
=============================================================================
