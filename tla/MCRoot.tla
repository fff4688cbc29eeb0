------------------------------- MODULE MCRoot -------------------------------
(* One worker: workers share nothing here but the barriers.  Four keys and   *)
(* two adjusters: with four groups each adjuster has two neighbours to merge, *)
(* with one group the first adjuster has no slot at all.                      *)
EXTENDS XIndexRoot
G(p, K) == [pivot |-> p, keys |-> K]
Four == <<G(1, {1}), G(2, {2}), G(3, {3}), G(4, {4})>>
Two == <<G(1, {1, 2}), G(3, {3, 4})>>
One == <<G(1, Keys)>>
Low == <<G(2, {1, 2}), G(3, {3, 4})>>
Points == {Put(1), Get(2), Get(3), Put(4)}
S(g, kinds, calls, class) ==
  [groups |-> g, kinds |-> kinds, calls |-> calls, class |-> class]

\* Merges within and across the adjusters' ranges; splits whose parts a later
\* round merges; scans across splits; keys below the first pivot; compaction and
\* models under a put that meets frozen buffers and a scan.
Tour == {
  S(Four, {"merge"}, Points, "BinarySearch"),
  S(Two, {"split", "merge"}, Points, "ExponentialSearch"),
  S(One, {"split"}, {Scan(2, 4)}, "ExponentialSearch"),
  S(Low, {"compact", "merge"}, {Get(1), Put(2), Get(3)}, "LinearSearch"),
  S(Two, {"compact", "model"}, {Put(1), Scan(1, 4)}, "BinarySearch"),
  S(Two, {"split"}, {Scan(1, 3), Scan(3, 4)}, "BinarySearch")}

\* A root is replaced while a worker looks up a key.
NewRoot == {S(Two, {"split"}, {Get(2)}, "ExponentialSearch")}

\* Two groups are merged while a worker scans both.
MergedScan == {S(Four, {"merge"}, {Scan(3, 4)}, "ExponentialSearch")}

\* One group; most keys are below its pivot and come to its array by compaction.
BelowPivot == {S(<<G(4, Keys)>>, {"compact", "split"}, {Get(3)},
                 "ExponentialSearch")}
=============================================================================
