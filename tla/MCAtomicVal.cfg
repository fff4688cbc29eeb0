SPECIFICATION Spec
CONSTANTS
  Workers = {w1, w2}
  Vals = {v1, v2}
  Absent = Absent
  Addr = Addr
  MaxVersion = 3
INVARIANTS
  TypeOK
  FollowsPointer
  MutualExclusion
  LockOwned
PROPERTIES
  ImplementsCell
SYMMETRY Symmetry
