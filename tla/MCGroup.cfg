SPECIFICATION Spec
CONSTANTS
  Workers = {w1, w2}
  Vals = {v1, v2}
  Absent = Absent
  Keys = {1, 2}
  GroupIds = {1, 2, 3, 4, 5}
  StoreIds = {1, 2, 3, 4, 5, 6}
  Scenarios <- Tour
INVARIANTS
  TypeOK
  NoDuplicateKey
  NoDangling
PROPERTIES
  ImplementsMap
SYMMETRY Symmetry
