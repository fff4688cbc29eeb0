CONSTANTS
  w1 = w1
  w2 = w2
  w3 = w3
  a = a
  b = b
  Absent = Absent
  Removed = Removed
  Capacity = 3
  Keys = {1,2,3,4,5,6,7,8,9,10}
  Workers <- MCWorkers
  Vals <- MCVals
  Scenarios <- MCScenarios
SPECIFICATION Spec
INVARIANTS
  TypeOK
  TreeInOrder
  LocksOwned
  ReadersRight
PROPERTIES
  ImplementsMap
  CallsReturn
