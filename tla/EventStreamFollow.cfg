SPECIFICATION StreamFairSpec
CONSTANTS
  Readers = {r1}
  MaxRows = 6
INVARIANTS
  InOrder
PROPERTIES
  FollowersCatchUp
CHECK_DEADLOCK FALSE
