SPECIFICATION Spec
CONSTANTS
  Replica = {r1, r2}
  CountCap = 2
  Skew = 1
  Future = 2
  Past = 1
  Floor = 1
  Latest = 4
  MaxWall = 3
  MaxStamps = 3
SYMMETRY Symmetry
INVARIANTS
  ClockFollowsTheNear
  NoRunaway
PROPERTIES
  OwnStampsRise
CHECK_DEADLOCK FALSE
