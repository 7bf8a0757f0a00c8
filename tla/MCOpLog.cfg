SPECIFICATION Spec
CONSTANTS
  m1 = m1  k1 = k1  k2 = k2  a1 = a1  a2 = a2
  Member = {m1}
  Kid = {k1, k2}
  NoKid = NoKid
  NoSeat = NoSeat
  DormantFor = 1
  MaxTime = 4
  Actor = {a1, a2}
  KeyOf <- KeyOfActor
  Me = a1
  OpKinds <- SeatKinds
  WorldSize = 4
  Prunes = TRUE
INVARIANTS
  LogShowsItsGaps
  OrdinaryOpsShowTrue
CHECK_DEADLOCK FALSE
