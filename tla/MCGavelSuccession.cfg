SPECIFICATION HeirSpec
CONSTANTS
  k1 = k1  k2 = k2  k3 = k3
  m1 = m1  m2 = m2  m3 = m3
  w1 = w1  w2 = w2
  Member = {m1, m2, m3}
  Kid = {k1, k2, k3}
  Device = {k1, k2, k3}
  Word = {w1, w2}
  NoKid = NoKid
  NoSeat = NoSeat
  NoPass = NoPass
  DormantFor = 1
  MaxTime = 2
  Knows <- KnowsOf
  Bases <- Chambers
  MaxOps = 6
PROPERTY
  SuccessionEndsWithAChair
CHECK_DEADLOCK FALSE
