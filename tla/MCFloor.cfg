SPECIFICATION SittingSpec
CONSTANTS
  d1 = d1  d2 = d2  d3 = d3
  m1 = m1  m2 = m2  m3 = m3  m4 = m4
  v1 = v1  v2 = v2  b1 = b1  b2 = b2
  p1 = p1  p2 = p2  p3 = p3  p4 = p4  p5 = p5  p6 = p6  h1 = h1
  Device = {d1, d2, d3}
  Member = {m1, m2, m3, m4}
  Vote = {v1, v2}
  Bill = {b1, b2}
  Paper = {p1, p2, p3, p4, p5, p6}
  Share = {h1}
  NoSeat = NoSeat
  SeatOf <- Seats
  Gavel = {d1, d2}
  Demo = {v1, b1, p1}
  Newcomer = {m4}
  TableOf <- Kinds
  Threshold <- Thresholds
  MaxOps = 6
INVARIANTS
  VotesCountRight
  RecordsStandAsLeft
PROPERTY
  BillsGoBackOnlyByAccident
CHECK_DEADLOCK FALSE
