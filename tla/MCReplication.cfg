SPECIFICATION FairSpec
CONSTANTS
  a = a  b = b  c = c
  Replica = {a, b, c}
  NoDigest = NoDigest
  Sites <- Chambers
  MaxSeq = 1
  LastSeq = 6
  MaxLives = 1
INVARIANTS
  RecordsAreSound
PROPERTIES
  Converges
  GossipTerminates
  KeepsTheRecord
CHECK_DEADLOCK FALSE
