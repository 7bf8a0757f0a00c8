SPECIFICATION FairSpec
CONSTANTS
  Device = {1, 2, 3}
  Starts <- MCStarts
  MaxInvites = 2
INVARIANTS RoomsStayApart
PROPERTIES RepliesConnect HeardIsHeld
CHECK_DEADLOCK FALSE
