SPECIFICATION FairSpec
CONSTANTS
  Device = {1, 2, 3}
  Starts <- MCNewcomer
  MaxInvites = 1
PROPERTIES NewcomersAreHeard
CHECK_DEADLOCK FALSE
