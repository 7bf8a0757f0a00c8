SPECIFICATION VisitedSpec
CONSTANTS
  MaxTries = 2
  Calls = {1, 2, 3, 4}
  MaxSignals = 4
  MaxTroubles = 3
  Rosters <- Remembered
INVARIANTS
  AttemptsEndInLinks
PROPERTIES
  WhatWorksIsLeftAlone
  LiveChannelIsRebuilt
CHECK_DEADLOCK FALSE
