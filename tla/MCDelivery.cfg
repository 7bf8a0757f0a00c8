SPECIFICATION DeliverySpec
CONSTANTS
  MaxWrites = 3
  MaxCloses = 2
  MaxFailures = 2
  Networks = {"calm", "harsh"}
  d1 = d1
  d2 = d2
  d3 = d3
  d4 = d4
  Device = {d1, d2, d3, d4}
  Meshes <- AllMeshes
  Browsers <- AllBrowsers
  Totals = {1, 2}
  PttMemory = 2
  MaxIncoming = 0
  MaxPresses = 3
  MaxCuts = 1
INVARIANTS
  QueuesAreKept
  MicFollowsTheHand
  ClipsAreHeardOnce
PROPERTIES
  RelayCatchesUp
  TheAirFallsSilent
CHECK_DEADLOCK FALSE
