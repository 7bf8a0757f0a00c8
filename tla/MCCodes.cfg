SPECIFICATION CodesSpec
CONSTANTS
  Letters <- AllLetters
  Blocks <- SomeBlocks
  Versions <- AllVersions
  MaxStrokes = 3
  Keys = {}
  Texts = {}
  Tasks <- AllTasks
  Builds <- AllBuilds
  Shipped <- Ships
  Endpoints <- AllEndpoints
  Pins <- AllPins
  Bodies <- AllBodies
  Ops <- AllOps
  Files <- AllFiles
  MaxHops = 2
  MaxSteps = 4
  MaxOffered = 2
  MaxLeaves = 4
  MaxKeys = 3
  MaxDepth = 3
  OpsPerMessage = 2
  MaxTaken = 2
  Descriptions <- AllDescriptions
  Cards <- AllCards
  MaxCandidates = 6
INVARIANTS ReadsWhatWasPrinted WidthsFit SealedBytesHold RecordOutlivesBuilds CodesConnect
CHECK_DEADLOCK FALSE
