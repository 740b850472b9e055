SPECIFICATION Spec
CONSTANTS
  Nodes <- MCNodes
  Actions <- MCNodes
  Plans <- Flat
  MaxInFlight = 3
  Mixes <- TuistMix
  Budgeted = {}
  Capacity <- Ample
  Input = 1
  Restored = 0
  Output <- SmallOutput
  MaxArchive = 1
  Capture = 1
  MaxFaults = 1
CHECK_DEADLOCK FALSE
INVARIANTS
  WritersCovered
