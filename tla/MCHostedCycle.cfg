SPECIFICATION Spec
CONSTANTS
  Nodes <- MCNodes
  Actions <- MCNodes
  Plans <- Flat
  MaxInFlight = 3
  Mixes <- DockerMix
  Budgeted = {}
  Capacity <- Ample
  Input = 1
  Restored = 1
  Output <- SmallOutput
  MaxArchive = 1
  Capture = 1
  MaxFaults = 0
CHECK_DEADLOCK FALSE
INVARIANTS
  NoAcquisitionCycle
