SPECIFICATION MCFairSpec
CONSTANTS
  Nodes <- MCNodes
  Actions <- MCNodes
  Plans <- MCDeps
  MaxInFlight = 2
  Mixes <- MCMixes
  Budgeted = {0, 1}
  Capacity <- Scarce
  Input = 1
  Restored = 0
  Output <- MCOutput
  MaxArchive = 1
  Capture = 1
  MaxFaults = 2
  Workers = {w1}
  Watcher = reporter
  SLOTS = 1
  Pids = {g1}
  MaxSpawns = 2
  MaxSignals = 2
  MaxRuns = 1
CHECK_DEADLOCK FALSE
INVARIANTS
  DependenciesFirst
  NeverPanics
  WritersCovered
  MachinesWithinQuota
PROPERTIES
  PlanReturns
  PermitsComeBack
  SignalHeeded
