SPECIFICATION MCSpec
CONSTANTS
  Ops = {o1, o2}
  Procs = {p1, p2}
  Creds = {c1, c2}
  MaxRecords = 1
  MaxEntries = 9
  RecordBudget = 1
  MaxFaults = 2
  FaultKinds = {"call", "crash", "machine"}
  Free = Free
  Workers = {w1, w2}
  Watcher = reporter
  SLOTS = 2
  Pids = {g1, g2}
  MaxSpawns = 2
  MaxSignals = 2
  MaxRuns = 1
SYMMETRY Symmetry
CHECK_DEADLOCK FALSE
INVARIANTS
  Tracked
  OneOwner
  KeptWhileUsed
  NoOrphans
  NeverStray
PROPERTIES
  WithinCapacity
