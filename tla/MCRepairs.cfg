SPECIFICATION MCFairSpec
CONSTANTS
  Ops = {o1, o2}
  Procs = {p1}
  Creds = {c1, c2}
  MaxRecords = 2
  MaxEntries = 6
  RecordBudget = 1
  MaxFaults = 1
  FaultKinds = {"crash"}
  Free = Free
  Restorers = {r1, r2}
  Producers = {a1, a2, a3}
  Orphans = {x1}
  Wanted <- MCWanted
  InputsOf <- MCInputsOf
  MaxDepth = 3
  Executions = 2
  Permits = 1
  MaxLosses = 1
  a1 = a1
  a2 = a2
  a3 = a3
  x1 = x1
CHECK_DEADLOCK FALSE
PROPERTIES
  LeftBehindIsRepaired
  RestoresEnd
