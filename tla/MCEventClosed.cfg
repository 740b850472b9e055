SPECIFICATION EventFairSpec
CONSTANTS
  OrdinaryCapacity = 4
  MaxEventsPerBatch = 2
  MaxEventBytes = 1
  MaxBatchBytes = 3
  MaxUnackedBytes = 9
  LogFragments = 4
  GapBytes = 2
  BusCapacity = 1
  MaxAttempts = 1
  HasShutdown = FALSE
  HasCancel = FALSE
  MaxPublished = 2
  MaxBreaks = 0
  MaxSeq = 0
  Payloads = {"event"}
  NoValue = NoValue
CHECK_DEADLOCK FALSE
PROPERTIES
  ShutsDownOnceClosed
