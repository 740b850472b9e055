SPECIFICATION MCFairSpec
CONSTANTS
  OrdinaryCapacity = 2
  MaxEventsPerBatch = 2
  MaxEventBytes = 2
  MaxBatchBytes = 2
  MaxUnackedBytes = 6
  LogFragments = 3
  GapBytes = 2
  BusCapacity = 1
  MaxAttempts = 2
  HasShutdown = TRUE
  HasCancel = TRUE
  MaxPublished = 4
  MaxBreaks = 1
  MaxSeq = 0
  Payloads = {"event"}
  NoValue = NoValue
CHECK_DEADLOCK FALSE
INVARIANTS
  OkMeansDelivered
  CompletionKept
PROPERTIES
  StartedRunShutsDown
