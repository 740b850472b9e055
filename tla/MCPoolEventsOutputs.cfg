SPECIFICATION MCSpec
CONSTANTS
  Tasks = {1, 2, 3}
  Wakers = {w1, w2}
  Slots = {"device"}
  CpuSlots = 2
  MemoryBytes = 3
  SlotLimits <- MCSlotLimits
  DefaultMemory = 0
  GenericMemory = 2
  Requests <- MCRequests
  MaxClones = 2
  None = None
  OrdinaryCapacity = 4
  MaxEventsPerBatch = 2
  MaxEventBytes = 2
  MaxBatchBytes = 3
  MaxUnackedBytes = 2
  LogFragments = 4
  GapBytes = 2
  BusCapacity = 5
  MaxAttempts = 3
  HasShutdown = FALSE
  HasCancel = FALSE
  MaxPublished = 4
  MaxBreaks = 2
  MaxSeq = 4
  Payloads = {"event", "wide", "big", "log"}
  NoValue = NoValue
  Files <- MCFiles
  Under <- MCUnder
  Opaque = {"w"}
  Programs <- MCPrograms
  Parallel = 2
  Graphs <- MCGraphs
  Plain = {0}
  MaxInFlight = 2
CHECK_DEADLOCK TRUE
INVARIANTS
  NeverOversubscribed
  Conservation
  NeverDelayed
  NoLostWakeup
  Accounted
  OnlyRealLoss
  InputsAsProduced
  FinishedAsInOrder
  ReadersServed
