SPECIFICATION MCFairSpec
CONSTANTS
  Tasks = {t1, t2, t3}
  Wakers = {w1}
  Slots = {"device"}
  CpuSlots = 2
  MemoryBytes = 0
  SlotLimits <- MCSlotLimits
  DefaultMemory = 0
  GenericMemory = 2
  Requests <- FairRequests
  MaxClones = 1
  None = None
  Callers = {c1, c2}
  FirstCooldown = 1
  MaxCooldown = 3
  FailureCap = 3
  Top = 4
  LossReasons = {"overflow", "oversized"}
CHECK_DEADLOCK FALSE
INVARIANTS
  OneOutcome
PROPERTIES
  EventuallyAdmitted
  CallersReturn
  ImplementsLossSet
