SPECIFICATION DeferredSpec
CONSTANTS
  Files <- MCFiles
  Under <- MCUnder
  Opaque = {"w"}
  Programs <- OverlaidPrograms
  Parallel = 2
CHECK_DEADLOCK FALSE
INVARIANT
  FinishedAsInOrder
