SPECIFICATION MCSpec
CONSTANTS
  r1 = r1
  r2 = r2
  a1 = a1
  a2 = a2
  b1 = b1
  b2 = b2
  b3 = b3
  b4 = b4
  Runs = {r1, r2}
  Actions = {a1, a2}
  NPaths = 2
  Blobs = {b1, b2, b3, b4}
  ActionOf <- MCActionOf
  Produced <- MCProduced
  Size <- MCSize
  MaxBytes = 3
  CapBytes = 7
  MirrorLimit = 2
  Providers = {"local", "tuist"}
  Seeds = {a1, a2}
  FaultKinds = {"offline", "interrupt", "forget", "evict", "write"}
  MaxFaults = 1
  MaxPasses = 1
  None = None
  s2 = s2
  v1 = v1
  Sources = {s1, s2}
  Targets = {t1}
  Contents = {v1, v2, Absent}
  Absent = Absent
  Foreign = Foreign
  Undeclared = Undeclared
  Reads <- MCReads
  MaxJournal = 1
  FenceAttempts = 2
  MaxBuilds = 3
  MaxWrites = 2
  MaxMishaps = 1
  Nothing = Nothing
  Unknown = Unknown
  Asks <- MCAsks
  Ways <- MCWays
  BlobBytes <- MCBlobBytes
  BatchLimit = 2
  MAX_PENDING = 2
  Transfers = 1
  MaxUpsets = 2
SYMMETRY Symmetry
CHECK_DEADLOCK FALSE
INVARIANTS
  WholeOrUntouched
  OwnersGoFirst
  EvictionPolicy
  PublishedIsComplete
  SourcesHold
  OutputsHold
  UndisturbedHit
  OneTransfer
  NoReaderStuck
