SPECIFICATION FilesSpec
CONSTANTS
  a = a
  b = b
  Jobs = {j1}
  Requests = {r1, r2}
  Cleaners = {c1}
  Contents = {a, b}
  Size <- MCSize
  File <- MCFile
  ChunkSize = 2
  MaxChunks = 2
  MaxRuns = 2
  ShortTicks = 1
  FailedTicks = 2
  JobTicks = 3
  None = None
INVARIANTS
  NoOrphans
CHECK_DEADLOCK FALSE
