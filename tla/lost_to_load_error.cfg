SPECIFICATION Spec
CONSTANTS
  Chunk <- Two
  NoPos = NoPos
  None = None
  NoBlob = NoBlob
  StorageMode = "pg_raw"
  Faults = {"load"}
  CacheSize = 1
  Writer = {w1}
  Worker = {p1, p2}
  PrefetchRadius = 1
  Requests <- Single
  Fragments = {}
  Stray = {}
  Overlap = TRUE
  MaxWrites = 1
  MaxTasks = 2
INVARIANTS
  DurableUnlessRaced
CHECK_DEADLOCK TRUE
