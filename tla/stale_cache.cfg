SPECIFICATION Spec
CONSTANTS
  Chunk <- Two
  NoPos = NoPos
  None = None
  NoBlob = NoBlob
  StorageMode = "pg_raw"
  Faults = {}
  CacheSize = 1
  Writer = {w1}
  Worker = {p1}
  PrefetchRadius = 0
  Requests <- Single
  Fragments = {}
  Stray = {}
  Overlap = TRUE
  MaxWrites = 1
  MaxTasks = 0
INVARIANTS
  ReadFresh
CHECK_DEADLOCK TRUE
