SPECIFICATION Spec
CONSTANTS
  Chunk <- Two
  NoPos = NoPos
  None = None
  NoBlob = NoBlob
  StorageMode = "pg_raw"
  Faults = {}
  CacheSize = 1
  Writer = {w1}
  Worker = {p1}
  PrefetchRadius = 0
  Requests <- Single
  Fragments = {"deflated", "plain", "unknown"}
  Stray = {}
  Overlap = FALSE
  MaxWrites = 1
  MaxTasks = 0
INVARIANTS
  OnlyWholeChunksStored
CHECK_DEADLOCK TRUE
