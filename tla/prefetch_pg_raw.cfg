SPECIFICATION Spec
CONSTANTS
  Chunk <- Two
  NoPos = NoPos
  None = None
  NoBlob = NoBlob
  StorageMode = "pg_raw"
  Faults = {"save", "generate", "crash"}
  CacheSize = 1
  Writer = {w1, w2}
  Worker = {p1, p2}
  PrefetchRadius = 1
  Requests <- Single
  Fragments = {}
  Stray = {}
  Overlap = TRUE
  MaxWrites = 2
  MaxTasks = 2
SYMMETRY Threads
INVARIANTS
  CacheBounded
  NoPhantom
  DurableUnlessRaced
PROPERTIES
  NoRevert
CHECK_DEADLOCK TRUE
