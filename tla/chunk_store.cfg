SPECIFICATION Spec
CONSTANTS
  Chunk <- Two
  NoPos = NoPos
  None = None
  NoBlob = NoBlob
  StorageMode = "pg_raw"
  Faults = {"save", "generate", "coords", "crash"}
  CacheSize = 1
  Writer = {w1}
  Worker = {p1}
  PrefetchRadius = 0
  Requests <- Spanning
  Fragments = {"deflated", "plain", "unknown"}
  Stray <- AnySlot
  Overlap = FALSE
  MaxWrites = 3
  MaxTasks = 0
INVARIANTS
  TypeOK
  Isolation
  Durable
  ReadFresh
  CacheCoherent
PROPERTIES
  IsChunkStore
CHECK_DEADLOCK TRUE
