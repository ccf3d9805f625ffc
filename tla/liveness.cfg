SPECIFICATION FairSpec
CONSTANTS
  Chunk <- Two
  NoPos = NoPos
  None = None
  NoBlob = NoBlob
  StorageMode = "pg_raw"
  Faults = {"load", "save", "commit", "generate"}
  CacheSize = 1
  Writer = {w1}
  Worker = {p1, p2}
  PrefetchRadius = 1
  Requests <- Single
  Fragments = {}
  Stray = {}
  Overlap = TRUE
  MaxWrites = 1
  MaxTasks = 2
PROPERTIES
  ReadReplied
  WriteAcked
  PrefetchDrains
CHECK_DEADLOCK TRUE
