SPECIFICATION FairFuseSpec
CONSTANTS
  Chunk <- Places
  NoPos = NoPos
  None = None
  NoBlob = NoBlob
  StorageMode = "pg_jsonb"
  Faults = {"load", "save", "encode", "crash"}
  CacheSize = 1
  Writer = {w1}
  Worker = {p1}
  PrefetchRadius = 0
  Requests <- Singles
  Fragments = {}
  Stray <- AnySlot
  Overlap = TRUE
  MaxWrites = 1
  MaxTasks = 0
  SECTOR_BYTES = 4096
  HEADER_BYTES = 8192
  SECTORS_PER_CHUNK = 64
  Side = 32
  OFFSET = 8000000
  FIELD = 16777216
  Name <- Names
  fnv1a_hash <- Hashes
  NoRegion = NoRegion
  Client = {t1, t2}
  Nobody = Nobody
  NotNumber = NotNumber
INVARIANTS
  Durable
  OneNumberPerRegion
  HandlersAgree
  ListingInOrder
  ReachesItsChunk
  EveryCallInOnePlace
PROPERTIES
  CallsAnswered
CHECK_DEADLOCK TRUE
