SPECIFICATION Spec
CONSTANTS
  CacheSize = 1
  NoBlob = NoBlob
  Chunk = {"c1", "c2"}
  generators <- Generators
  storage_configs <- StorageConfigs
  Spiral <- Reads
  Stored = {"c2"}
  Lingering = 1
INVARIANTS
  NeverOvercounts
  OwnNumbers
  AllReported
PROPERTIES
  SuiteEnds
CHECK_DEADLOCK FALSE
