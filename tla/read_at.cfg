SPECIFICATION FairSpec
CONSTANTS
  SECTOR_BYTES = 2
  HEADER_BYTES = 4
  SECTORS_PER_CHUNK = 2
  Side = 2
  BlobLengths = {1, 4, 6}
  Failed = Failed
  MaxOffset = 22
  MaxSize = 9
INVARIANTS
  TypeOK
  AnswersTheFile
  OversizeStaysRight
PROPERTIES
  Terminates
CHECK_DEADLOCK FALSE
