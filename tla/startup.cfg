SPECIFICATION StartSpec
CONSTANTS
  SECTOR_BYTES = 4096
  HEADER_BYTES = 8192
  SECTORS_PER_CHUNK = 64
  Side = 32
  RETRIES = 30
INVARIANTS
  StartTypeOK
  HeaderAgreesWithOffsets
  ServesCompletely
  MountedWhileServing
  StoppedClean
  ReportedInTime
PROPERTIES
  ConnectingEnds
  StopEnds
CHECK_DEADLOCK TRUE
