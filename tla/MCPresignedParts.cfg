SPECIFICATION Spec
CONSTANTS
  MaxFileSize = 40
  ChunkSize = 7
  MaxRequest = 45
INVARIANTS
  TypeOK
  PartsCoverFile
CHECK_DEADLOCK FALSE
