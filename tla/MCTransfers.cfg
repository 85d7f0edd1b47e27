SPECIFICATION FairSpec
CONSTANTS
  Ids = {"x", "y"}
  Contents <- FilesOf
  ChunkBlocks = 2
  Ttl = 1
  MaxTime = 2
INVARIANTS TransferTypeOK ServedIsTheExport RowsMatchFiles
PROPERTIES UploadEnds ExpiredGo
CHECK_DEADLOCK FALSE
