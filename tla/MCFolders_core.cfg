SPECIFICATION FairFolderSpec
CONSTANTS
  N = 4
  MaxItems = 2
  MaxFaults = 1
INVARIANTS
  FolderTypeOK
  UploadedInPlace
  UploadIsComplete
  DownloadIsComplete
  ExitWaits
PROPERTIES
  CommandEnds
CHECK_DEADLOCK FALSE
