SPECIFICATION FairFolderSpec
CONSTANTS
  N = 3
  MaxItems = 1
  MaxFaults = 0
PROPERTY EverythingIsRetrieved
CHECK_DEADLOCK FALSE
