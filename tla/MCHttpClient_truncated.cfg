SPECIFICATION HttpSpec
CONSTANTS
  Exec = {e1}
  Chunks = 2
  MaxRetries = 1
  MaxFaults = 1
INVARIANT UploadIsWhole
CHECK_DEADLOCK FALSE
