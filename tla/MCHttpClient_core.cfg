SPECIFICATION FairHttpSpec
CONSTANTS
  Exec = {e1, e2}
  Chunks = 2
  MaxRetries = 1
  MaxFaults = 1
INVARIANTS
  HttpTypeOK
  EffectsAreKnown
  ContentIsWhole
PROPERTIES
  NothingAfterOk
  NothingHangs
CHECK_DEADLOCK FALSE
