CONSTANTS
  NNames = 1
  MaxId = 3
  MaxCreate = 1
  MaxFile = 2
  MaxFh = 2
  MaxVer = 2
  Workers = {w1, w2}
  PathTruncate = FALSE
  Elsewhere = FALSE
  UploadFaults = FALSE
SPECIFICATION FairSpec
INVARIANTS HandlesCounted NothingUnsavedIsDropped
PROPERTIES RequestsEnd
CHECK_DEADLOCK FALSE
