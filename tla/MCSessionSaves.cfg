CONSTANTS
  NNames = 2
  MaxId = 3
  MaxCreate = 1
  MaxFile = 1
  MaxFh = 1
  MaxVer = 2
  Workers = {w1, w2}
  PathTruncate = TRUE
  Elsewhere = TRUE
  UploadFaults = TRUE
SPECIFICATION Spec
INVARIANTS TypeOK TargetIsBase PendingIsBuffered
CHECK_DEADLOCK FALSE
SYMMETRY Symmetry
