SPECIFICATION StorageSpec
CHECK_DEADLOCK FALSE
CONSTANTS
  n_fatent = 8
  SS = 2
  FatPer = 3
  DirPer = 1
  MaxIndex = 8
  Points = 3
  Lines = 2
  LogLine = 3
  MaxCrashes = 0
  MaxErrors = 0
  MaxAccess = 12
  Alone = FALSE
INVARIANTS
  PointStored
