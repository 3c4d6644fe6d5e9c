SPECIFICATION MCSpec
CONSTANTS
  IntMax = 100
  Key = {k1, k2}
  VersionArg <- MCVersionArg
  MAX_BUCKET_COUNT = 3
  SAVE_HTREE_LIMIT = 1
  check_file_size = TRUE
  MaxVersion = 2
  MaxSets = 3
  MaxCrashes = 2

SYMMETRY Symmetry
CHECK_DEADLOCK FALSE
INVARIANTS IndexIsRecovered NeverExits RefusedOnlyIfExposed
