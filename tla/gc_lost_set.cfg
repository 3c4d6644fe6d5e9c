SPECIFICATION Spec
CONSTANTS
  ka = ka
  kb = kb
  kc = kc
  Key = {ka, kb}
  Reader = {r1}
  Allow = {"update"}
  Stored <- MCStoredTwo
  MaxBucket = 4
  MaxSets = 2
  MaxRuns = 1
  max_bucket_size = 2
  None = None
CHECK_DEADLOCK FALSE
INVARIANT NothingLost
