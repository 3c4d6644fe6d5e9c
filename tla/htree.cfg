SPECIFICATION Spec
CONSTANTS
  k1 = k1
  k2 = k2
  k3 = k3
  k4 = k4
  k5 = k5
  NULL = NULL
  Key = {k1, k2, k3, k4, k5}
  KeyHash <- MCKeyHash
  ValueHash = {1}
  BUCKET_SIZE = 2
  SPLIT_LIMIT = 1
  MAX_DEPTH = 3
  TreeDepth = 0
  HashRange = 65536
  ListLimit = 5
  Dir <- MCDir
  PrefixSets <- MCPrefixSets
SYMMETRY Symmetry
INVARIANTS LookupIsLast CachesAgree GrownSameHash SecondListIsComplete
