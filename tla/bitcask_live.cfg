SPECIFICATION MCFairSpec
CONSTANTS
  IntMax = 100
  PosRange = 20
  MaxVersion = 2
  va = va
  vb = vb
  ve = ve
  None = None
  Key = {k1}
  Value = {va, vb, ve}
  Empty = ve
  HashOf <- MCHashOf
  SizeOf <- MCSizeOf
  VersionArg <- MCVersionArg
  Client = {c1, c2}
  Flusher = Flusher
  MAX_BUCKET_COUNT = 2
  MaxBucketSize = 3
  InitBufferSize = 1
  WRITE_BUFFER_SIZE = 1
CHECK_DEADLOCK FALSE
PROPERTIES OpsReturn BufferedIsFlushed
