SPECIFICATION MCRoomSpec
CONSTANTS
  IntMax = 100
  PosRange = 20
  MaxVersion = 3
  va = va
  vb = vb
  ve = ve
  None = None
  Key = {k1}
  Value = {va, vb, ve}
  Empty = ve
  HashOf <- MCHashOf
  SizeOf <- MCSizeOf
  VersionArg <- MCVersionArg
  Client = {c1, c2}
  Flusher = Flusher
  MAX_BUCKET_COUNT = 3
  MaxBucketSize = 3
  InitBufferSize = 1
  WRITE_BUFFER_SIZE = 1
SYMMETRY Symmetry
CHECK_DEADLOCK FALSE
INVARIANTS WriteBufferSafe IInv Readable NoFailedGet IndexIsLatest
PROPERTIES VersionsIncrease Implements
