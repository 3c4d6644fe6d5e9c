SPECIFICATION Spec
CONSTANTS
  Getter = {g}
  Setter = {s}
  None = None
  Workload <- MCWorkload
  fnv1a <- MCfnv1a
  Characters = {0, 1, 10, 16}
  Longest = 4
  Unsupported = {17}
  MIN_DEC = 2
  MAX_DEC = 3
  MIN_HEX = 2
  MAX_HEX = 2
  MIN_LEN = 1
  MAX_LEN = 7
  MAX_FMT_ARGS = 2
  AfterRace = FALSE
  VARINT = 2
  DEFAULT_DICT_SIZE = 2
  MAX_DICT_SIZE = 3
CHECK_DEADLOCK FALSE
INVARIANTS Decodes Finds
