SPECIFICATION FairSpec
CONSTANTS
  IntMax = 100
  ka = ka
  kb = kb
  at = at
  m1 = m1
  m2 = m2
  plain = plain
  Key = {ka, kb, at}
  Listing = {at}
  Mutex = {m1, m2}
  get_mutex <- MCMutex
  Thread = {t1, t2}
  Command <- MCCommand
  Flag = {plain, fa, fi}
  APPEND_FLAG = fa
  INCR_FLAG = fi
  LongMax = 3
  MAX_VALUE_LEN = 2
  MaxVersion = 2
  None = None
CHECK_DEADLOCK FALSE
INVARIANTS IInv
PROPERTIES Atomic CallsReturn
