SPECIFICATION FairSpec
CONSTANTS
  Worker = {w1, w2}
  Conn = {c1, c2, c3}
  MaxFd = 3
  Fd <- MCFd
  AE_SETSIZE = 3
  Listen = 1
  MaxConnects = 2
  NULL = NULL
CHECK_DEADLOCK FALSE
INVARIANTS IInv OneDriver OwnSocket NothingForgotten
PROPERTIES Served AllStop
