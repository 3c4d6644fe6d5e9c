SPECIFICATION FairSpec
CONSTANTS
  count = 2
  scan_threads = 2
  Worker = {w1, w2}
  Optimizer = {o1, o2}
  Trees <- MCTrees
CHECK_DEADLOCK FALSE
INVARIANTS InUse AcceptedIsDone
PROPERTY Stops
