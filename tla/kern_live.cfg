SPECIFICATION TableFairSpec
CONSTANTS
  MAX_PROCS = 3
  MAX_PROC_LISTS = 3
  CREATE_LIMIT = 3
  Msg = {0}
  ZeroMsg = 0
  Ret = {0}
  Syscalls <- CallsOneWay
  TickPoints <- AllPoints
  nil = nil
INVARIANTS ListIsAlive SearchAgrees
PROPERTY ReadyRuns
