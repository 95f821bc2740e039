SPECIFICATION Spec
CONSTANTS
  MAX_PROCS = 3
  MAX_PROC_LISTS = 2
  CREATE_LIMIT = 3
  Msg = {0}
  ZeroMsg = 0
  Ret = {0}
  Syscalls <- CallsAll
  TickPoints <- AllPoints
  nil = nil
INVARIANTS TypeOK CpuOwnership AliveInOrder QueueConsistent ResumePoints ReplyOwed IdleOnlyWhenStuck
PROPERTIES IdleIsFinal RecvPrefersPid ImplementsRpc
