SPECIFICATION FairBoot
CONSTANTS
  MAX_PROCS = 4
  MAX_PROC_LISTS = 4
  CREATE_LIMIT = 4
  Msg = {zero, init, addr}
  ZeroMsg = zero
  InitMsg = init
  AddrMsg = addr
  Registers = registers
  Ret <- MC_Ret
  Syscalls <- MC_Calls
  TickPoints <- DuePoints
  nil = nil
  Programs = {1, 2, 3}
INVARIANTS BootTypeOK StartsFromInit AnswersPending
PROPERTIES AllStarted SoleClientAnswered
