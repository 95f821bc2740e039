SPECIFICATION FairBoot
CONSTANTS
  MAX_PROCS = 2
  MAX_PROC_LISTS = 2
  CREATE_LIMIT = 2
  Msg = {zero, init, addr}
  ZeroMsg = zero
  InitMsg = init
  AddrMsg = addr
  Registers = registers
  Ret <- MC_Ret
  Syscalls <- MC_Calls
  TickPoints <- DuePoints
  nil = nil
  Programs = {1}
PROPERTY UartGreets
