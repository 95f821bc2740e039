SPECIFICATION ConsoleFairSpec
CONSTANTS
  Procs = {p, q}
  QUANTUM = 7
  KERNEL = 6
  FIELDS = 2
  BITS = 1
  TINT2 <- MC_TINT2
  nil = nil
  STR = 2
  Formats <- MC_Formats
  LINES = 2
  LINE = 2
  Printers = {p}
  Texts <- MC_Texts
INVARIANTS TypeOK DueAtUnmask TicksApart LinesWhole NoOverrun Formatted
PROPERTIES Preempted LinesGetOut ImplementsTicks
