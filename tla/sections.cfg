SPECIFICATION Spec
CONSTANTS
  WORD = 32
  PAGE_SIZE = 2
  NSECTIONS = 3
  RamRegions <- MC_Ram
  IoRegions <- MC_Io
  Programs = 1
  Address <- MC_Address
  Length <- MC_Length
  Accepted = {TRUE, FALSE}
  MAX_REQUESTS = 4
  SECTION = 4
  Ram <- MC_RamRange
  Kernel <- MC_KernelRange
  KernelRegisters <- MC_KernelRegisters
  Devices <- MC_Devices
INVARIANTS TypeOK Accounted ListsApart DroppedForWantOfPage FreeMeansGrantable UsedInPlace
CHECK_DEADLOCK FALSE
