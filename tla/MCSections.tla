----------------------------- MODULE MCSections -----------------------------
(* A small instance of Sections and MemoryMap for TLC: words of 5 bits,    *)
(* pages of 2 bytes, sections of 4.  Of the devices the first two share an *)
(* entry of the table with one the kernel drives, as UART0 and DMTimer1 do *)
(* in the code; the last is mapped in one place and recorded in another,   *)
(* that of the one before it, as am335x/kern/mem.c does for MMCHS0.        *)
EXTENDS MemoryMap

MC_RamRange        == FromTo(2, 16)
MC_KernelRange     == FromTo(6, 8)
MC_KernelRegisters == <<FromTo(18, 20), FromTo(28, 30)>>
MC_Devices == <<[mapped |-> FromTo(16, 22), recorded |-> FromTo(16, 22)],
                [mapped |-> FromTo(24, 26), recorded |-> FromTo(24, 26)],
                [mapped |-> FromTo(22, 24), recorded |-> FromTo(24, 26)]>>

MC_Ram     == RecordedRam
MC_Io      == RecordedIo
MC_Address == {0, 16, 17, 18, 20, 24, 30}
MC_Length  == {0, 1, 3, 31}
=============================================================================
