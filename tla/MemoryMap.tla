----------------------------- MODULE MemoryMap -----------------------------
(***************************************************************************)
(* The translation table that init_memory builds (am335x/kern/mem.c) and   *)
(* the regions it records for proc0, under the allocator of Sections.      *)
(*                                                                         *)
(* The table maps sections of SECTION bytes, each to itself; devices are   *)
(* smaller, so several share an entry and the last imap decides it.  Since *)
(* no address space is ever loaded, proc0 and the programs run on this     *)
(* table, and an access it does not permit them ends in the endless loop   *)
(* of trap.                                                                *)
(***************************************************************************)
EXTENDS Sections

CONSTANTS
  SECTION,          (* 2^20 in the code *)
  Ram, Kernel,      (* _ram_start .. _ram_end and _kernel_start .. _kernel_end *)
  KernelRegisters,  (* the devices the kernel drives, in the order of mapping *)
  Devices           (* for the others, in order: what is mapped, and what is *)
                    (* recorded as the region of the device                  *)

FromTo(start, end) == [start |-> start, end |-> end]
RegionOf(r)       == [start |-> r.start, len |-> r.end - r.start]

(* The regions of the kernel page. *)
RecordedRam == <<RegionOf(FromTo(Ram.start, Kernel.start)),
                 RegionOf(FromTo(Kernel.end, Ram.end))>>
RecordedIo  == [i \in DOMAIN Devices |-> RegionOf(Devices[i].recorded)]

Extent == [start : Word, end : Word]

ASSUME MemoryMapAssumption ==
  /\ SECTION \in Nat \ {0} /\ WORD % SECTION = 0
  /\ Ram \in Extent /\ Kernel \in Extent
  /\ Ram.start <= Kernel.start /\ Kernel.start <= Kernel.end /\ Kernel.end <= Ram.end
  /\ KernelRegisters \in Seq(Extent)
  /\ Devices \in Seq([mapped : Extent, recorded : Extent])
  /\ RamRegions = RecordedRam /\ IoRegions = RecordedIo

-----------------------------------------------------------------------------
AP_RW_NO == "kernel"
AP_RW_RW == "all"
L1_FAULT == "fault"

L1X(va) == va \div SECTION
Entry   == 0 .. L1X(WORD - 1)

(* Fault: a mapping begins with the first section that lies in the range. *)
FaultRoundsUp(r, x) == x * SECTION >= r.start /\ x * SECTION < r.end

(* The entries imap writes: each whose section holds a byte of the range.  *)
Touches(r, x) == x >= L1X(r.start) /\ x * SECTION < r.end

imap(tab, r, ap) == [x \in DOMAIN tab |-> IF Touches(r, x) THEN ap ELSE tab[x]]

(* The layout of the machine: memory shares no entry of the table with the *)
(* devices of the kernel.                                                  *)
ASSUME LayoutAssumption ==
  \A i \in DOMAIN KernelRegisters, x \in Entry :
    ~ (Touches(Ram, x) /\ Touches(KernelRegisters[i], x))

Mapping(r, ap) == [range |-> r, ap |-> ap]
ForKernel == [i \in DOMAIN KernelRegisters |-> Mapping(KernelRegisters[i], AP_RW_NO)]
ForAll    == [i \in DOMAIN Devices |-> Mapping(Devices[i].mapped, AP_RW_RW)]

Mappings == <<Mapping(Ram, AP_RW_RW)>> \o ForKernel \o ForAll

(* init_memory: all entries fault, then the calls of imap in their order. *)
ttb ==
  LET tab[k \in 0 .. Len(Mappings)] ==
        IF k = 0 THEN [x \in Entry |-> L1_FAULT]
        ELSE imap(tab[k - 1], Mappings[k].range, Mappings[k].ap)
  IN  tab[Len(Mappings)]

-----------------------------------------------------------------------------
(* What is used in place, at the address get_ram returned: the pages of    *)
(* the lists, which proc0 writes (am335x/proc0/main.c:91-96, 152-156), and *)
(* the page, space and stack of each program: the kernel keeps messages in *)
(* the page and clears the space, the program runs on the stack.           *)
InPlace(a) == Holding(started, a) + Holding(m.holders, a)

(* Whatever is used in place can be: programs have access to it in the one *)
(* table there is, it is not in the kernel, and it is in use once and not  *)
(* free as well, however the lists were split, wrapped or not.  And the    *)
(* mappings of other devices leave the kernel access to its own.           *)
(*                                                                         *)
(* Nothing is said of what a client gets: it would use it at the address   *)
(* it offered, which handle_addr_request maps into a space never loaded.   *)
UsedInPlace ==
  /\ \A a \in Word : InPlace(a) > 0 =>
       /\ ttb[L1X(a)] = AP_RW_RW
       /\ a \notin Kernel.start .. Kernel.end - 1
       /\ InPlace(a) + Holding(m.ram, a) = 1
  /\ \A i \in DOMAIN KernelRegisters :
       \A a \in KernelRegisters[i].start .. KernelRegisters[i].end - 1 :
         ttb[L1X(a)] # L1_FAULT
=============================================================================
