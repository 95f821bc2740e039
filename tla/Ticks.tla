------------------------------- MODULE Ticks -------------------------------
(***************************************************************************)
(* When a tick can arrive: the timer, the interrupt controller and the     *)
(* interrupt mask of the CPU (am335x/kern/timer.c, trap.c, vectors.S),     *)
(* under the kernel of which only the places matter where interrupts are   *)
(* unmasked and where schedule() is called.  Kern and Boot take from here  *)
(* what they assume of ticks.                                              *)
(*                                                                         *)
(* Time is counted in units of which a quantum has QUANTUM.  The kernel    *)
(* does not take longer than KERNEL of them between two calls of schedule  *)
(* or a call and its return to user mode.                                  *)
(***************************************************************************)
EXTENDS Integers

CONSTANTS
  Procs,    (* the processes *)
  QUANTUM,  (* the units in the 1000 ms of set_systick *)
  KERNEL,   (* the units in the longest path through the kernel *)
  FIELDS,   (* the mask registers of the controller; 4 in the code *)
  BITS,     (* the lines each of them masks; 32 in the code *)
  TINT2,    (* the line of the timer *)
  nil       (* up, in the idle loop *)

(* A line is the pair of its mask register, irqn / 32, and its bit in it,  *)
(* irqn % 32.                                                              *)
Irqs == (0 .. FIELDS - 1) \X (0 .. BITS - 1)

ASSUME TicksAssumption ==
  /\ QUANTUM \in Nat /\ KERNEL \in Nat /\ KERNEL < QUANTUM
  /\ FIELDS \in Nat /\ BITS \in Nat /\ TINT2 \in Irqs
  /\ nil \notin Procs

VARIABLES
  up,         (* the process on the CPU                                    *)
  place,      (* where each process is: in its program ("user"), in a      *)
              (* system call ("call"), in proc_start or proc0_start        *)
              (* ("start"); what the tick interrupts, it comes back to     *)
  left,       (* the units until the timer overflows; 0: it has stopped    *)
  irqstatus,  (* the overflow bit of the timer, which asserts its line     *)
  asserted,   (* the other lines that a device asserts                     *)
  control,    (* may the controller signal an interrupt? It may not again  *)
              (* until intc->control is written                            *)
  ran,        (* the units since the kernel code that runs began to run    *)
  since       (* the units since the last tick was handled, to QUANTUM     *)

vars == <<up, place, left, irqstatus, asserted, control, ran, since>>

Places == {"user", "call", "start"}

-----------------------------------------------------------------------------
(* Interrupts are masked in system calls only: the labels of a new process *)
(* have the mask bits clear, and the idle loop clears them.                *)
Unmasked == ~(up # nil /\ place[up] = "call")

(* Fault: the loop of init_intc leaves the last register as it was.        *)
FaultMissesLast == (0 .. FIELDS - 2) \X (0 .. BITS - 1)

(* init_intc sets all bits of every mask register.                         *)
AllMasked == (0 .. FIELDS - 1) \X (0 .. BITS - 1)

unmask_intr(mir, irqn) == mir \ {irqn}

(* intc_add_handler, which init_timers calls and nobody else.              *)
Masked   == unmask_intr(AllMasked, TINT2)
Handlers == {TINT2}

(* The lines the controller may report in sir_irq.                         *)
Signalled == {irqn \in Irqs \ Masked :
                IF irqn = TINT2 THEN irqstatus ELSE irqn \in asserted}

(* The CPU takes the interrupt before its next instruction.                *)
Due == Signalled # {} /\ control /\ Unmasked

At(where) == up # nil /\ place[up] = where /\ ~Due

(* Fault: the count goes on where the last process left it. *)
FaultKeepsCount == left' = left

(* Fault: the timer is set one unit too far back. *)
FaultOverlong == left' = QUANTUM + 1

set_systick == left' = QUANTUM

(* schedule gives the CPU to n. *)
Schedule(n) == up' = n /\ set_systick /\ ran' = 0

-----------------------------------------------------------------------------
(* A unit of time passes, in a program or in kernel code that may be under *)
(* way for so long.  A line that is asserted interrupts it.                *)
InKernel == up # nil /\ place[up] # "user"

Pass ==
  /\ ran' = IF InKernel THEN ran + 1 ELSE 0
  /\ left' = IF left > 0 THEN left - 1 ELSE 0
  /\ irqstatus' = (irqstatus \/ left = 1)
  /\ since' = IF since < QUANTUM THEN since + 1 ELSE QUANTUM
  /\ UNCHANGED <<up, place, asserted, control>>

Elapse ==
  /\ ~Due
  /\ InKernel => ran < KERNEL
  /\ Pass

(* Another device asserts its line, or no longer does.                     *)
Device(irqn) ==
  /\ asserted' = IF irqn \in asserted THEN asserted \ {irqn} ELSE asserted \cup {irqn}
  /\ UNCHANGED <<up, place, left, irqstatus, control, ran, since>>

(* Fault: the overflow bit is left set. *)
FaultKeepsStatus == UNCHANGED irqstatus

ClearStatus == irqstatus' = FALSE

(* Fault: the controller is not told. *)
FaultNoReset == control' = FALSE

intc_reset == control' = TRUE

(* systick_handler, up to the switch.  From the idle loop there is no      *)
(* process to switch to.                                                   *)
Tick(n) ==
  /\ up = nil => n = nil
  /\ ClearStatus
  /\ intc_reset
  /\ Schedule(n)
  /\ since' = 0
  /\ UNCHANGED <<place, asserted>>

(* Without a handler irq_handler returns to what it interrupted, and has   *)
(* not told the controller.                                                *)
NoHandler ==
  /\ control' = FALSE
  /\ UNCHANGED <<up, place, left, irqstatus, asserted, ran, since>>

irq_handler(n) ==
  /\ Due
  /\ \E irqn \in Signalled : IF irqn \in Handlers THEN Tick(n) ELSE NoHandler

swi ==
  /\ At("user")
  /\ place' = [place EXCEPT ![up] = "call"]
  /\ ran' = 0
  /\ UNCHANGED <<up, left, irqstatus, asserted, control, since>>

(* The kernel returns to the program; drop_to_user.                        *)
ToUser ==
  /\ At("call") \/ At("start")
  /\ place' = [place EXCEPT ![up] = "user"]
  /\ ran' = 0
  /\ UNCHANGED <<up, left, irqstatus, asserted, control, since>>

(* A system call or proc_start calls schedule.                             *)
Switch(n) ==
  /\ At("call") \/ At("start")
  /\ Schedule(n)
  /\ UNCHANGED <<place, irqstatus, asserted, control, since>>

-----------------------------------------------------------------------------
(* kmain: init_intc lets the controller signal, init_timers does not clear *)
(* an overflow it finds, schedule starts proc0.                            *)
init_intc   == control = TRUE
init_timers == irqstatus \in BOOLEAN

Init ==
  /\ init_intc
  /\ init_timers
  /\ asserted \in SUBSET (Irqs \ {TINT2})
  /\ up \in Procs
  /\ place = [p \in Procs |-> "start"]
  /\ left = QUANTUM
  /\ ran = 0
  /\ since = QUANTUM

Next ==
  \/ Elapse \/ swi \/ ToUser
  \/ \E n \in Procs \cup {nil} : irq_handler(n) \/ Switch(n)
  \/ \E irqn \in Irqs \ {TINT2} : Device(irqn)

Spec == Init /\ [][Next]_vars

(* Time passes, and the CPU takes interrupts. *)
FairSpec == Spec /\ WF_vars(Elapse) /\ WF_vars(\E n \in Procs \cup {nil} : irq_handler(n))
-----------------------------------------------------------------------------
(* Properties. *)

TypeOK ==
  /\ up \in Procs \cup {nil}
  /\ place \in [Procs -> Places]
  /\ left \in 0 .. QUANTUM
  /\ irqstatus \in BOOLEAN /\ control \in BOOLEAN
  /\ asserted \in SUBSET (Irqs \ {TINT2})
  /\ ran \in 0 .. KERNEL
  /\ since \in 0 .. QUANTUM

(* A tick interrupts proc_start only before its first instruction after    *)
(* the CPU was given to it: one that came due while the process before it  *)
(* was in a system call.                                                   *)
DueAtUnmask == Due /\ InKernel => ran = 0

(* From one tick to the next a whole quantum passes, although a tick may   *)
(* cut short the quantum of a process that had no part in it.              *)
TicksApart == Due => since = QUANTUM

(* A program that never leaves user mode is interrupted again and again.   *)
Preempted ==
  \A p \in Procs : <>[](up = p /\ place[p] = "user") => []<>(since = 0)
=============================================================================
