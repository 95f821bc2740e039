------------------------------ MODULE Console ------------------------------
(***************************************************************************)
(* The serial console (am335x/kern/uart.c): debug prints a line from most  *)
(* paths of the kernel, one character at a time, and waits for the UART    *)
(* before each; a program that has the registers of the UART does the same *)
(* (am335x/base/uart/main.c).  The wait is what takes the kernel its time, *)
(* so this module says how long the paths are whose length Ticks bounds.   *)
(*                                                                         *)
(* A unit of time is what the UART takes to send a character; what the     *)
(* kernel computes takes none.                                             *)
(***************************************************************************)
EXTENDS Ticks, Format, FiniteSets

CONSTANTS
  STR,       (* the size of str in debug: 128                               *)
  Formats,   (* the lines the kernel prints                                 *)
  LINES,     (* the lines on its longest path                               *)
  LINE,      (* the characters putc sends for the longest of them           *)
  Printers,  (* the programs that have reached their puts                   *)
  Texts      (* what they print                                             *)

(* putc sends a carriage return before each newline.                       *)
Sent(str) == Len(str) + Cardinality({k \in DOMAIN str : str[k] = "\n"})

ASSUME ConsoleAssumption ==
  /\ Printers \subseteq Procs /\ IsFiniteSet(Printers)
  /\ STR \in Nat /\ LINES \in Nat /\ LINE \in Nat
  /\ \A fmt \in Formats : IsFormat(fmt) /\ Sent(vsnprintf(STR, fmt)) \in 0 .. LINE
  /\ \A text \in Texts : Sent(text) \in Nat
  /\ LINES * LINE + Cardinality(Printers) + 1 <= KERNEL

VARIABLES
  str,    (* the local str of debug, filled, and the format it is made of  *)
  out,    (* the characters left to send of what each process prints       *)
  clear,  (* has its putc seen the transmitter empty (bit 5 of lsr), and   *)
          (* not yet written its character?                                *)
  fifo,   (* the characters in the transmitter                             *)
  lines   (* the lines printed on the path that the kernel is on           *)

console == <<str, out, clear, fifo, lines>>
cvars   == <<vars, console>>

NoLine    == [of |-> <<>>, is |-> <<>>]
Line(fmt) == [of |-> fmt, is |-> vsnprintf(STR, fmt)]

(* p is not in the middle of printing.                                     *)
Quiet(p) == str[p] = NoLine /\ out[p] = 0

-----------------------------------------------------------------------------
(* debug fills str ...                                                     *)
debug(fmt) ==
  /\ At("call") \/ At("start")
  /\ Quiet(up) /\ lines < LINES
  /\ str' = [str EXCEPT ![up] = Line(fmt)]
  /\ lines' = lines + 1
  /\ UNCHANGED <<vars, out, clear, fifo>>

(* ... and sends it, unless it is empty.                                   *)
debug_puts ==
  /\ At("call") \/ At("start")
  /\ str[up] # NoLine
  /\ str' = [str EXCEPT ![up] = NoLine]
  /\ out' = [out EXCEPT ![up] = Sent(str[up].is)]
  /\ UNCHANGED <<vars, clear, fifo, lines>>

(* puts of the uart program.                                               *)
puts(text) ==
  /\ At("user") /\ up \in Printers
  /\ Quiet(up)
  /\ out' = [out EXCEPT ![up] = Sent(text)]
  /\ UNCHANGED <<vars, str, clear, fifo, lines>>

(* Fault: the character is written without a look at the transmitter. *)
FaultNoWait == TRUE

(* Fault: the wait ends when the transmitter is busy. *)
FaultWrongBit == fifo > 0

Empty == fifo = 0

(* putc leaves its loop ...                                                *)
putc_ready ==
  /\ ~Due
  /\ up # nil /\ out[up] > 0 /\ ~clear[up]
  /\ Empty
  /\ clear' = [clear EXCEPT ![up] = TRUE]
  /\ UNCHANGED <<vars, str, out, fifo, lines>>

(* ... and writes the character, whatever has been written in between.     *)
putc_write ==
  /\ ~Due
  /\ up # nil /\ clear[up]
  /\ fifo' = fifo + 1
  /\ out' = [out EXCEPT ![up] = @ - 1]
  /\ clear' = [clear EXCEPT ![up] = FALSE]
  /\ UNCHANGED <<vars, str, lines>>

(* The UART sends a character while a program runs, nothing does, or the   *)
(* kernel waits in putc.                                                   *)
Transmit ==
  /\ ~Due
  /\ InKernel => out[up] > 0 /\ ~clear[up] /\ fifo > 0
  /\ Pass
  /\ fifo' = IF fifo > 0 THEN fifo - 1 ELSE 0
  /\ UNCHANGED <<str, out, clear, lines>>

(* Fault: the kernel gives up the CPU in the middle of a line. *)
FaultMidLine == TRUE

LineDone == up # nil => Quiet(up)

(* A system call, a return from the kernel, a switch: never in puts.       *)
Move ==
  /\ LineDone
  /\ swi \/ ToUser \/ \E n \in Procs \cup {nil} : Switch(n)
  /\ lines' = 0
  /\ UNCHANGED <<str, out, clear, fifo>>

(* An interrupt, at any point of a program, putc's too.                    *)
Interrupt ==
  /\ \E n \in Procs \cup {nil} : irq_handler(n)
  /\ lines' = 0
  /\ UNCHANGED <<str, out, clear, fifo>>

OtherDevice ==
  /\ \E irqn \in Irqs \ {TINT2} : Device(irqn)
  /\ UNCHANGED console

ConsoleInit ==
  /\ Init
  /\ str = [p \in Procs |-> NoLine]
  /\ out = [p \in Procs |-> 0]
  /\ clear = [p \in Procs |-> FALSE]
  /\ fifo \in {0, 1}
  /\ lines = 0

ConsoleNext ==
  \/ \E fmt \in Formats : debug(fmt)
  \/ debug_puts
  \/ \E text \in Texts : puts(text)
  \/ putc_ready \/ putc_write \/ Transmit
  \/ Move \/ Interrupt \/ OtherDevice

ConsoleSpec == ConsoleInit /\ [][ConsoleNext]_cvars

(* The CPU goes on with putc, time passes and interrupts are taken.        *)
ConsoleFairSpec ==
  /\ ConsoleSpec
  /\ WF_cvars(debug_puts \/ putc_ready \/ putc_write)
  /\ WF_cvars(Transmit)
  /\ WF_cvars(Interrupt)
-----------------------------------------------------------------------------
(* Properties. *)

(* No tick comes while a kernel path is in the middle of a line, although  *)
(* proc_start prints with interrupts unmasked: a line of the kernel is not *)
(* torn by one of another process.                                         *)
LinesWhole == Due /\ InKernel => Quiet(up)

(* A program may be interrupted between its look at the transmitter and    *)
(* its write, the kernel may not: at most one character for each program   *)
(* that prints, and one more, are ever in the transmitter.                 *)
NoOverrun == fifo <= Cardinality(Printers) + 1

(* The busy waits of the kernel end: what it has begun to print gets out.  *)
LinesGetOut ==
  \A p \in Procs : (up = p /\ InKernel /\ ~Quiet(p)) ~> Quiet(p)

(* However many lines a path prints, it is over within KERNEL units: this  *)
(* kernel does what Ticks allows the kernel to do.                         *)
ImplementsTicks == Spec

(* What debug sends is the text its format and arguments stand for, as far *)
(* as str has room: a number is cut at its end, a sign is not overwritten, *)
(* and nothing comes after the cut.                                        *)
Formatted == \A p \in Procs : FormatsRight(str[p].of, str[p].is, STR)
=============================================================================
