--------------------------- MODULE ConsoleProofs ---------------------------
(***************************************************************************)
(* What the kernel promises of its time and of its lines.  Of Ticks: the   *)
(* places and the distance of ticks, and that none is lost, for every      *)
(* length of the quantum and of the paths through the kernel.  Of Console: *)
(* what printing needs of that time, for every number of processes, lines  *)
(* on a path and characters in a line; the kernel that prints is a kernel  *)
(* of Ticks.  Of Format: what vsnprintf writes, for every format and size. *)
(***************************************************************************)
EXTENDS Console, ListFacts

-----------------------------------------------------------------------------
(* Ticks. *)

(* The inductive invariant: what is left of a quantum, and what has passed. *)
TicksInv ==
  /\ TypeOK
  /\ control
  /\ up # nil /\ place[up] = "start" => left = QUANTUM - ran /\ (ran > 0 => ~irqstatus)
  /\ irqstatus => since = QUANTUM
  /\ since + left >= QUANTUM

LEMMA TicksInit == Init => TicksInv
  BY TicksAssumption
  DEF Init, init_intc, init_timers, TicksInv, TypeOK, Places

(* Of all the lines, the controller signals the timer's only.              *)
LEMMA TimerOnly == Signalled = IF irqstatus THEN {TINT2} ELSE {}
<1>1. AllMasked = Irqs
  BY DEF AllMasked, Irqs
<1>2. TINT2 \in Irqs
  BY TicksAssumption
<1> QED
  BY <1>1, <1>2 DEF Signalled, Masked, unmask_intr

LEMMA DueIs == Due <=> irqstatus /\ control /\ Unmasked
  BY TimerOnly, Zenon DEF Due

(* While time passes, the timer counts down as fast as since counts up.    *)
LEMMA ElapseKeeps ==
  ASSUME TicksInv, Elapse
  PROVE  TicksInv'
<1> USE DEF Pass
<1>1. left' \in 0 .. QUANTUM /\ since' \in 0 .. QUANTUM /\ since' + left' >= QUANTUM
  BY TicksAssumption DEF TicksInv, TypeOK, Elapse
<1>2. ran' \in 0 .. KERNEL
  BY TicksAssumption DEF TicksInv, TypeOK, Elapse
<1>3. irqstatus' \in BOOLEAN /\ (irqstatus' => since' = QUANTUM)
  BY TicksAssumption DEF TicksInv, TypeOK, Elapse
<1>4. ASSUME up # nil, place[up] = "start"
      PROVE  left' = QUANTUM - ran' /\ (ran' > 0 => ~irqstatus')
  <2>1. InKernel /\ ran < KERNEL /\ ran' = ran + 1 /\ left = QUANTUM - ran
    BY <1>4 DEF TicksInv, Elapse, InKernel
  <2>2. ~irqstatus
    BY <1>4, DueIs DEF TicksInv, Elapse, Unmasked
  <2>3. left # 1
    BY <2>1, TicksAssumption DEF TicksInv, TypeOK
  <2>4. left' = left - 1 /\ ~irqstatus'
    BY <2>1, <2>2, <2>3, TicksAssumption DEF TicksInv, TypeOK, Elapse
  <2> QED
    BY <2>1, <2>4, TicksAssumption DEF TicksInv, TypeOK
<1> QED
  BY <1>1, <1>2, <1>3, <1>4 DEF TicksInv, TypeOK, Elapse

LEMMA QuantumAhead == \A s \in 0 .. QUANTUM : s + QUANTUM >= QUANTUM
  BY TicksAssumption

(* The CPU changes hands: the new process has a whole quantum before it.   *)
LEMMA ScheduleKeeps ==
  ASSUME TicksInv, NEW n \in Procs \cup {nil}, Schedule(n), control' = TRUE,
         UNCHANGED <<place, asserted>>, irqstatus' \in BOOLEAN,
         since' \in 0 .. QUANTUM, irqstatus' => since' = QUANTUM
  PROVE  TicksInv'
<1>1. up' \in Procs \cup {nil} /\ left' = QUANTUM /\ ran' = 0
  BY DEF Schedule, set_systick
<1>2. place' \in [Procs -> Places] /\ control' \in BOOLEAN
  BY DEF TicksInv, TypeOK
<1>3. /\ left' \in 0 .. QUANTUM /\ ran' \in 0 .. KERNEL
      /\ left' = QUANTUM - ran' /\ ~(ran' > 0)
      /\ since' + left' >= QUANTUM
  <2>1. 0 \in 0 .. KERNEL /\ QUANTUM \in 0 .. QUANTUM /\ QUANTUM = QUANTUM - 0
    BY TicksAssumption
  <2> QED
    BY <1>1, <2>1, QuantumAhead
<1>4. TypeOK'
  <2>1. up' \in Procs \cup {nil} /\ place' \in [Procs -> Places]
    BY <1>1, <1>2
  <2>2. irqstatus' \in BOOLEAN /\ control' \in BOOLEAN
        /\ asserted' \in SUBSET (Irqs \ {TINT2})
    BY <1>2 DEF TicksInv, TypeOK
  <2>3. left' \in 0 .. QUANTUM /\ ran' \in 0 .. KERNEL /\ since' \in 0 .. QUANTUM
    BY <1>3
  <2> QED
    BY <2>1, <2>2, <2>3, Zenon DEF TypeOK
<1> QED
  BY <1>3, <1>4 DEF TicksInv

(* A program enters the kernel, or the kernel returns to a program.        *)
LEMMA MoveKeeps ==
  ASSUME TicksInv, swi \/ ToUser
  PROVE  TicksInv'
<1>1. /\ up \in Procs /\ ran' = 0
      /\ UNCHANGED <<up, left, irqstatus, asserted, control, since>>
      /\ \E w \in {"call", "user"} : place' = [place EXCEPT ![up] = w]
  BY DEF TicksInv, TypeOK, swi, ToUser, At
<1>2. place' \in [Procs -> Places] /\ place'[up] # "start"
  BY <1>1 DEF TicksInv, TypeOK, Places
<1>3. ran' \in 0 .. KERNEL
  BY <1>1, TicksAssumption
<1> QED
  BY <1>1, <1>2, <1>3 DEF TicksInv, TypeOK

LEMMA TicksNext == TicksInv /\ [Next]_vars => TicksInv'
<1> SUFFICES ASSUME TicksInv, [Next]_vars PROVE TicksInv'
  OBVIOUS
<1>1. CASE Elapse
  BY <1>1, ElapseKeeps
<1>2. CASE swi \/ ToUser
  BY <1>2, MoveKeeps
<1>3. ASSUME NEW n \in Procs \cup {nil}, irq_handler(n) PROVE TicksInv'
  <2>1. Tick(n)
    BY <1>3, TimerOnly DEF irq_handler, Handlers
  <2>2. Schedule(n) /\ control' = TRUE /\ UNCHANGED <<place, asserted>>
    BY <2>1 DEF Tick, intc_reset
  <2>3. irqstatus' = FALSE /\ since' \in 0 .. QUANTUM
    BY <2>1, TicksAssumption DEF Tick, ClearStatus
  <2> QED
    BY <2>2, <2>3, ScheduleKeeps
<1>4. ASSUME NEW n \in Procs \cup {nil}, Switch(n) PROVE TicksInv'
  <2>1. Schedule(n) /\ UNCHANGED <<place, irqstatus, asserted, control, since>>
    BY <1>4 DEF Switch
  <2>2. control' /\ irqstatus' \in BOOLEAN /\ since' \in 0 .. QUANTUM
        /\ (irqstatus' => since' = QUANTUM)
    BY <2>1 DEF TicksInv, TypeOK
  <2> QED
    BY <2>1, <2>2, ScheduleKeeps
<1>5. ASSUME NEW irqn \in Irqs \ {TINT2}, Device(irqn) PROVE TicksInv'
  <2>1. asserted' \in SUBSET (Irqs \ {TINT2})
    BY <1>5 DEF Device, TicksInv, TypeOK
  <2> QED
    BY <1>5, <2>1 DEF Device, TicksInv, TypeOK
<1>6. CASE UNCHANGED vars
  BY <1>6 DEF TicksInv, TypeOK, vars
<1> QED
  BY <1>1, <1>2, <1>3, <1>4, <1>5, <1>6 DEF Next

THEOREM TicksCorrect == Spec => []TicksInv
  BY TicksInit, TicksNext, PTL DEF Spec

(* No variable of the timer and the controller leaves its range, the count *)
(* of the kernel's time among them.                                        *)
THEOREM TicksTypeOK == Spec => []TypeOK
<1>1. TicksInv => TypeOK
  BY DEF TicksInv
<1> QED
  BY <1>1, TicksCorrect, PTL

LEMMA DueAtUnmaskOfInv == TicksInv => DueAtUnmask
  BY DueIs DEF TicksInv, TypeOK, DueAtUnmask, Unmasked, InKernel, Places

(* A tick interrupts proc_start only at its first instruction after a      *)
(* switch: systick_handler is not entered in the middle of krecv.          *)
THEOREM TicksDueAtUnmask == Spec => []DueAtUnmask
  BY DueAtUnmaskOfInv, TicksCorrect, PTL

(* Between two calls of systick_handler the timer counts a whole quantum.  *)
THEOREM TicksTicksApart == Spec => []TicksApart
<1>1. TicksInv => TicksApart
  BY DueIs DEF TicksInv, TicksApart
<1> QED
  BY <1>1, TicksCorrect, PTL

(* A timer that has stopped has left its overflow bit, until the handler   *)
(* that takes the tick has started it again.                               *)
StoppedIsDue == left = 0 => irqstatus

LEMMA StoppedNext == TicksInv /\ StoppedIsDue /\ [Next]_vars => StoppedIsDue'
<1> SUFFICES ASSUME TicksInv, StoppedIsDue, [Next]_vars PROVE StoppedIsDue'
  OBVIOUS
<1>1. CASE Elapse
  <2>1. /\ left \in Int /\ left >= 0
        /\ left' = IF left > 0 THEN left - 1 ELSE 0
        /\ irqstatus' = (irqstatus \/ left = 1)
    BY <1>1, TicksAssumption DEF Elapse, Pass, TicksInv, TypeOK
  <2>2. left' = 0 => left = 1 \/ left = 0
    BY <2>1
  <2> QED
    BY <2>1, <2>2 DEF StoppedIsDue
<1>2. ASSUME NEW n, Schedule(n) PROVE StoppedIsDue'
  BY <1>2, TicksAssumption DEF Schedule, set_systick, StoppedIsDue
<1>3. ASSUME NEW n, irq_handler(n) \/ Switch(n) PROVE StoppedIsDue'
  BY <1>2, <1>3 DEF irq_handler, Tick, NoHandler, Switch, StoppedIsDue
<1>4. CASE UNCHANGED <<left, irqstatus>>
  BY <1>4 DEF StoppedIsDue
<1>5. ASSUME NEW irqn, Device(irqn) PROVE StoppedIsDue'
  BY <1>4, <1>5 DEF Device
<1>6. CASE swi \/ ToUser \/ UNCHANGED vars
  BY <1>4, <1>6 DEF swi, ToUser, vars
<1> QED
  BY <1>1, <1>3, <1>5, <1>6 DEF Next

(* No program, and no idle loop, is left with a timer that has stopped and *)
(* no interrupt on its way: a tick is never lost, whoever was on the CPU   *)
(* when it came due.                                                       *)
NoLostTick == left = 0 /\ Unmasked => Due

(* systick_handler and schedule never leave the timer stopped and its      *)
(* interrupt out of the CPU's reach: what Preempted needs of every state.  *)
THEOREM TicksNoLostTick == Spec => []NoLostTick
<1>1. Init => StoppedIsDue
  BY TicksAssumption DEF Init, StoppedIsDue
<1>2. TicksInv /\ StoppedIsDue => NoLostTick
  BY DueIs DEF TicksInv, StoppedIsDue, NoLostTick
<1> QED
  BY <1>1, <1>2, StoppedNext, TicksCorrect, PTL DEF Spec

-----------------------------------------------------------------------------
(* Console. *)

(* The inductive invariant: a program may stop in the middle of its        *)
(* printing, the kernel does not; and on a path of the kernel the time it  *)
(* took, what the transmitter still holds and what it may yet print do not *)
(* exceed KERNEL.                                                          *)
Strs == {NoLine} \cup {Line(fmt) : fmt \in Formats}

Seeing == {p \in Procs : clear[p]}

Pending(p) == out[p] + Sent(str[p].is)

ConsoleTypes ==
  /\ str \in [Procs -> Strs] /\ out \in [Procs -> Nat]
  /\ clear \in [Procs -> BOOLEAN]
  /\ fifo \in Nat /\ lines \in 0 .. LINES

WhoPrints ==
  /\ \A p \in Procs : clear[p] => out[p] > 0
  /\ \A p \in Procs : str[p] # NoLine => out[p] = 0 /\ up = p /\ InKernel
  /\ \A p \in Procs : out[p] > 0 =>
       (place[p] = "user" /\ p \in Printers) \/ (up = p /\ InKernel)

FifoBound == fifo + Cardinality(Seeing) <= Cardinality(Printers) + 1

TimeBound == InKernel => ran + fifo + Pending(up) + (LINES - lines) * LINE <= KERNEL

ConsoleInv ==
  TicksInv /\ ConsoleTypes /\ WhoPrints /\ FifoBound /\ TimeBound /\ LinesWhole

LEMMA NothingSent == Sent(<<>>) = 0
<1>1. {k \in DOMAIN <<>> : <<>>[k] = "\n"} = {}
  OBVIOUS
<1>2. Len(<<>>) = 0
  OBVIOUS
<1> QED
  BY <1>1, <1>2, FS_EmptySet DEF Sent

LEMMA LineSent == \A s \in Strs : Sent(s.is) \in 0 .. LINE
<1>1. \A fmt \in Formats : Sent(Line(fmt).is) \in 0 .. LINE
  BY ConsoleAssumption DEF Line
<1>2. Sent(NoLine.is) \in 0 .. LINE
  <2>1. NoLine.is = <<>> /\ 0 \in 0 .. LINE
    BY ConsoleAssumption DEF NoLine
  <2> QED
    BY <2>1, NothingSent, Zenon
<1> QED
  BY <1>1, <1>2 DEF Strs

LEMMA Sizes ==
  /\ Cardinality(Printers) \in Nat /\ LINES \in Nat /\ LINE \in Nat /\ KERNEL \in Nat
  /\ LINES * LINE + Cardinality(Printers) + 1 <= KERNEL
  BY ConsoleAssumption, TicksAssumption, FS_CardinalityType

(* What the lines ahead may take, and what one line takes of it.           *)
LEMMA Ahead ==
  /\ (LINES - 0) * LINE = LINES * LINE
  /\ \A k \in 0 .. LINES : (LINES - k) * LINE \in Nat
  /\ \A k \in 0 .. LINES : k < LINES =>
       (LINES - k) * LINE = (LINES - (k + 1)) * LINE + LINE
  BY Sizes

(* Only the programs that print and the process on the CPU may be about to *)
(* write a character.                                                      *)
LEMMA SeeingBound ==
  ASSUME NEW who, NEW S, S \subseteq Printers \cup {who}
  PROVE  IsFiniteSet(S) /\ Cardinality(S) \in Nat
         /\ Cardinality(S) <= Cardinality(Printers) + 1
<1>1. IsFiniteSet(Printers \cup {who})
      /\ Cardinality(Printers \cup {who}) <= Cardinality(Printers) + 1
  <2>1. IsFiniteSet(Printers)
    BY ConsoleAssumption
  <2>2. IsFiniteSet(Printers \cup {who})
        /\ Cardinality(Printers \cup {who}) =
           IF who \in Printers THEN Cardinality(Printers) ELSE Cardinality(Printers) + 1
    BY <2>1, FS_AddElement, Zenon
  <2> QED
    BY <2>2, Sizes
<1>2. IsFiniteSet(S) /\ Cardinality(S) <= Cardinality(Printers \cup {who})
  BY <1>1, FS_Subset
<1> QED
  BY <1>1, <1>2, Sizes, FS_CardinalityType

LEMMA Pend ==
  ASSUME ConsoleTypes, NEW p \in Procs
  PROVE  /\ Sent(str[p].is) \in 0 .. LINE /\ Pending(p) \in Nat
         /\ Quiet(p) => Pending(p) = 0
<1>1. Sent(str[p].is) \in 0 .. LINE /\ out[p] \in Nat
  <2>1. str[p] \in Strs /\ out[p] \in Nat
    BY DEF ConsoleTypes
  <2> QED
    BY <2>1, LineSent, Zenon
<1>2. Quiet(p) => Sent(str[p].is) = 0 /\ out[p] = 0
  <2>1. Quiet(p) => str[p].is = <<>> /\ out[p] = 0
    BY DEF Quiet, NoLine
  <2> QED
    BY <2>1, NothingSent, Zenon
<1> QED
  BY <1>1, <1>2, Sizes DEF Pending

LEMMA SeeingType ==
  ASSUME ConsoleTypes, WhoPrints
  PROVE  IsFiniteSet(Seeing) /\ Cardinality(Seeing) \in Nat
         /\ Cardinality(Seeing) <= Cardinality(Printers) + 1
<1>1. Seeing \subseteq Printers \cup {up}
  BY DEF Seeing, ConsoleTypes, WhoPrints
<1> QED
  BY <1>1, SeeingBound

-----------------------------------------------------------------------------
(* The steps that Ticks does not see. *)

LEMMA debugKeeps ==
  ASSUME ConsoleInv, NEW fmt \in Formats, debug(fmt)
  PROVE  ConsoleTypes' /\ WhoPrints' /\ FifoBound' /\ TimeBound'
<1> USE DEF ConsoleInv
<1>1. up \in Procs /\ InKernel /\ Quiet(up) /\ lines < LINES
  BY DEF debug, At, TicksInv, TypeOK, InKernel
<1>2. /\ str' = [str EXCEPT ![up] = Line(fmt)] /\ lines' = lines + 1
      /\ UNCHANGED <<vars, out, clear, fifo>> /\ Line(fmt) \in Strs
  BY DEF debug, Strs
<1>3. ConsoleTypes'
  BY <1>1, <1>2, Sizes DEF ConsoleTypes
<1>4. WhoPrints'
  BY <1>1, <1>2 DEF WhoPrints, Quiet, ConsoleTypes, InKernel, vars
<1>5. FifoBound'
  BY <1>2 DEF FifoBound, Seeing
<1>6. TimeBound'
  <2>1. Pending(up) = 0 /\ (Pending(up))' <= LINE /\ (Pending(up))' \in Nat
    <3>1. str'[up] \in Strs /\ out'[up] = 0 /\ up' = up
      BY <1>1, <1>2 DEF ConsoleTypes, Quiet, vars
    <3>2. Sent(str'[up].is) \in 0 .. LINE
      BY <3>1, LineSent, Zenon
    <3> QED
      BY <1>1, <3>1, <3>2, Pend, Sizes DEF Pending
  <2>2. ran + fifo + 0 + (LINES - lines) * LINE <= KERNEL
    BY <1>1, <2>1 DEF TimeBound
  <2>3. (LINES - lines) * LINE = (LINES - (lines + 1)) * LINE + LINE
    BY <1>1, Ahead DEF ConsoleTypes
  <2>4. ran \in Nat /\ fifo \in Nat /\ (LINES - (lines + 1)) * LINE \in Nat
    BY <1>1, <1>2, <1>3, Ahead DEF ConsoleTypes, TicksInv, TypeOK
  <2>5. ran' = ran /\ fifo' = fifo
    BY <1>2 DEF vars
  <2> DEFINE A == (LINES - lines) * LINE
             B == (LINES - (lines + 1)) * LINE
             P == (Pending(up))'
  <2>6. ran + fifo + P + B <= KERNEL
    <3>1. A = B + LINE /\ B \in Nat /\ P <= LINE /\ P \in Nat
          /\ ran + fifo + 0 + A <= KERNEL
      BY <2>1, <2>2, <2>3, <2>4
    <3> HIDE DEF A, B, P
    <3> QED
      BY <3>1, <2>4, Sizes
  <2> QED
    BY <1>2, <2>5, <2>6 DEF TimeBound
<1> QED
  BY <1>3, <1>4, <1>5, <1>6

LEMMA debug_putsKeeps ==
  ASSUME ConsoleInv, debug_puts
  PROVE  ConsoleTypes' /\ WhoPrints' /\ FifoBound' /\ TimeBound'
<1> USE DEF ConsoleInv
<1>1. /\ up \in Procs /\ InKernel /\ str[up] # NoLine /\ out[up] = 0 /\ ~clear[up]
      /\ str[up] \in Strs
  BY DEF debug_puts, At, TicksInv, TypeOK, InKernel, WhoPrints, ConsoleTypes
<1>2. /\ str' = [str EXCEPT ![up] = NoLine]
      /\ out' = [out EXCEPT ![up] = Sent(str[up].is)]
      /\ UNCHANGED <<vars, clear, fifo, lines>>
  BY DEF debug_puts
<1>3. Sent(str[up].is) \in Nat
  BY <1>1, Pend, Sizes
<1>4. ConsoleTypes'
  <2>1. NoLine \in Strs
    BY DEF Strs
  <2> QED
    BY <1>1, <1>2, <1>3, <2>1 DEF ConsoleTypes
<1>5. WhoPrints'
  <2>1. \A p \in Procs : clear'[p] => out'[p] > 0
    BY <1>1, <1>2 DEF WhoPrints, ConsoleTypes
  <2>2. InKernel'
    BY <1>1, <1>2 DEF InKernel, vars
  <2> QED
    BY <1>1, <1>2, <2>1, <2>2 DEF WhoPrints, ConsoleTypes, vars
<1>6. FifoBound'
  BY <1>2 DEF FifoBound, Seeing
<1>7. TimeBound'
  <2>1. (Pending(up))' = Pending(up)
    <3>1. Pending(up) = Sent(str[up].is)
      BY <1>1, <1>3 DEF Pending
    <3>2. out'[up] = Sent(str[up].is) /\ str'[up].is = <<>> /\ up' = up
      BY <1>1, <1>2 DEF ConsoleTypes, vars, NoLine
    <3>3. Sent(str'[up].is) = 0
      BY <3>2, NothingSent, Zenon
    <3> QED
      BY <1>3, <3>1, <3>2, <3>3 DEF Pending
  <2> QED
    BY <1>2, <2>1 DEF TimeBound, InKernel, vars
<1> QED
  BY <1>4, <1>5, <1>6, <1>7

LEMMA putsKeeps ==
  ASSUME ConsoleInv, NEW text \in Texts, puts(text)
  PROVE  ConsoleTypes' /\ WhoPrints' /\ FifoBound' /\ TimeBound'
<1> USE DEF ConsoleInv
<1>1. /\ up \in Procs \cap Printers /\ place[up] = "user" /\ ~InKernel
      /\ str[up] = NoLine /\ out[up] = 0 /\ Sent(text) \in Nat
  BY ConsoleAssumption DEF puts, At, TicksInv, TypeOK, InKernel, Quiet
<1>2. /\ out' = [out EXCEPT ![up] = Sent(text)]
      /\ UNCHANGED <<vars, str, clear, fifo, lines>>
  BY DEF puts
<1>3. ConsoleTypes'
  BY <1>1, <1>2 DEF ConsoleTypes
<1>4. WhoPrints'
  BY <1>1, <1>2 DEF WhoPrints, ConsoleTypes, InKernel, vars
<1>5. FifoBound' /\ TimeBound'
  BY <1>1, <1>2 DEF FifoBound, Seeing, TimeBound, InKernel, vars
<1> QED
  BY <1>3, <1>4, <1>5

(* A transmitter that is seen empty is empty of every character before.    *)
LEMMA putc_readyKeeps ==
  ASSUME ConsoleInv, putc_ready
  PROVE  ConsoleTypes' /\ WhoPrints' /\ FifoBound' /\ TimeBound'
<1> USE DEF ConsoleInv
<1>1. /\ up \in Procs /\ out[up] > 0 /\ fifo = 0
      /\ clear' = [clear EXCEPT ![up] = TRUE]
      /\ UNCHANGED <<vars, str, out, fifo, lines>>
  BY DEF putc_ready, Empty, TicksInv, TypeOK
<1>2. ConsoleTypes'
  BY <1>1 DEF ConsoleTypes
<1>3. WhoPrints'
  BY <1>1 DEF WhoPrints, ConsoleTypes, InKernel, vars
<1>4. FifoBound'
  <2>1. Seeing' \subseteq Printers \cup {up}
    BY <1>1 DEF Seeing, ConsoleTypes, WhoPrints
  <2>2. Cardinality(Seeing') \in Nat /\ Cardinality(Seeing') <= Cardinality(Printers) + 1
    BY <2>1, SeeingBound
  <2> QED
    BY <1>1, <2>2, Sizes DEF FifoBound
<1>5. TimeBound'
  BY <1>1 DEF TimeBound, InKernel, vars, Pending
<1> QED
  BY <1>2, <1>3, <1>4, <1>5

LEMMA putc_writeKeeps ==
  ASSUME ConsoleInv, putc_write
  PROVE  ConsoleTypes' /\ WhoPrints' /\ FifoBound' /\ TimeBound'
<1> USE DEF ConsoleInv
<1>1. /\ up \in Procs /\ clear[up] /\ out[up] > 0 /\ out[up] \in Nat /\ fifo \in Nat
      /\ str[up] = NoLine
  BY DEF putc_write, TicksInv, TypeOK, ConsoleTypes, WhoPrints
<1>2. /\ fifo' = fifo + 1
      /\ out' = [out EXCEPT ![up] = @ - 1]
      /\ clear' = [clear EXCEPT ![up] = FALSE]
      /\ UNCHANGED <<vars, str, lines>>
  BY DEF putc_write
<1>3. ConsoleTypes'
  BY <1>1, <1>2 DEF ConsoleTypes
<1>4. WhoPrints'
  BY <1>1, <1>2 DEF WhoPrints, ConsoleTypes, InKernel, vars
<1>5. FifoBound'
  <2>1. Seeing' = Seeing \ {up} /\ up \in Seeing
    BY <1>1, <1>2 DEF Seeing, ConsoleTypes
  <2>2. IsFiniteSet(Seeing) /\ Cardinality(Seeing) \in Nat
    BY SeeingType
  <2>3. Cardinality(Seeing') = Cardinality(Seeing) - 1
    BY <2>1, <2>2, FS_RemoveElement
  <2> QED
    BY <1>1, <1>2, <2>2, <2>3, Sizes DEF FifoBound
<1>6. ASSUME InKernel' PROVE TimeBound'
  <2>1. /\ (Pending(up))' = Pending(up) - 1 /\ Pending(up) \in Nat
    <3>1. out'[up] = out[up] - 1 /\ str'[up] = str[up] /\ up' = up
      BY <1>1, <1>2 DEF ConsoleTypes, vars
    <3>2. Sent(str[up].is) \in Nat
      BY <1>1, Pend, Sizes
    <3> QED
      BY <1>1, <3>1, <3>2 DEF Pending
  <2>2. ran + fifo + Pending(up) + (LINES - lines) * LINE <= KERNEL
    BY <1>2, <1>6 DEF TimeBound, InKernel, vars
  <2>3. (LINES - lines) * LINE \in Nat /\ ran \in Nat
    BY Ahead DEF ConsoleTypes, TicksInv, TypeOK
  <2> DEFINE A == (LINES - lines) * LINE
             P == Pending(up)
  <2>4. ran + (fifo + 1) + (P - 1) + A <= KERNEL
    <3>1. ran + fifo + P + A <= KERNEL /\ A \in Nat /\ P \in Nat
      BY <2>1, <2>2, <2>3
    <3> HIDE DEF A, P
    <3> QED
      BY <1>1, <2>3, <3>1, Sizes
  <2> QED
    BY <1>2, <2>1, <2>4 DEF TimeBound, vars
<1> QED
  BY <1>3, <1>4, <1>5, <1>6 DEF TimeBound

-----------------------------------------------------------------------------
(* The steps that Ticks sees. *)

(* While the transmitter has a character left, the path has time left.     *)
LEMMA TimeLeft ==
  ASSUME ConsoleInv, InKernel, fifo > 0
  PROVE  ran < KERNEL
<1>1. up \in Procs /\ ran \in Nat /\ fifo \in Nat
  BY DEF ConsoleInv, TicksInv, TypeOK, InKernel, ConsoleTypes
<1>2. Pending(up) \in Nat /\ (LINES - lines) * LINE \in Nat
  BY <1>1, Pend, Ahead DEF ConsoleInv, ConsoleTypes
<1>3. ran + fifo + Pending(up) + (LINES - lines) * LINE <= KERNEL
  BY DEF ConsoleInv, TimeBound
<1> DEFINE A == (LINES - lines) * LINE
           P == Pending(up)
<1>4. P \in Nat /\ A \in Nat /\ ran + fifo + P + A <= KERNEL
  BY <1>2, <1>3
<1> HIDE DEF A, P
<1> QED
  BY <1>1, <1>4, Sizes

LEMMA TransmitKeeps ==
  ASSUME ConsoleInv, Transmit
  PROVE  ConsoleTypes' /\ WhoPrints' /\ FifoBound' /\ TimeBound'
<1> USE DEF ConsoleInv
<1>1. /\ fifo' = IF fifo > 0 THEN fifo - 1 ELSE 0
      /\ fifo \in Nat /\ ran \in Nat /\ ran' = IF InKernel THEN ran + 1 ELSE 0
      /\ UNCHANGED <<up, place, str, out, clear, lines>>
  BY DEF Transmit, Pass, ConsoleTypes, TicksInv, TypeOK
<1>2. ConsoleTypes'
  BY <1>1 DEF ConsoleTypes
<1>3. WhoPrints'
  BY <1>1 DEF WhoPrints, ConsoleTypes, InKernel
<1>4. FifoBound'
  <2>1. Cardinality(Seeing) \in Nat
    BY SeeingType
  <2> QED
    BY <1>1, <2>1, Sizes DEF FifoBound, Seeing
<1>5. ASSUME InKernel' PROVE TimeBound'
  <2>1. InKernel /\ up \in Procs /\ fifo > 0
    BY <1>1, <1>5 DEF InKernel, Transmit, TicksInv, TypeOK
  <2>2. Pending(up) \in Nat /\ (LINES - lines) * LINE \in Nat
    BY <2>1, Pend, Ahead DEF ConsoleTypes
  <2>3. ran + fifo + Pending(up) + (LINES - lines) * LINE <= KERNEL
    BY <2>1 DEF TimeBound
  <2> DEFINE A == (LINES - lines) * LINE
             P == Pending(up)
  <2>4. (ran + 1) + (fifo - 1) + P + A <= KERNEL
    <3>1. P \in Nat /\ A \in Nat /\ ran + fifo + P + A <= KERNEL
      BY <2>2, <2>3
    <3> HIDE DEF A, P
    <3> QED
      BY <1>1, <3>1, Sizes
  <2>5. (Pending(up))' = Pending(up) /\ ran' = ran + 1 /\ fifo' = fifo - 1
    BY <1>1, <2>1 DEF Pending
  <2> QED
    BY <1>1, <2>4, <2>5 DEF TimeBound
<1> QED
  BY <1>2, <1>3, <1>4, <1>5 DEF TimeBound

(* Who comes to a path of the kernel begins it with nothing printed.       *)
LEMMA PathBegins ==
  ASSUME ConsoleInv, TypeOK', ran' = 0, lines' = 0, UNCHANGED <<str, out, clear, fifo>>,
         up # nil /\ InKernel => Quiet(up),
         \A p \in Procs : p # up => place'[p] = place[p],
         up # nil /\ ~InKernel /\ out[up] > 0 => place'[up] = place[up]
  PROVE  ConsoleTypes' /\ WhoPrints' /\ FifoBound' /\ TimeBound'
         /\ (InKernel' => (Quiet(up))')
<1> USE DEF ConsoleInv
<1>1. ConsoleTypes'
  BY Sizes DEF ConsoleTypes
<1>2. \A p \in Procs : str[p] = NoLine
  BY DEF WhoPrints, Quiet, InKernel
<1>3. \A p \in Procs : out[p] > 0 =>
        place[p] = "user" /\ p \in Printers /\ place'[p] = "user"
  <2> SUFFICES ASSUME NEW p \in Procs, out[p] > 0
               PROVE  place[p] = "user" /\ p \in Printers /\ place'[p] = "user"
    OBVIOUS
  <2>1. ~(up = p /\ InKernel)
    BY DEF Quiet, InKernel
  <2>2. place[p] = "user" /\ p \in Printers
    BY <2>1 DEF WhoPrints
  <2>3. CASE p = up
    BY <2>2, <2>3, TicksAssumption DEF InKernel
  <2> QED
    BY <2>2, <2>3
<1>4. WhoPrints'
  BY <1>2, <1>3 DEF WhoPrints
<1>5. FifoBound'
  BY DEF FifoBound, Seeing
<1>6. InKernel' => up' \in Procs /\ (Quiet(up))'
  <2> SUFFICES ASSUME InKernel' PROVE up' \in Procs /\ (Quiet(up))'
    OBVIOUS
  <2>1. up' \in Procs /\ place'[up'] # "user"
    BY DEF TypeOK, InKernel
  <2>2. out[up'] = 0
    BY <1>3, <2>1 DEF ConsoleTypes
  <2> QED
    BY <1>2, <2>1, <2>2 DEF Quiet
<1>7. ASSUME InKernel' PROVE TimeBound'
  <2>1. (Pending(up))' = 0
    <3>1. up' \in Procs /\ str[up'] = NoLine /\ out[up'] = 0 /\ NoLine.is = <<>>
      BY <1>6, <1>7 DEF Quiet, NoLine
    <3>2. Sent(str[up'].is) = 0
      BY <3>1, NothingSent, Zenon
    <3> QED
      BY <3>1, <3>2 DEF Pending
  <2>2. fifo \in Nat /\ fifo <= Cardinality(Printers) + 1
    <3>1. Cardinality(Seeing) \in Nat
      BY SeeingType
    <3> QED
      BY <3>1, Sizes DEF FifoBound, ConsoleTypes
  <2> DEFINE A == LINES * LINE
             C == Cardinality(Printers)
  <2>3. 0 + fifo + 0 + A <= KERNEL
    <3>1. A \in Nat /\ C \in Nat /\ A + C + 1 <= KERNEL /\ fifo <= C + 1
      BY <2>2, Sizes, Ahead
    <3> HIDE DEF A, C
    <3> QED
      BY <2>2, <3>1, Sizes
  <2>4. (LINES - 0) * LINE = A
    BY Ahead
  <2> HIDE DEF A
  <2> QED
    BY <2>1, <2>3, <2>4 DEF TimeBound
<1> QED
  BY <1>1, <1>4, <1>5, <1>6, <1>7 DEF TimeBound

LEMMA ConsoleMoveKeeps ==
  ASSUME ConsoleInv, Move, TypeOK'
  PROVE  ConsoleTypes' /\ WhoPrints' /\ FifoBound' /\ TimeBound'
         /\ (InKernel' => (Quiet(up))')
<1>1. lines' = 0 /\ UNCHANGED <<str, out, clear, fifo>> /\ (up # nil => Quiet(up))
  BY DEF Move, LineDone
<1>2. ran' = 0 /\ \A p \in Procs : p # up => place'[p] = place[p]
  BY DEF Move, swi, ToUser, Switch, Schedule, ConsoleInv, TicksInv, TypeOK
<1>3. ~(up # nil /\ ~InKernel /\ out[up] > 0)
  BY <1>1 DEF Quiet
<1> QED
  BY <1>1, <1>2, <1>3, PathBegins

LEMMA InterruptIsTick ==
  ASSUME Interrupt
  PROVE  \E n \in Procs \cup {nil} : Due /\ Tick(n)
  BY TimerOnly DEF Interrupt, irq_handler, Handlers

LEMMA InterruptKeeps ==
  ASSUME ConsoleInv, Interrupt, TypeOK'
  PROVE  ConsoleTypes' /\ WhoPrints' /\ FifoBound' /\ TimeBound'
         /\ (InKernel' => (Quiet(up))')
<1>1. PICK n \in Procs \cup {nil} : Due /\ Tick(n)
  BY InterruptIsTick
<1>2. ran' = 0 /\ place' = place /\ lines' = 0 /\ UNCHANGED <<str, out, clear, fifo>>
  BY <1>1 DEF Tick, Schedule, Interrupt
<1>3. InKernel => Quiet(up)
  BY <1>1 DEF ConsoleInv, LinesWhole
<1> QED
  BY <1>2, <1>3, PathBegins

-----------------------------------------------------------------------------
LEMMA ConsoleStep ==
  ASSUME ConsoleInv, [ConsoleNext]_cvars
  PROVE  [Next]_vars
<1>1. ASSUME NEW fmt \in Formats, debug(fmt) PROVE UNCHANGED vars
  BY <1>1 DEF debug
<1>2. CASE debug_puts
  BY <1>2 DEF debug_puts
<1>3. ASSUME NEW text \in Texts, puts(text) PROVE UNCHANGED vars
  BY <1>3 DEF puts
<1>4. CASE putc_ready \/ putc_write
  BY <1>4 DEF putc_ready, putc_write
<1>5. CASE Transmit
  BY <1>5, TimeLeft DEF Transmit, Elapse, Next
<1>6. CASE Move
  BY <1>6 DEF Move, Next
<1>7. CASE Interrupt
  BY <1>7 DEF Interrupt, Next
<1>8. CASE OtherDevice
  BY <1>8 DEF OtherDevice, Next
<1>9. CASE UNCHANGED cvars
  BY <1>9 DEF cvars
<1> QED
  BY <1>1, <1>2, <1>3, <1>4, <1>5, <1>6, <1>7, <1>8, <1>9 DEF ConsoleNext

LEMMA ConsoleInvInit == ConsoleInit => ConsoleInv
<1> SUFFICES ASSUME ConsoleInit PROVE ConsoleInv
  OBVIOUS
<1>1. TicksInv
  BY TicksInit DEF ConsoleInit
<1>2. /\ str = [p \in Procs |-> NoLine] /\ out = [p \in Procs |-> 0]
      /\ clear = [p \in Procs |-> FALSE] /\ fifo \in {0, 1} /\ lines = 0
      /\ up \in Procs /\ ran = 0
  BY DEF ConsoleInit, Init
<1>3. ConsoleTypes
  BY <1>2, Sizes DEF ConsoleTypes, Strs
<1>4. WhoPrints
  BY <1>2 DEF WhoPrints
<1>5. FifoBound
  <2>1. Seeing = {}
    BY <1>2 DEF Seeing
  <2> QED
    BY <1>2, <2>1, Sizes, FS_EmptySet DEF FifoBound
<1>6. Quiet(up)
  BY <1>2 DEF Quiet
<1>7. TimeBound
  <2>1. Pending(up) = 0
    BY <1>2, <1>3, <1>6, Pend
  <2>2. ran + fifo + 0 + (LINES - 0) * LINE <= KERNEL
    <3> DEFINE A == LINES * LINE
               C == Cardinality(Printers)
    <3>1. A \in Nat /\ C \in Nat /\ A + C + 1 <= KERNEL
      BY Sizes, Ahead
    <3>2. (LINES - 0) * LINE = A
      BY Ahead
    <3> HIDE DEF A, C
    <3> QED
      BY <1>2, <3>1, <3>2, Sizes
  <2> QED
    BY <1>2, <2>1, <2>2 DEF TimeBound
<1> QED
  BY <1>1, <1>3, <1>4, <1>5, <1>6, <1>7 DEF ConsoleInv, LinesWhole

LEMMA ConsoleInvNext == ConsoleInv /\ [ConsoleNext]_cvars => ConsoleInv'
<1> SUFFICES ASSUME ConsoleInv, [ConsoleNext]_cvars PROVE ConsoleInv'
  OBVIOUS
<1>1. TicksInv'
  BY ConsoleStep, TicksNext DEF ConsoleInv
<1>2. TypeOK' /\ ((Due /\ InKernel)' => ran' = 0)
  <2>1. (TicksInv => DueAtUnmask)'
    BY DueAtUnmaskOfInv, PTL
  <2> QED
    BY <1>1, <2>1 DEF DueAtUnmask, TicksInv
<1> DEFINE Rest == ConsoleTypes' /\ WhoPrints' /\ FifoBound' /\ TimeBound'
(* Where no time passes and nothing moves, what was not due is not due.    *)
<1>3. ASSUME UNCHANGED vars PROVE Due' <=> Due
  BY <1>3 DEF vars, Due, Signalled, Unmasked
<1>4. ASSUME NEW fmt \in Formats, debug(fmt) PROVE Rest /\ LinesWhole'
  BY <1>3, <1>4, debugKeeps DEF debug, At, LinesWhole
<1>5. CASE debug_puts
  <2>1. Rest
    BY <1>5, debug_putsKeeps
  <2>2. LinesWhole'
    BY <1>3, <1>5 DEF debug_puts, At, LinesWhole
  <2> QED
    BY <2>1, <2>2, <1>1 DEF ConsoleInv
<1>6. ASSUME NEW text \in Texts, puts(text) PROVE Rest /\ LinesWhole'
  BY <1>3, <1>6, putsKeeps DEF puts, At, LinesWhole
<1>7. CASE putc_ready \/ putc_write
  <2>1. Rest
    BY <1>7, putc_readyKeeps, putc_writeKeeps
  <2>2. LinesWhole'
    BY <1>3, <1>7 DEF putc_ready, putc_write, LinesWhole
  <2> QED
    BY <2>1, <2>2, <1>1 DEF ConsoleInv
<1>8. CASE Transmit
  <2>1. Rest
    BY <1>8, TransmitKeeps
  <2>2. InKernel' => ran' # 0
    BY <1>8 DEF Transmit, Pass, InKernel, ConsoleInv, TicksInv, TypeOK
  <2> QED
    BY <1>1, <1>2, <2>1, <2>2 DEF ConsoleInv, LinesWhole
<1>9. CASE Move
  BY <1>1, <1>2, <1>9, ConsoleMoveKeeps DEF ConsoleInv, LinesWhole
<1>10. CASE Interrupt
  BY <1>1, <1>2, <1>10, InterruptKeeps DEF ConsoleInv, LinesWhole
<1>11. CASE OtherDevice
  <2>1. PICK irqn \in Irqs \ {TINT2} : Device(irqn)
    BY <1>11 DEF OtherDevice
  <2>2. UNCHANGED <<up, place, left, irqstatus, control, ran, since, console>>
    BY <1>11, <2>1 DEF OtherDevice, Device
  <2>3. Due' <=> Due
    <3>1. (Due <=> irqstatus /\ control /\ Unmasked)'
      BY DueIs, PTL
    <3> QED
      BY <2>2, <3>1, DueIs DEF Unmasked
  <2>4. Rest
    BY <2>2 DEF console, ConsoleInv, ConsoleTypes, WhoPrints, FifoBound, TimeBound,
                InKernel, Seeing, Pending
  <2> QED
    BY <1>1, <2>2, <2>3, <2>4 DEF console, ConsoleInv, LinesWhole, InKernel, Quiet
<1>12. CASE UNCHANGED cvars
  BY <1>1, <1>3, <1>12 DEF cvars, console, vars, ConsoleInv, ConsoleTypes, WhoPrints,
                    FifoBound, TimeBound, LinesWhole, InKernel, Seeing, Pending, Quiet
<1> QED
  BY <1>1, <1>4, <1>5, <1>6, <1>7, <1>8, <1>9, <1>10, <1>11, <1>12
     DEF ConsoleNext, ConsoleInv

-----------------------------------------------------------------------------
THEOREM ConsoleCorrect == ConsoleSpec => []ConsoleInv
  BY ConsoleInvInit, ConsoleInvNext, PTL DEF ConsoleSpec

(* A kernel that waits for the UART in every putc does what Ticks allows a *)
(* kernel: the theorems about Ticks are about it, and what Kern and Boot   *)
(* take from Ticks they take from it.                                      *)
THEOREM ConsoleImplementsTicks == ConsoleSpec => ImplementsTicks
<1>1. ConsoleInit => Init
  BY DEF ConsoleInit
<1>2. ConsoleInv /\ [ConsoleNext]_cvars => [Next]_vars
  BY ConsoleStep
<1> QED
  BY <1>1, <1>2, ConsoleCorrect, PTL DEF ConsoleSpec, ImplementsTicks, Spec

(* The tick does not tear a line that debug prints.                        *)
THEOREM ConsoleLinesWhole == ConsoleSpec => []LinesWhole
<1>1. ConsoleInv => LinesWhole
  BY DEF ConsoleInv
<1> QED
  BY <1>1, ConsoleCorrect, PTL

(* However the waits of putc in the programs and in the kernel overlap,    *)
(* the transmitter is not given more than a character for each program     *)
(* that prints, and one.                                                   *)
THEOREM ConsoleNoOverrun == ConsoleSpec => []NoOverrun
<1>1. ConsoleInv => NoOverrun
  <2> SUFFICES ASSUME ConsoleInv PROVE NoOverrun
    OBVIOUS
  <2>1. Cardinality(Seeing) \in Nat /\ fifo \in Nat
    BY SeeingType DEF ConsoleInv, ConsoleTypes
  <2> QED
    BY <2>1, Sizes DEF ConsoleInv, FifoBound, NoOverrun
<1> QED
  BY <1>1, ConsoleCorrect, PTL

-----------------------------------------------------------------------------
(* The busy waits of the kernel end. *)

Printing == InKernel /\ ~Quiet(up)

(* What is left to do: the characters, three steps for each, what the      *)
(* transmitter holds, and the line that debug has yet to hand to puts.     *)
Work == 3 * Pending(up) + fifo + (IF str[up] # NoLine THEN 1 ELSE 0)
                               - (IF clear[up] THEN 1 ELSE 0)

(* While the kernel prints, the CPU stays with it, and each step of it     *)
(* leaves less to do; only the other devices do something else.            *)
PrintingEnds ==
  [][Printing =>
       /\ UNCHANGED <<up, place>>
       /\ (Work' \in Nat /\ Work' < Work) \/ OtherDevice]_cvars

LEMMA WorkType == ConsoleInv /\ up \in Procs => Work \in Nat
<1> SUFFICES ASSUME ConsoleInv, up \in Procs PROVE Work \in Nat
  OBVIOUS
<1>1. /\ out[up] \in Nat /\ Sent(str[up].is) \in Nat /\ fifo \in Nat
      /\ Pending(up) = out[up] + Sent(str[up].is)
  BY Pend, Sizes DEF ConsoleInv, ConsoleTypes, Pending
<1>2. clear[up] => out[up] > 0
  BY DEF ConsoleInv, WhoPrints
<1>3. str[up] # NoLine => ~clear[up]
  BY <1>1, <1>2 DEF ConsoleInv, WhoPrints
<1> QED
  BY <1>1, <1>2, <1>3 DEF Work

LEMMA LineHandedOver ==
  ASSUME ConsoleInv, up \in Procs, debug_puts
  PROVE  UNCHANGED <<up, place>> /\ Work' < Work
<1>1. str[up] # NoLine /\ UNCHANGED <<up, place, fifo, clear>>
  BY DEF debug_puts, vars
<1>2. out[up] = 0 /\ ~clear[up]
  BY <1>1 DEF ConsoleInv, WhoPrints, ConsoleTypes
<1>3. str'[up] = NoLine /\ out'[up] = Sent(str[up].is) /\ Sent(NoLine.is) = 0
  <2>1. NoLine.is = <<>>
    BY DEF NoLine
  <2> QED
    BY <2>1, NothingSent DEF debug_puts, ConsoleInv, ConsoleTypes
<1>4. Sent(str[up].is) \in Nat /\ fifo \in Nat
  BY Pend, Sizes DEF ConsoleInv, ConsoleTypes
<1>5. Pending(up)' = Pending(up)
  BY <1>1, <1>2, <1>3, <1>4 DEF Pending
<1>6. Pending(up) \in Nat
  BY Pend DEF ConsoleInv
<1> QED
  BY <1>1, <1>2, <1>3, <1>4, <1>5, <1>6 DEF Work

LEMMA CharacterSent ==
  ASSUME ConsoleInv, up \in Procs, InKernel, putc_ready \/ putc_write \/ Transmit
  PROVE  UNCHANGED <<up, place>> /\ Work' < Work
<1>1. UNCHANGED <<up, place, str>>
  BY DEF putc_ready, putc_write, Transmit, Pass, vars
<1>2. /\ out[up] \in Nat /\ Sent(str[up].is) \in Nat /\ fifo \in Nat
      /\ clear \in [Procs -> BOOLEAN] /\ out \in [Procs -> Nat]
  BY Pend, Sizes DEF ConsoleInv, ConsoleTypes
<1>3. Pending(up) = out[up] + Sent(str[up].is) /\ Pending(up)' = out'[up] + Sent(str[up].is)
  BY <1>1 DEF Pending
<1>4. CASE putc_ready
  <2>1. clear'[up] /\ ~clear[up] /\ out'[up] = out[up] /\ fifo' = fifo
    BY <1>2, <1>4 DEF putc_ready
  <2> QED
    BY <1>1, <1>2, <1>3, <2>1 DEF Work
<1>5. CASE putc_write
  <2>1. ~clear'[up] /\ clear[up] /\ out'[up] = out[up] - 1 /\ fifo' = fifo + 1
    BY <1>2, <1>5 DEF putc_write
  <2> QED
    BY <1>1, <1>2, <1>3, <2>1 DEF Work
<1>6. CASE Transmit
  <2>1. UNCHANGED <<clear, out>> /\ fifo' = fifo - 1
    BY <1>2, <1>6 DEF Transmit
  <2> QED
    BY <1>1, <1>2, <1>3, <2>1 DEF Work
<1> QED
  BY <1>4, <1>5, <1>6

(* Whatever lines the paths print and however full the transmitter is, no  *)
(* busy wait of the kernel is interrupted, given up, or without end.       *)
THEOREM ConsolePrintingEnds == ConsoleSpec => PrintingEnds
<1> DEFINE Less == Printing =>
             /\ UNCHANGED <<up, place>>
             /\ (Work' \in Nat /\ Work' < Work) \/ OtherDevice
           Counted == up \in Procs => Work \in Nat
<1>1. ConsoleInv => Counted
  BY WorkType
<1>2. ConsoleInv /\ Counted' /\ [ConsoleNext]_cvars => [Less]_cvars
  <2> SUFFICES ASSUME ConsoleInv, Counted', ConsoleNext, Printing PROVE Less
    OBVIOUS
  <2>1. up \in Procs /\ place[up] # "user"
    BY DEF Printing, InKernel, ConsoleInv, TicksInv, TypeOK
  <2>2. ~Due /\ ~Quiet(up) /\ up # nil
    BY DEF Printing, ConsoleInv, LinesWhole, InKernel
  <2>3. CASE debug_puts \/ putc_ready \/ putc_write \/ Transmit
    <3>1. UNCHANGED <<up, place>> /\ Work' < Work
      BY <2>1, <2>3, LineHandedOver, CharacterSent DEF Printing
    <3>2. Work' \in Nat
      BY <2>1, <3>1
    <3> QED
      BY <3>1, <3>2
  <2>4. CASE OtherDevice
    BY <2>4 DEF OtherDevice, Device
  <2>5. ~ Interrupt /\ ~ Move
    BY <2>2 DEF Interrupt, irq_handler, Move, LineDone
  <2>6. \A fmt, text : ~ debug(fmt) /\ ~ puts(text)
    BY <2>2 DEF debug, puts
  <2> QED
    BY <2>3, <2>4, <2>5, <2>6 DEF ConsoleNext
<1> QED
  BY <1>1, <1>2, ConsoleCorrect, PTL DEF ConsoleSpec, PrintingEnds

-----------------------------------------------------------------------------
(* Format: what vsnprintf writes, for every format and size of str.        *)

(* The text of numbers.                                                    *)

LEMMA PowerIs ==
  ASSUME NEW base \in Nat
  PROVE  /\ Power(base) \in [Nat -> Nat]
         /\ Power(base)[0] = 1
         /\ \A k \in Nat \ {0} : Power(base)[k] = base * Power(base)[k - 1]
<1> DEFINE step == [x \in Nat \X Nat |-> base * x[2]]
           Turns(f) == [k \in Nat |-> IF k = 0 THEN 1 ELSE base * f[k - 1]]
           p == CHOOSE f : f = Turns(f)
<1>1. step \in [Nat \X Nat -> Nat] /\ \A k \in Nat, v \in Nat : step[<<k, v>>] = base * v
  OBVIOUS
<1> HIDE DEF step
<1>2. PICK f : RunsOn(f, Nat, 1, step)
  BY <1>1, LoopExists, Zenon
<1>3. ASSUME NEW k \in Nat PROVE f[k] = IF k = 0 THEN 1 ELSE base * f[k - 1]
  <2>1. k # 0 => k - 1 \in Nat /\ f[k - 1] \in Nat
    BY <1>2 DEF RunsOn
  <2> QED
    BY <1>1, <1>2, <2>1 DEF RunsOn
<1>4. f = Turns(f) /\ f \in [Nat -> Nat]
  BY <1>2, <1>3 DEF RunsOn
<1>5. p = Turns(p)
  BY <1>4
<1>6. Power(base) = p
  BY DEF Power
<1> HIDE DEF p
<1>7. \A k \in Nat : p[k] = IF k = 0 THEN 1 ELSE base * p[k - 1]
  BY <1>5
<1>8. ASSUME NEW n \in Nat PROVE p[n] \in Nat
  <2> DEFINE T == {k \in Nat : p[k] \in Nat}
  <2>1. 0 \in T
    BY <1>7
  <2>2. ASSUME NEW k \in 1 .. n, k - 1 \in T PROVE k \in T
    BY <1>7, <2>2
  <2> HIDE DEF T
  <2>3. 0 .. n \subseteq T
    BY <2>1, <2>2, EveryTurn
  <2> QED
    BY <2>3 DEF T
<1>9. p \in [Nat -> Nat]
  BY <1>5, <1>8
<1> QED
  BY <1>6, <1>7, <1>9

LEMMA PowersGrow ==
  ASSUME NEW base \in Nat, base >= 2, NEW k \in Nat
  PROVE  Power(base)[k] > k /\ \A j \in 0 .. k : Power(base)[j] <= Power(base)[k]
<1> DEFINE p == Power(base)
           T == {c \in Nat : p[c] > c /\ \A j \in 0 .. c : p[j] <= p[c]}
<1>1. p \in [Nat -> Nat] /\ p[0] = 1 /\ \A c \in Nat \ {0} : p[c] = base * p[c - 1]
  BY PowerIs
<1> HIDE DEF p
<1>2. 0 \in T
  BY <1>1
<1>3. ASSUME NEW c \in 1 .. k, c - 1 \in T PROVE c \in T
  <2>1. c \in Nat /\ c # 0 /\ c - 1 \in Nat /\ p[c - 1] \in Nat /\ p[c] = base * p[c - 1]
    BY <1>1
  <2>2. p[c] >= 2 * p[c - 1] /\ p[c] \in Nat
    BY <2>1
  <2>3. p[c - 1] > c - 1
    BY <1>3
  <2>4. p[c] > c /\ p[c] >= p[c - 1]
    BY <2>1, <2>2, <2>3
  <2>5. ASSUME NEW j \in 0 .. c PROVE p[j] <= p[c]
    <3>1. CASE j = c
      BY <2>2, <3>1
    <3>2. CASE j # c
      <4>1. j \in 0 .. c - 1 /\ p[j] \in Nat
        BY <1>1, <3>2
      <4>2. p[j] <= p[c - 1]
        BY <1>3, <4>1
      <4> QED
        BY <2>1, <2>2, <2>4, <4>1, <4>2
    <3> QED
      BY <3>1, <3>2
  <2> QED
    BY <2>1, <2>4, <2>5
<1> HIDE DEF T
<1>4. 0 .. k \subseteq T
  BY <1>2, <1>3, EveryTurn
<1> QED
  BY <1>4 DEF T, p

LEMMA Division ==
  ASSUME NEW i \in Nat, NEW d \in Nat, d > 0
  PROVE  /\ i \div d \in Nat
         /\ d * (i \div d) <= i /\ i < d * (i \div d) + d
         /\ i \div d = 0 <=> i < d
OBVIOUS

LEMMA Quotient ==
  ASSUME NEW i \in Nat, NEW d \in Nat, d > 0, NEW q \in Nat, d * q <= i, i < d * q + d
  PROVE  i \div d = q
OBVIOUS

(* Dividing by p and then by b is dividing by both.                        *)
LEMMA DivisionTwice ==
  ASSUME NEW i \in Nat, NEW p \in Nat, NEW b \in Nat, p > 0, b > 0
  PROVE  (i \div p) \div b = i \div (b * p)
<1> DEFINE q == i \div p
           r == q \div b
<1>1. q \in Nat /\ p * q <= i /\ i < p * q + p
  BY Division
<1> HIDE DEF q
<1>2. r \in Nat /\ b * r <= q /\ q < b * r + b
  BY <1>1, Division
<1> HIDE DEF r
<1>3. b * p \in Nat /\ b * p > 0 /\ b * r \in Nat
  BY <1>2
<1>4. (b * p) * r = p * (b * r)
  BY <1>2
<1>5. p * (b * r) <= p * q
  BY <1>1, <1>2, <1>3
<1>6. p * (b * r) + b * p = p * (b * r + b)
  BY <1>2, <1>3
<1>7. q + 1 <= b * r + b
  BY <1>1, <1>2, <1>3
<1>8. p * (q + 1) <= p * (b * r + b)
  BY <1>1, <1>3, <1>7
<1>9. p * (q + 1) = p * q + p
  BY <1>1
<1>10. p * q \in Nat /\ p * (b * r) \in Nat /\ p * (b * r + b) \in Nat
  BY <1>1, <1>3
<1>11. (b * p) * r <= i /\ i < (b * p) * r + b * p
  BY <1>1, <1>3, <1>4, <1>5, <1>6, <1>8, <1>9, <1>10
<1>12. i \div (b * p) = r
  BY <1>2, <1>3, <1>11, Quotient
<1> QED
  BY <1>12 DEF q, r

(* How many digits i has.                                                  *)
Size(i, base) ==
  CHOOSE k \in 1 .. i + 1 : i < Power(base)[k] /\ (k > 1 => i >= Power(base)[k - 1])

LEMMA SizeIs ==
  ASSUME NEW i \in Nat, NEW base \in Nat, base >= 2
  PROVE  /\ Size(i, base) \in 1 .. i + 1
         /\ i < Power(base)[Size(i, base)]
         /\ \A k \in 1 .. Size(i, base) - 1 : i >= Power(base)[k]
<1> DEFINE p == Power(base)
           T == {k \in Nat : k >= 1 /\ i < p[k]}
           IsSize(k) == i < p[k] /\ (k > 1 => i >= p[k - 1])
           s == CHOOSE k \in 1 .. i + 1 : IsSize(k)
<1>1. p \in [Nat -> Nat] /\ i < p[i + 1]
      /\ \A k \in Nat : \A j \in 0 .. k : p[j] <= p[k]
  <2>1. i + 1 \in Nat /\ p[i + 1] > i + 1
    BY PowersGrow
  <2>2. p \in [Nat -> Nat] /\ \A k \in Nat : \A j \in 0 .. k : p[j] <= p[k]
    BY PowerIs, PowersGrow
  <2> HIDE DEF p
  <2> QED
    BY <2>1, <2>2
<1> HIDE DEF p
<1>2. PICK c \in T : \A k \in T : c <= k
  <2>1. T \subseteq Nat /\ i + 1 \in T
    BY <1>1
  <2> HIDE DEF T
  <2> QED
    BY <2>1, LeastNat
<1>3. c \in 1 .. i + 1 /\ i < p[c]
  <2>1. i + 1 \in T
    BY <1>1
  <2> QED
    BY <1>2, <2>1
<1>4. c > 1 => i >= p[c - 1]
  <2>1. c > 1 => c - 1 \in Nat /\ c - 1 >= 1 /\ ~ (c <= c - 1) /\ p[c - 1] \in Nat
    BY <1>1, <1>3
  <2> QED
    BY <1>2, <2>1
<1>5. s \in 1 .. i + 1 /\ IsSize(s)
  BY <1>3, <1>4
<1> HIDE DEF s
<1>6. ASSUME NEW k \in 1 .. s - 1 PROVE i >= p[k]
  <2>1. s > 1 /\ s - 1 \in Nat /\ k \in 0 .. s - 1 /\ k \in Nat
    BY <1>5
  <2>2. p[k] <= p[s - 1] /\ p[s - 1] \in Nat /\ p[k] \in Nat
    BY <1>1, <2>1
  <2> QED
    BY <1>5, <2>1, <2>2
<1>7. Size(i, base) = s
  BY DEF Size, s, p
<1> QED
  BY <1>5, <1>6, <1>7 DEF p

(* printint finds the digits of the numeral, the last first.               *)
LEMMA ReversedIs ==
  ASSUME NEW i \in Nat, NEW base \in Nat, base >= 2
  PROVE  Reversed(i, base) =
           [c \in 1 .. Size(i, base) |->
              Digit[((i \div Power(base)[c - 1]) % base) + 1]]
<1> DEFINE p == Power(base)
           Turns(f) == [c \in Nat |-> IF c = 0 THEN i ELSE f[c - 1] \div base]
           A == [c \in Nat |-> i \div p[c]]
           rest == CHOOSE f : f = Turns(f)
           Ends(c) == rest[c] = 0 /\ \A d \in 1 .. c - 1 : rest[d] > 0
           turns == CHOOSE c \in 1 .. i + 1 : Ends(c)
           size == Size(i, base)
<1>1. Reversed(i, base) = [c \in 1 .. turns |-> Digit[(rest[c - 1] % base) + 1]]
  BY DEF Reversed
<1>2. /\ p \in [Nat -> Nat] /\ p[0] = 1 /\ \A c \in Nat : p[c] > 0
      /\ \A c \in Nat \ {0} : p[c] = base * p[c - 1]
  <2>1. \A c \in Nat : p[c] > c
    BY PowersGrow
  <2>2. p \in [Nat -> Nat] /\ p[0] = 1 /\ \A c \in Nat \ {0} : p[c] = base * p[c - 1]
    BY PowerIs
  <2> HIDE DEF p
  <2> QED
    BY <2>1, <2>2
<1>3. size \in 1 .. i + 1 /\ i < p[size] /\ \A k \in 1 .. size - 1 : i >= p[k]
  BY SizeIs
<1> HIDE DEF p, size
<1>4. ASSUME NEW c \in Nat
      PROVE  A[c] = IF c = 0 THEN i ELSE A[c - 1] \div base
  <2>1. CASE c = 0
    BY <1>2, <2>1
  <2>2. CASE c # 0
    <3>1. c - 1 \in Nat /\ p[c - 1] \in Nat /\ p[c - 1] > 0 /\ p[c] = base * p[c - 1]
      BY <1>2, <2>2
    <3>2. (i \div p[c - 1]) \div base = i \div (base * p[c - 1])
      BY <3>1, DivisionTwice
    <3> QED
      BY <2>2, <3>1, <3>2
  <2> QED
    BY <2>1, <2>2
<1>5. rest = Turns(rest)
  <2>1. A = [c \in Nat |-> A[c]]
    OBVIOUS
  <2> HIDE DEF A
  <2>2. A = Turns(A)
    BY <1>4, <2>1
  <2> QED
    BY <2>2
<1> HIDE DEF rest
<1>6. ASSUME NEW n \in Nat PROVE rest[n] = i \div p[n]
  <2> DEFINE T == {c \in Nat : rest[c] = i \div p[c]}
  <2>1. 0 \in T
    BY <1>2, <1>5
  <2>2. ASSUME NEW c \in 1 .. n, c - 1 \in T PROVE c \in T
    <3>1. c \in Nat /\ c # 0 /\ c - 1 \in Nat
      OBVIOUS
    <3>2. rest[c] = rest[c - 1] \div base
      BY <1>5, <3>1
    <3>3. A[c] = A[c - 1] \div base
      BY <1>4, <3>1
    <3> QED
      BY <2>2, <3>1, <3>2, <3>3
  <2> HIDE DEF T
  <2>3. 0 .. n \subseteq T
    BY <2>1, <2>2, EveryTurn
  <2> QED
    BY <2>3 DEF T
<1>7. ASSUME NEW c \in Nat
      PROVE  (rest[c] = 0 <=> i < p[c]) /\ (rest[c] > 0 <=> i >= p[c])
  <2>1. p[c] \in Nat /\ p[c] > 0
    BY <1>2
  <2>2. i \div p[c] \in Nat /\ (i \div p[c] = 0 <=> i < p[c])
    BY <2>1, Division
  <2> QED
    BY <1>6, <2>1, <2>2
<1>8. turns = size
  <2>1. Ends(size)
    <3>1. \A d \in 1 .. size - 1 : d \in Nat
      BY <1>3
    <3> QED
      BY <1>3, <1>7, <3>1
  <2>2. turns \in 1 .. i + 1 /\ Ends(turns)
    BY <1>3, <2>1
  <2> HIDE DEF turns
  <2>3. ~ (turns < size)
    <3>1. turns < size => turns \in 1 .. size - 1
      BY <1>3, <2>2
    <3> QED
      BY <2>1, <2>2, <3>1
  <2>4. ~ (size < turns)
    <3>1. size < turns => size \in 1 .. turns - 1
      BY <1>3, <2>2
    <3> QED
      BY <2>1, <2>2, <3>1
  <2> QED
    BY <1>3, <2>2, <2>3, <2>4
<1> HIDE DEF turns
<1>9. ASSUME NEW c \in 1 .. size PROVE rest[c - 1] = i \div p[c - 1]
  <2>1. c - 1 \in Nat
    BY <1>3
  <2> QED
    BY <1>6, <2>1
<1>10. [c \in 1 .. turns |-> Digit[(rest[c - 1] % base) + 1]]
         = [c \in 1 .. size |-> Digit[((i \div p[c - 1]) % base) + 1]]
  BY <1>8, <1>9
<1> QED
  BY <1>1, <1>10 DEF size, p

Chars == {Digit[d] : d \in 1 .. 16}

LEMMA NumeralIs ==
  ASSUME NEW i \in Nat, NEW base \in 2 .. 16
  PROVE  /\ Reverse(Reversed(i, base)) = Numeral(i, base)
         /\ Numeral(i, base) \in Seq(Chars)
         /\ Len(Numeral(i, base)) = Size(i, base)
<1> DEFINE size == Size(i, base)
           digit(k) == Digit[((i \div Power(base)[k]) % base) + 1]
           rev == [c \in 1 .. size |-> digit(c - 1)]
           num == [k \in 1 .. size |-> digit(size - k)]
<1>1. size \in Nat
  BY SizeIs
<1>2. Numeral(i, base) = num
  BY DEF Numeral, Size
<1>3. Reversed(i, base) = rev
  BY ReversedIs
<1>4. ASSUME NEW k \in Nat PROVE digit(k) \in Chars
  <2>1. Power(base)[k] \in Nat /\ Power(base)[k] > 0
    <3>1. base \in Nat /\ base >= 2
      OBVIOUS
    <3>2. Power(base) \in [Nat -> Nat]
      BY <3>1, PowerIs
    <3>3. Power(base)[k] > k
      BY <3>1, PowersGrow
    <3> QED
      BY <3>2, <3>3
  <2>2. i \div Power(base)[k] \in Nat
    BY <2>1, Division
  <2>3. \A n \in Nat : (n % base) + 1 \in 1 .. 16
    OBVIOUS
  <2>4. ((i \div Power(base)[k]) % base) + 1 \in 1 .. 16
    BY <2>2, <2>3
  <2> QED
    BY <2>4 DEF Chars
<1> HIDE DEF size, digit
<1>5. num \in Seq(Chars) /\ Len(num) = size
  <2>1. \A k \in 1 .. size : size - k \in Nat
    BY <1>1
  <2> QED
    BY <1>1, <1>4, <2>1
<1>6. Reverse(rev) = num
  <2>1. Len(rev) = size /\ DOMAIN rev = 1 .. size
    BY <1>1
  <2>2. \A k \in 1 .. size : (size - k) + 1 \in 1 .. size /\ ((size - k) + 1) - 1 = size - k
    BY <1>1
  <2>3. \A k \in 1 .. size : rev[(size - k) + 1] = digit(size - k)
    BY <2>2
  <2> HIDE DEF rev
  <2>4. Reverse(rev) = [k \in 1 .. size |-> rev[(size - k) + 1]]
    BY <2>1 DEF Reverse
  <2> QED
    BY <2>3, <2>4
<1> QED
  BY <1>2, <1>3, <1>5, <1>6 DEF size

(* The text of items and formats, over the characters C.                   *)

LEMMA CutIs ==
  ASSUME NEW C, NEW s \in Seq(C), NEW room \in Nat
  PROVE  /\ Cut(s, room) \in Seq(C)
         /\ Len(Cut(s, room)) = IF room <= Len(s) THEN room ELSE Len(s)
         /\ \A i \in 1 .. Len(s) : i <= room => Cut(s, room)[i] = s[i]
<1> DEFINE n == IF room <= Len(s) THEN room ELSE Len(s)
<1>1. n \in Nat /\ n <= Len(s) /\ \A i \in 1 .. n : i \in 1 .. Len(s)
  OBVIOUS
<1>2. Cut(s, room) = SubSeq(s, 1, n)
  BY DEF Cut
<1> HIDE DEF n
<1>3. /\ SubSeq(s, 1, n) \in Seq(C) /\ Len(SubSeq(s, 1, n)) = n
      /\ \A i \in 1 .. n : SubSeq(s, 1, n)[i] = s[i]
  BY <1>1
<1> QED
  BY <1>2, <1>3 DEF n

(* What there is room for is not cut.                                      *)
LEMMA CutNothing ==
  ASSUME NEW C, NEW s \in Seq(C), NEW room \in Nat, Len(s) <= room
  PROVE  Cut(s, room) = s
<1>1. Cut(s, room) \in Seq(C) /\ Len(Cut(s, room)) = Len(s)
      /\ \A i \in 1 .. Len(s) : Cut(s, room)[i] = s[i]
  BY CutIs
<1> QED
  BY <1>1, ST!SeqEqual

(* What comes after a first part that fills the room is lost ...           *)
LEMMA CutFirst ==
  ASSUME NEW C, NEW s \in Seq(C), NEW t \in Seq(C), NEW room \in Nat, room <= Len(s)
  PROVE  Cut(s \o t, room) = Cut(s, room)
<1> DEFINE st == s \o t
<1>1. /\ st \in Seq(C) /\ Len(st) = Len(s) + Len(t)
      /\ \A i \in 1 .. Len(s) + Len(t) : st[i] = IF i <= Len(s) THEN s[i] ELSE t[i - Len(s)]
  BY ST!ConcatProperties
<1> HIDE DEF st
<1>2. Len(s) \in Nat /\ Len(t) \in Nat
  OBVIOUS
<1>3. /\ Cut(st, room) \in Seq(C) /\ Len(Cut(st, room)) = room
      /\ \A i \in 1 .. room : Cut(st, room)[i] = st[i]
  BY <1>1, <1>2, CutIs
<1>4. /\ Cut(s, room) \in Seq(C) /\ Len(Cut(s, room)) = room
      /\ \A i \in 1 .. room : Cut(s, room)[i] = s[i]
  BY <1>2, CutIs
<1>5. \A i \in 1 .. room : st[i] = s[i]
  BY <1>1, <1>2
<1>6. Cut(st, room) = Cut(s, room)
  BY <1>3, <1>4, <1>5, ST!SeqEqual
<1> QED
  BY <1>6 DEF st

(* ... and after one that does not, what is left of the room is for it.    *)
LEMMA CutSecond ==
  ASSUME NEW C, NEW s \in Seq(C), NEW t \in Seq(C), NEW room \in Nat, Len(s) <= room
  PROVE  Cut(s \o t, room) = s \o Cut(t, room - Len(s))
<1> DEFINE st == s \o t
           rest == room - Len(s)
           c == Cut(t, rest)
           sc == s \o c
<1>1. /\ st \in Seq(C) /\ Len(st) = Len(s) + Len(t)
      /\ \A i \in 1 .. Len(s) + Len(t) : st[i] = IF i <= Len(s) THEN s[i] ELSE t[i - Len(s)]
  BY ST!ConcatProperties
<1>2. Len(s) \in Nat /\ Len(t) \in Nat /\ rest \in Nat
  OBVIOUS
<1>3. /\ c \in Seq(C) /\ Len(c) = IF rest <= Len(t) THEN rest ELSE Len(t)
      /\ \A i \in 1 .. Len(t) : i <= rest => c[i] = t[i]
  BY <1>2, CutIs
<1> HIDE DEF c, st
<1>4. /\ sc \in Seq(C) /\ Len(sc) = Len(s) + Len(c)
      /\ \A i \in 1 .. Len(s) + Len(c) : sc[i] = IF i <= Len(s) THEN s[i] ELSE c[i - Len(s)]
  BY <1>3, ST!ConcatProperties
<1> HIDE DEF sc
<1>5. /\ Cut(st, room) \in Seq(C)
      /\ Len(Cut(st, room)) = IF room <= Len(st) THEN room ELSE Len(st)
      /\ \A i \in 1 .. Len(st) : i <= room => Cut(st, room)[i] = st[i]
  BY <1>1, CutIs
<1>6. Len(Cut(st, room)) = Len(sc)
  BY <1>1, <1>2, <1>3, <1>4, <1>5
<1>7. ASSUME NEW i \in 1 .. Len(sc) PROVE Cut(st, room)[i] = sc[i]
  <2>1. i \in 1 .. Len(st) /\ i <= room
    BY <1>1, <1>2, <1>3, <1>4
  <2>2. Cut(st, room)[i] = st[i]
    BY <1>5, <2>1
  <2>3. CASE i <= Len(s)
    BY <1>1, <1>2, <1>3, <1>4, <2>1, <2>2, <2>3
  <2>4. CASE ~ (i <= Len(s))
    <3>1. i - Len(s) \in 1 .. Len(t) /\ i - Len(s) <= rest
      BY <1>1, <1>2, <1>3, <1>4, <2>1, <2>4
    <3>2. sc[i] = c[i - Len(s)] /\ st[i] = t[i - Len(s)]
      BY <1>1, <1>2, <1>3, <1>4, <2>1, <2>4
    <3> QED
      BY <1>3, <2>2, <3>1, <3>2
  <2> QED
    BY <2>3, <2>4
<1>8. Cut(st, room) = sc
  BY <1>4, <1>5, <1>6, <1>7, ST!SeqEqual
<1> QED
  BY <1>8 DEF st, sc, c

(* printint writes the beginning of the numeral.                           *)
LEMMA PrintintIs ==
  ASSUME NEW i \in Nat, NEW base \in 2 .. 16, NEW max
  PROVE  printint(max, i, base) = Cut(Numeral(i, base), max)
BY NumeralIs DEF printint

(* An item whose characters are among C.                                  *)
IsItemOver(item, C) ==
  /\ IsItem(item)
  /\ item.conv \in {"plain", "c"} => item.arg \in C
  /\ item.conv = "s" => item.arg \in Seq(C)

(* The bases that printint is called with. *)
LEMMA BaseIs ==
  /\ Base.i = 10
  /\ \A conv \in {"i", "u", "h", "b"} : Base[conv] \in 2 .. 16
BY DEF Base

(* Texts are sequences over the same characters. *)
LEMMA NumeralOver ==
  ASSUME NEW C, Chars \subseteq C, NEW i \in Nat, NEW base \in 2 .. 16
  PROVE  Numeral(i, base) \in Seq(C)
<1>1. Numeral(i, base) \in Seq(Chars)
  BY NumeralIs
<1> QED
  BY <1>1

LEMMA TextOver ==
  ASSUME NEW C, Chars \subseteq C, "-" \in C, NEW item, IsItemOver(item, C)
  PROVE  Text(item) \in Seq(C)
<1>1. CASE item.conv \in {"plain", "c"}
  <2>1. Text(item) = <<item.arg>> /\ item.arg \in C
    BY <1>1 DEF Text, IsItemOver
  <2> QED
    BY <2>1
<1>2. CASE item.conv = "s"
  BY <1>2 DEF Text, IsItemOver
<1>3. CASE item.conv \in {"i", "u", "h", "b"}
  <2>1. Base[item.conv] \in 2 .. 16 /\ item.arg \in Int
    <3>1. Base[item.conv] \in 2 .. 16
      BY <1>3, BaseIs
    <3>2. item.arg \in Int
      BY <1>3, SMTT(20) DEF IsItemOver, IsItem
    <3> QED
      BY <3>1, <3>2
  <2>2. Text(item) = IF item.arg < 0 THEN <<"-">> \o Numeral(-item.arg, Base[item.conv])
                     ELSE Numeral(item.arg, Base[item.conv])
    BY <1>3 DEF Text
  <2>3. CASE item.arg < 0
    <3>1. -item.arg \in Nat
      BY <2>1, <2>3
    <3>2. Numeral(-item.arg, Base[item.conv]) \in Seq(C)
      BY <2>1, <3>1, NumeralOver
    <3>3. <<"-">> \in Seq(C)
      OBVIOUS
    <3> QED
      BY <2>2, <2>3, <3>2, <3>3, ST!ConcatProperties
  <2>4. CASE ~ (item.arg < 0)
    <3>1. item.arg \in Nat
      BY <2>1, <2>4
    <3> QED
      BY <2>1, <2>2, <2>4, <3>1, NumeralOver
  <2> QED
    BY <2>3, <2>4
<1> QED
  BY <1>1, <1>2, <1>3 DEF IsItemOver, IsItem

(* A sign in front of a text, or at the end of what is before it. *)
LEMMA AppendThen ==
  ASSUME NEW C, NEW s \in Seq(C), NEW c \in C, NEW t \in Seq(C)
  PROVE  s \o (<<c>> \o t) = Append(s, c) \o t
BY SMTT(30)

(* %i, when the number is negative: the sign takes one place.              *)
LEMMA SignedIs ==
  ASSUME NEW C, Chars \subseteq C, "-" \in C, NEW max \in Nat,
         NEW buf \in Seq(C), Len(buf) < max, NEW i \in Int, i < 0
  PROVE  Signed(buf, max, i) = Cut(buf \o (<<"-">> \o Numeral(-i, Base.i)), max)
<1> DEFINE num == Numeral(-i, Base.i)
           minus == <<"-">>
           signed == Append(buf, "-")
<1>1. -i \in Nat /\ Base.i \in 2 .. 16
  BY BaseIs
<1>2. num \in Seq(C)
  BY <1>1, NumeralOver
<1>4. signed \in Seq(C) /\ Len(signed) = Len(buf) + 1
  OBVIOUS
<1>6. printint(max - Len(signed), -i, Base.i) = Cut(num, max - Len(signed))
  BY <1>1, PrintintIs
<1>7. Signed(buf, max, i) = IF Len(signed) >= max THEN signed
                            ELSE signed \o Cut(num, max - Len(signed))
  BY <1>6 DEF Signed
<1> HIDE DEF num, minus, signed
<1>8. buf \o (minus \o num) = signed \o num
  BY <1>2, AppendThen DEF minus, signed
<1>9. Len(buf) \in Nat
  OBVIOUS
<1>10. Len(signed) <= max /\ Len(signed) \in Nat
  BY <1>4, <1>9
<1>11. CASE Len(signed) >= max
  <2>1. Cut(signed \o num, max) = Cut(signed, max)
    BY <1>2, <1>4, <1>11, CutFirst
  <2>2. Cut(signed, max) = signed
    BY <1>4, <1>10, CutNothing
  <2> QED
    BY <1>7, <1>8, <1>11, <2>1, <2>2 DEF num, minus
<1>12. CASE ~ (Len(signed) >= max)
  <2>1. Cut(signed \o num, max) = signed \o Cut(num, max - Len(signed))
    BY <1>2, <1>4, <1>10, CutSecond
  <2> QED
    BY <1>7, <1>8, <1>12, <2>1 DEF num, minus
<1> QED
  BY <1>11, <1>12

(* An item adds its text, as much of it as there is room for.              *)
LEMMA ConvertIs ==
  ASSUME NEW C, Chars \subseteq C, "-" \in C, NEW item, IsItemOver(item, C),
         NEW max \in Nat, NEW buf \in Seq(C), Len(buf) < max
  PROVE  Convert(buf, max, item) = Cut(buf \o Text(item), max)
<1>1. Text(item) \in Seq(C) /\ Len(buf) <= max
  BY TextOver
<1>2. Cut(buf \o Text(item), max) = buf \o Cut(Text(item), max - Len(buf))
  BY <1>1, CutSecond
<1>3. CASE item.conv \in {"plain", "c"}
  <2>1. Text(item) = <<item.arg>> /\ item.arg \in C
    BY <1>3 DEF Text, IsItemOver
  <2>2. Len(<<item.arg>>) = 1 /\ max - Len(buf) \in Nat /\ 1 <= max - Len(buf)
    OBVIOUS
  <2>3. Cut(<<item.arg>>, max - Len(buf)) = <<item.arg>>
    BY <1>1, <2>1, <2>2, CutNothing
  <2>4. Convert(buf, max, item) = Append(buf, item.arg)
    BY <1>3 DEF Convert
  <2>5. Append(buf, item.arg) = buf \o <<item.arg>>
    BY <2>1
  <2> QED
    BY <1>2, <2>1, <2>3, <2>4, <2>5
<1>4. CASE item.conv = "s"
  BY <1>2, <1>4 DEF Convert, Text
<1>5. CASE item.conv = "i" /\ item.arg < 0
  <2>1. item.arg \in Int /\ Base[item.conv] = Base.i
    BY <1>5 DEF IsItemOver, IsItem
  <2>2. Convert(buf, max, item) = Signed(buf, max, item.arg)
    BY <1>5 DEF Convert
  <2>3. Text(item) = <<"-">> \o Numeral(-item.arg, Base.i)
    BY <1>5, <2>1 DEF Text
  <2> QED
    BY <1>5, <2>1, <2>2, <2>3, SignedIs
<1>6. CASE item.conv = "i" /\ ~ (item.arg < 0)
  <2>1. item.arg \in Nat /\ Base[item.conv] = Base.i /\ Base.i \in 2 .. 16
    BY <1>6, BaseIs DEF IsItemOver, IsItem
  <2>2. Text(item) = Numeral(item.arg, Base.i)
    BY <1>6, <2>1 DEF Text
  <2>3. Convert(buf, max, item) = Signed(buf, max, item.arg)
    BY <1>6 DEF Convert
  <2>4. Signed(buf, max, item.arg) = buf \o printint(max - Len(buf), item.arg, Base.i)
    BY <1>6 DEF Signed
  <2>5. printint(max - Len(buf), item.arg, Base.i) = Cut(Numeral(item.arg, Base.i), max - Len(buf))
    BY <2>1, PrintintIs
  <2> QED
    BY <1>2, <2>2, <2>3, <2>4, <2>5
<1>7. CASE item.conv \in {"u", "h", "b"}
  <2>1. item.arg \in Nat /\ Base[item.conv] \in 2 .. 16 /\ ~ (item.arg < 0)
    <3>1. Base[item.conv] \in 2 .. 16
      BY <1>7, BaseIs
    <3>2. item.arg \in Nat
      BY <1>7 DEF IsItemOver, IsItem
    <3> QED
      BY <3>1, <3>2
  <2>2. Text(item) = Numeral(item.arg, Base[item.conv])
    BY <1>7, <2>1 DEF Text
  <2>3. Convert(buf, max, item) = buf \o printint(max - Len(buf), item.arg, Base[item.conv])
    BY <1>7 DEF Convert
  <2>4. printint(max - Len(buf), item.arg, Base[item.conv])
          = Cut(Numeral(item.arg, Base[item.conv]), max - Len(buf))
    BY <2>1, PrintintIs
  <2> QED
    BY <1>2, <2>2, <2>3, <2>4
<1> QED
  BY <1>3, <1>4, <1>5, <1>6, <1>7 DEF IsItemOver, IsItem

(* The loop of vsnprintf and the text of the format, side by side.         *)
LEMMA WritesText ==
  ASSUME NEW C, Chars \subseteq C, "-" \in C, NEW max \in Nat,
         NEW fmt, Len(fmt) \in Nat, \A k \in 1 .. Len(fmt) : IsItemOver(fmt[k], C)
  PROVE  FormatsRight(fmt, vsnprintf(max, fmt), max)
<1> DEFINE N == Len(fmt)
           t(k) == Text(fmt[k])
           Texts_(f) == [k \in 0 .. N |-> IF k = 0 THEN <<>> ELSE f[k - 1] \o t(k)]
           w == CHOOSE f : f = Texts_(f)
           turn(f, k) == IF Len(f) < max THEN Convert(f, max, fmt[k]) ELSE f
           Turns(f) == [k \in 0 .. N |-> IF k = 0 THEN <<>> ELSE
                          IF Len(f[k - 1]) < max THEN Convert(f[k - 1], max, fmt[k])
                          ELSE f[k - 1]]
           buf == CHOOSE f : f = Turns(f)
           A == [k \in 0 .. N |-> Cut(w[k], max)]
           step == [x \in (1 .. N) \X Seq(C) |-> x[2] \o t(x[1])]
<1>1. FullText(fmt) = w[N] /\ vsnprintf(max, fmt) = buf[N]
  BY DEF FullText, vsnprintf
<1>2. ASSUME NEW k \in 1 .. N PROVE t(k) \in Seq(C)
  BY TextOver
<1>3. ASSUME NEW k \in 1 .. N, NEW s \in Seq(C), Len(s) < max
      PROVE  Convert(s, max, fmt[k]) = Cut(s \o t(k), max)
  BY <1>3, ConvertIs
<1>4. N \in Nat
  OBVIOUS
<1> HIDE DEF t, N
<1>5. w = Texts_(w)
  <2>1. ASSUME NEW k \in 1 .. N, NEW s \in Seq(C) PROVE step[<<k, s>>] = s \o t(k) /\ step[<<k, s>>] \in Seq(C)
    <3>1. s \o t(k) \in Seq(C)
      BY <1>2, ST!ConcatProperties
    <3> QED
      BY <3>1
  <2>2. step \in [(1 .. N) \X Seq(C) -> Seq(C)]
    <3>1. \A x \in (1 .. N) \X Seq(C) : step[x] \in Seq(C)
      BY <2>1
    <3> QED
      BY <3>1
  <2> HIDE DEF step
  <2>3. PICK f : Runs(f, N, Seq(C), <<>>, step)
    <3>1. <<>> \in Seq(C)
      OBVIOUS
    <3> QED
      BY <1>4, <2>2, <3>1, LoopUpTo, Zenon
  <2>4. ASSUME NEW k \in 0 .. N PROVE f[k] = IF k = 0 THEN <<>> ELSE f[k - 1] \o t(k)
    <3>1. CASE k = 0
      BY <2>3, <3>1 DEF Runs
    <3>2. CASE k # 0
      <4>1. k \in 1 .. N /\ k - 1 \in 0 .. N
        BY <1>4, <3>2
      <4>2. f[k - 1] \in Seq(C) /\ f[k] = step[<<k, f[k - 1]>>]
        BY <2>3, <4>1 DEF Runs
      <4> QED
        BY <2>1, <3>2, <4>1, <4>2
    <3> QED
      BY <3>1, <3>2
  <2>5. f = [k \in 0 .. N |-> f[k]]
    BY <2>3 DEF Runs
  <2>6. f = Texts_(f)
    BY <2>4, <2>5
  <2> QED
    BY <2>6
<1> HIDE DEF w
<1>6. \A k \in 0 .. N : w[k] = IF k = 0 THEN <<>> ELSE w[k - 1] \o t(k)
  BY <1>5
<1>7. \A k \in 0 .. N : w[k] \in Seq(C)
  <2> DEFINE T == {k \in Nat : w[k] \in Seq(C)}
  <2>1. 0 \in T
    <3>1. 0 \in 0 .. N /\ <<>> \in Seq(C)
      BY <1>4
    <3>2. w[0] = <<>>
      BY <1>6, <3>1
    <3> QED
      BY <3>1, <3>2
  <2>2. ASSUME NEW k \in 1 .. N, k - 1 \in T PROVE k \in T
    <3>1. k \in 0 .. N /\ k # 0 /\ k \in Nat
      OBVIOUS
    <3>2. w[k] = w[k - 1] \o t(k)
      BY <1>6, <3>1
    <3>3. w[k - 1] \o t(k) \in Seq(C)
      BY <1>2, <2>2, ST!ConcatProperties
    <3> QED
      BY <3>1, <3>2, <3>3
  <2> HIDE DEF T
  <2>3. 0 .. N \subseteq T
    BY <1>4, <2>1, <2>2, EveryTurn
  <2> QED
    BY <2>3 DEF T
<1>8. ASSUME NEW k \in 0 .. N
      PROVE  Cut(w[k], max) = IF k = 0 THEN <<>> ELSE turn(Cut(w[k - 1], max), k)
  <2>1. CASE k = 0
    <3>1. w[k] = <<>> /\ <<>> \in Seq(C) /\ Len(<<>>) <= max
      BY <1>6, <2>1
    <3> QED
      BY <2>1, <3>1, CutNothing
  <2>2. CASE k # 0
    <3> DEFINE s == w[k - 1]
    <3>1. k \in 1 .. N /\ k - 1 \in 0 .. N
      BY <1>4, <2>2
    <3>2. s \in Seq(C) /\ t(k) \in Seq(C) /\ w[k] = s \o t(k)
      BY <1>2, <1>6, <1>7, <2>2, <3>1
    <3> HIDE DEF s
    <3>3. Len(s) \in Nat
      BY <3>2
    <3>4. CASE Len(s) < max
      <4>1. Cut(s, max) = s
        BY <3>2, <3>3, <3>4, CutNothing
      <4>2. turn(s, k) = Cut(s \o t(k), max)
        BY <1>3, <3>1, <3>2, <3>4
      <4> QED
        BY <2>2, <3>2, <4>1, <4>2 DEF s
    <3>5. CASE ~ (Len(s) < max)
      <4>1. Cut(s \o t(k), max) = Cut(s, max)
        BY <3>2, <3>3, <3>5, CutFirst
      <4>2. Len(Cut(s, max)) = max
        BY <3>2, <3>3, <3>5, CutIs
      <4>3. ~ (Len(Cut(s, max)) < max)
        BY <4>2
      <4>4. turn(Cut(s, max), k) = Cut(s, max)
        BY <4>3
      <4> QED
        BY <2>2, <3>2, <4>1, <4>4 DEF s
    <3> QED
      BY <3>4, <3>5
  <2> QED
    BY <2>1, <2>2
<1>9. A = Turns(A)
  <2>1. ASSUME NEW k \in 0 .. N, k # 0 PROVE A[k - 1] = Cut(w[k - 1], max)
    <3>1. k - 1 \in 0 .. N
      BY <1>4, <2>1
    <3> QED
      BY <3>1
  <2>2. ASSUME NEW k \in 0 .. N
        PROVE  A[k] = IF k = 0 THEN <<>> ELSE turn(A[k - 1], k)
    BY <1>8, <2>1
  <2>3. A = [k \in 0 .. N |-> A[k]]
    OBVIOUS
  <2> HIDE DEF A
  <2> QED
    BY <2>2, <2>3
<1>10. buf = Turns(buf)
  <2> HIDE DEF A
  <2> QED
    BY <1>9
<1> HIDE DEF buf
<1>11. \A k \in 0 .. N : buf[k] = IF k = 0 THEN <<>> ELSE turn(buf[k - 1], k)
  BY <1>10
<1> DEFINE T == {k \in Nat : buf[k] = Cut(w[k], max)}
<1>12. 0 \in T
  BY <1>4, <1>8, <1>11
<1>13. ASSUME NEW k \in 1 .. N, k - 1 \in T PROVE k \in T
  <2>1. k \in 0 .. N /\ k # 0 /\ k \in Nat /\ buf[k - 1] = Cut(w[k - 1], max)
    BY <1>13
  <2>2. buf[k] = turn(buf[k - 1], k)
    BY <1>11, <2>1
  <2>3. Cut(w[k], max) = turn(Cut(w[k - 1], max), k)
    BY <1>8, <2>1
  <2> HIDE DEF turn
  <2> QED
    BY <2>1, <2>2, <2>3
<1>14. N \in T
  <2> HIDE DEF T
  <2>1. 0 .. N \subseteq T
    BY <1>4, <1>12, <1>13, EveryTurn
  <2> QED
    BY <1>4, <2>1
<1> QED
  BY <1>1, <1>14 DEF FormatsRight

(* The digits of a number of so many bits fit into as many characters, in  *)
(* every base vsnprintf uses: the 32 of s in printint are enough for every *)
(* unsigned int.                                                           *)
THEOREM DigitsFit ==
  ASSUME NEW bits \in Nat \ {0}, NEW i \in Nat, i < Power(2)[bits], NEW conv \in DOMAIN Base
  PROVE  Len(Reversed(i, Base[conv])) <= bits
<1> DEFINE base == Base[conv]
           p == Power(base)
           two == Power(2)
           T == {k \in Nat : two[k] <= p[k]}
<1>1. base \in Nat /\ base >= 2
  BY DEF Base
<1> HIDE DEF base
<1>2. p \in [Nat -> Nat] /\ p[0] = 1 /\ \A k \in Nat \ {0} : p[k] = base * p[k - 1]
  BY <1>1, PowerIs
<1>3. two \in [Nat -> Nat] /\ two[0] = 1 /\ \A k \in Nat \ {0} : two[k] = 2 * two[k - 1]
  BY PowerIs
<1>4. Size(i, base) \in 1 .. i + 1 /\ \A k \in 1 .. Size(i, base) - 1 : i >= p[k]
  BY <1>1, SizeIs
<1> HIDE DEF p, two
<1>5. 0 \in T
  BY <1>2, <1>3
<1>6. ASSUME NEW k \in 1 .. bits, k - 1 \in T PROVE k \in T
  <2>1. k \in Nat \ {0} /\ k - 1 \in Nat /\ p[k - 1] \in Nat /\ two[k - 1] \in Nat
        /\ two[k - 1] <= p[k - 1]
    BY <1>2, <1>3, <1>6
  <2>2. p[k] = base * p[k - 1] /\ two[k] = 2 * two[k - 1]
    BY <1>2, <1>3, <2>1
  <2>3. 2 * p[k - 1] <= base * p[k - 1]
    BY <1>1, <2>1
  <2> QED
    BY <1>1, <2>1, <2>2, <2>3
<1>7. two[bits] <= p[bits]
  <2> HIDE DEF T
  <2>1. 0 .. bits \subseteq T
    BY <1>5, <1>6, EveryTurn
  <2> QED
    BY <2>1 DEF T
<1>8. i < p[bits]
  <2>1. p[bits] \in Nat /\ two[bits] \in Nat /\ i < two[bits]
    BY <1>2, <1>3 DEF two
  <2> QED
    BY <1>7, <2>1
<1>9. ~ (bits < Size(i, base))
  <2>1. bits < Size(i, base) => bits \in 1 .. Size(i, base) - 1
    BY <1>4
  <2>2. p[bits] \in Nat
    BY <1>2
  <2> QED
    BY <1>4, <1>8, <2>1, <2>2
<1>10. Len(Reversed(i, base)) = Size(i, base)
  <2>1. Size(i, base) \in Nat
    BY <1>4
  <2> QED
    BY <1>1, <2>1, ReversedIs
<1> QED
  BY <1>4, <1>9, <1>10 DEF base

(* What vsnprintf writes is the beginning of the text, for every format    *)
(* and every size of str.                                                  *)
THEOREM FormatCorrect ==
  ASSUME NEW max \in Nat, NEW fmt, IsFormat(fmt)
  PROVE  FormatsRight(fmt, vsnprintf(max, fmt), max)
<1> DEFINE C == Chars \cup {"-"} \cup {item.arg : item \in ToSet(fmt)}
                \cup UNION {ToSet(item.arg) : item \in ToSet(fmt)}
<1>1. fmt \in Seq(ToSet(fmt)) /\ \A item \in ToSet(fmt) : IsItem(item)
  BY DEF IsFormat
<1>2. ASSUME NEW item \in ToSet(fmt) PROVE IsItemOver(item, C)
  <2>1. item.arg \in C /\ ToSet(item.arg) \subseteq C
    OBVIOUS
  <2> HIDE DEF C
  <2>2. item.conv = "s" => item.arg \in Seq(C)
    <3>1. SUFFICES ASSUME item.conv = "s" PROVE item.arg \in Seq(C)
      OBVIOUS
    <3>2. item.arg \in Seq(ToSet(item.arg))
      BY <1>1, <3>1 DEF IsItem
    <3> QED
      BY <2>1, <3>2
  <2> QED
    BY <1>1, <2>1, <2>2 DEF IsItemOver
<1>3. Chars \subseteq C /\ "-" \in C
  OBVIOUS
<1> HIDE DEF C
<1>4. Len(fmt) \in Nat /\ \A k \in 1 .. Len(fmt) : fmt[k] \in ToSet(fmt)
  BY <1>1
<1>5. \A k \in 1 .. Len(fmt) : IsItemOver(fmt[k], C)
  BY <1>2, <1>4
<1> QED
  BY <1>3, <1>4, <1>5, WritesText

(* An empty line is the text of the empty format.                          *)
LEMMA NoLineFormatted == FormatsRight(<<>>, <<>>, STR)
<1> DEFINE Turns(f) == [k \in 0 .. 0 |-> IF k = 0 THEN <<>> ELSE f[k - 1] \o Text(<<>>[k])]
           w == CHOOSE f : f = Turns(f)
           A == [k \in 0 .. 0 |-> <<>>]
<1>1. FullText(<<>>) = w[Len(<<>>)]
  BY DEF FullText
<1>2. \A k \in 0 .. 0 : k = 0
  OBVIOUS
<1>3. A = Turns(A)
  BY <1>2
<1>4. w = Turns(w)
  <2> HIDE DEF A
  <2> QED
    BY <1>3
<1> HIDE DEF w
<1>5. w[0] = <<>>
  BY <1>4
<1>6. Cut(<<>>, STR) = <<>>
  <2>1. <<>> \in Seq({}) /\ Len(<<>>) <= STR /\ STR \in Nat
    BY ConsoleAssumption
  <2> QED
    BY <2>1, CutNothing
<1> QED
  BY <1>1, <1>5, <1>6 DEF FormatsRight

(* The lines of the kernel say what they are meant to, up to the size of   *)
(* the buffer of debug.                                                    *)
THEOREM ConsoleFormatted == ConsoleSpec => []Formatted
<1>1. ConsoleInv => Formatted
  <2> SUFFICES ASSUME ConsoleInv, NEW p \in Procs
               PROVE  FormatsRight(str[p].of, str[p].is, STR)
    BY DEF Formatted
  <2>1. str[p] \in Strs
    BY DEF ConsoleInv, ConsoleTypes
  <2>2. CASE str[p] = NoLine
    <3>1. str[p].of = <<>> /\ str[p].is = <<>>
      BY <2>2 DEF NoLine
    <3> QED
      BY <3>1, NoLineFormatted
  <2>3. ASSUME NEW fmt \in Formats, str[p] = Line(fmt)
        PROVE  FormatsRight(str[p].of, str[p].is, STR)
    <3>1. str[p].of = fmt /\ str[p].is = vsnprintf(STR, fmt)
      BY <2>3 DEF Line
    <3>2. STR \in Nat /\ IsFormat(fmt)
      BY ConsoleAssumption
    <3> QED
      BY <3>1, <3>2, FormatCorrect
  <2> QED
    BY <2>1, <2>2, <2>3 DEF Strs
<1> QED
  BY <1>1, ConsoleCorrect, PTL
=============================================================================
