# A TLA+ development of the omb kernel

omb is a small message-passing kernel for one ARM core (TI AM335x) with two
user programs: `proc0`, which owns the memory and the device registers and
starts the others, and `uart`, its client. This directory models the kernel,
checks the models with TLC and proves the main facts about the core with TLAPS.

All paths below are relative to the root of the repository.

## 1. Inventory

The repository has no tests and no design document; the reference is the code
and the comments in its headers.

| component | state | operations | interacts through |
| --- | --- | --- | --- |
| process table, `kern/proc.c` | `procs[]`, `alive` list, `nextpid` | `proc_new`, `find_proc`, `add_to_list_back` | called by `sys_proc_create` and `init_proc0` |
| scheduler, `kern/proc.c` | `up`, every `state` and `label` | `schedule`, `next_proc` | called by every blocking system call and by the tick |
| sender queues, `kern/proc.c` | `waiting` of each process, the pool `proc_lists[]` | `proc_list_add`, `proc_list_remove` | called by `ksend` and `krecv` |
| message passing, `kern/sys.c` | `state`, `waiting_on`, `m_in`, `m_out`, `m_ret` | `ksend`, `krecv`, `kreply`, `kreply_recv` | system calls, and `proc_start` |
| process start, `kern/proc.c`, `am335x/kern/{proc,main}.c` | initial `label` | `proc_start`, `proc0_start`, `drop_to_user` | the first message to a new process starts it |
| traps and tick, `am335x/kern/{trap,timer}.c`, `vectors.S` | handler table, mask registers of the interrupt controller, timer | `swi_ex`, `irq_ex`, `trap`, `init_intc`, `intc_add_handler`, `irq_handler`, `intc_reset`, `systick_handler`, `set_systick` | calls the system calls and `schedule` |
| console, `am335x/kern/uart.c` | the UART's transmitter | `debug`, `puts`, `putc`, `panic` | printed to from most kernel paths, with a busy wait; shared with uart's `puts` |
| memory map, `am335x/kern/mem.c` | the table of 1 MB sections, the regions in the kernel page | `init_memory`, `imap` | tells proc0 what there is; programs run on this table |
| address spaces, `am335x/kern/mem.c`, `kern/sys.c` | `space->tab`, second-level tables, `addr_offer` | `space_map/find/unmap`, `sys_addr_offer`, `sys_addr_accept` | system calls of two processes |
| proc0, `am335x/proc0/main.c` | `ram` and `io` section lists | `get_ram`, `get_io`, `addr_add`, `init_procs`, request loop | `proc_create`, `send`, `recv`, `reply_recv`, `addr_accept` |
| uart, `am335x/base/uart/main.c` | its page | `addr_offer`, `send`, `recv`, `reply_recv` | asks proc0 for the UART registers |
| string library, `lib/libstring` | none | `vsnprintf`, `printint`; others without a caller | makes the lines of the console |
| stubs and helpers, `lib/libc` | none | system call stubs, byte loops | - |
| device headers, build tools, linker scripts | - | - | - |

What is hard here:

* **Interleaving.** A system call is entered with interrupts masked
  (`vectors.S`, `swi_ex`) and is therefore atomic up to the place where it
  gives the CPU away. `proc_start` is the exception: `func_label` builds its
  label with `psr = MODE_SVC` and no mask bits, so the timer can interrupt
  `krecv`, `kreply`, `proc_list_remove` and `schedule` when they are called
  from there.
* **Suspended kernel code.** A blocked call keeps local variables on its
  kernel stack and continues, possibly much later, with whatever others wrote
  into its process and page meanwhile.
* **Direct handoff.** `ksend`, `kreply` and `kreply_recv` choose who runs
  next, past the round-robin.
* **Limits.** 512 process slots that wrap, 2048 queue nodes, 512-byte kernel
  stacks, 32-bit address arithmetic.
* **Partial failure.** `addr_accept` moves several pages and can stop half
  way; `proc0` changes its allocator before it knows whether that succeeded.
* **Liveness.** No interrupt other than the tick exists, so nothing can wake
  an idle machine, and every switch restarts the quantum.
* **Time.** The kernel prints a line or more on nearly every path, and waits
  for the UART before each character while the timer runs: how long a path
  takes, and with it where a tick can come, depends on what is printed.

What makes each component correct:

* scheduler: one owner of the CPU; nobody runnable is forgotten; the idle loop
  is entered only when nothing can run.
* queues: a blocked sender is queued exactly once, at the process it waits on;
  the pool does not leak.
* message passing: a call is taken once and answered once, by the process it
  was sent to, with the message and return code that process wrote; a receiver
  does not sleep while a message waits for it; `recv(pid)` respects `pid`.
* process table: `alive` is a list of the created processes; a slot in use is
  not handed out again.
* address spaces: a page is owned by one space before and after `addr_accept`,
  also when it fails.
* section allocator: sections given away are disjoint from each other and from
  what is left; nothing is lost.
* memory map: the memory that proc0 and the kernel use at its physical address
  is open to them, and the kernel reaches its own devices.
* interrupt controller: of all lines only that of the timer is ever signalled,
  and after each signal the controller is told that it may signal again.
* console: a line gets out whole, its waits end within the quantum, the
  transmitter is not flooded; a line is the text of its format, cut at the size
  of the buffer.
* boot: every program in `procs[]` gets its start message and then its answer.

`PROJECT.json` lists the places where these can go wrong under "hazards".

## 2. Modules

| module | contents |
| --- | --- |
| `Kern` | process table, scheduler, tick, message passing, process start |
| `ProcTable` | the list of processes and the search of `next_proc`, with pointers, on `Kern` |
| `Ticks` | timer, interrupt controller and mask: when a tick arrives |
| `Format` | `vsnprintf` and `printint`, and what they are for |
| `Console` | the serial console, on `Ticks`, which it implements |
| `Rpc` | the contract of message passing, implemented by `Kern` |
| `MCKern` | the small instances of `Kern` |
| `SenderList` | which sender `proc_list_remove` takes, for `Kern` and `SenderQueues` |
| `ProcList` | the sender lists and their pool, with pointers and compare-and-swap |
| `SenderQueues` | what the lists amount to, implemented by `ProcList` and by `Kern` |
| `Sections` | proc0's allocator and its use by the addr request |
| `MemoryMap` | the table of `init_memory` and the regions it records, under `Sections` |
| `Boot` | the programs proc0 and uart, with the address space calls, on `Kern` |
| `MCProcTable`, `MCProcList`, `MCSections`, `MCBoot`, `MCConsole` | the small instances of these |
| `ListFacts` | lemmas about numbers, sequences and `SenderList`; that a loop has a value after every turn, and induction over the turns |
| `KernProofs` | the inductive invariant of `Kern` and what follows from it; that the pool suffices, no wakeup is lost and the scheduler chooses in turn; that `Kern` implements `Rpc` and `SenderQueues` |
| `ProcTableProofs` | the proof that the pointers and the search of `next_proc` are the list and the choice of `Kern` |
| `ConsoleProofs` | the inductive invariants of `Ticks` and `Console`; the proof that `Console` implements `Ticks`; the proof of `Format` |
| `ProcListProofs` | the inductive invariant of `ProcList` and the proof that it implements `SenderQueues` |
| `SectionsProofs` | the inductive invariant of proc0's allocator and what follows from it |
| `MemoryMapProofs` | the proof that what is used at its physical address is mapped for it, and used once |
| `BootProofs` | the proof that `Boot` implements `Kern`, that proc0 never loses its client, and that a program is started by proc0's request and by nothing else |

### Kern and the code

`state`, `waiting_on`, `label`, `alive`, `nextpid` and `up` are the fields and
globals of the same names. `waiting[p]` is the list of `proc_list` nodes of p
as the sequence of their processes, from which `SenderList` says which one
`proc_list_remove` takes; the pool `proc_lists[]` is the number of
nodes in use. `m_in`, `m_out`, `m_ret` are the buffers of the process page
(`include/c.h`), which live in user memory: a user program has filled `m_out`
with any message by the time it makes a call, so each call chooses one. `r0` is
the return value of the last system call to finish.

`label[p] = [at, arg]` is where p continues: `user`; inside `ksend`, `krecv`
(with its argument) or `kreply` after the `schedule` that suspended it; or one
of the points of `proc_start`. The real label is stack pointer and registers,
of which only the place and the live local variable matter.

| code | action |
| --- | --- |
| `ksend` up to `schedule` | `sys_send`; its error returns `sys_send_dead`, `sys_send_full` |
| `ksend` after it | `ksend_return` |
| `krecv`, one turn of the loop | `sys_recv` enters it, `krecv_take` or `krecv_block` |
| `kreply` | `sys_reply`, `kreply_return`, error `sys_reply_err` |
| `kreply_recv` | `sys_reply_recv`, then the turns of `krecv` |
| `proc_new` | `sys_proc_create` |
| `proc_start` | `start_recv`, `start_block`, `start_sched`, `start_copy`, `start_reply`, `drop_to_user` |
| `systick_handler` | `Tick` |
| `schedule`, `next_proc` | operators `Schedule`, `NextProc` used by all of these |

`find_proc` returns the address of a slot and never nil, so the `p == nil`
branches of the system calls cannot be taken; the model passes pids of slots
of `procs[]`. `PROC_enter` and `PROC_recving` are never stored and are left out.

Two constants name conditions on the environment. `Syscalls` is the set of
calls the user programs make. `TickPoints` are the points of `proc_start` at which
a tick may arrive. Each `schedule` restarts the quantum with 1000 ms, so that only a
tick that fell due earlier, while a system call ran masked, finds `proc_start`
running, and it is taken as soon as interrupts are unmasked: at `UnmaskPoints`.
`Ticks` is the argument for this. `kern_all` and the proofs allow a tick at every point.

What `Kern` abstracts: `schedule` is one step (a tick inside `schedule` called
from `proc_start` is excluded by the same argument), a node is removed in one step
(left to `ProcList`), slots are not reused (`CREATE_LIMIT`; proc0, the only
program that creates processes, makes one for each entry of `procs[]`, which has
one), and the address space calls, which return at once and touch nothing of
this, are in `Boot`.

### ProcTable and the code

`first` is the pointer `alive` and `next[p]` the field of the same name. A step of
`ProcTable` is a step of `Kern`; one that creates a process also does
`add_to_list_back`. `LastOfList` and `Search` are the loops of `add_to_list_back` and
`next_proc`, as functions of the number of turns. `Search` follows `next` from
`up`, restarts at `first` at the end of the list, and is left at a ready process
or when it is back where it began; started in the idle loop, where `up` is nil, it is left when
it comes to the nil at the end. `ListIsAlive` says that the pointers are the
sequence `alive` of `Kern`, and `SearchAgrees` that the loop, from every state
`schedule` can leave its caller in, ends and finds what `NextProc` of `Kern` chooses.

### Rpc

Each process has at most one outstanding call: queued, then taken, then
answered. `Kern` maps onto it by `RpcCall`, read off `state`, `waiting_on` and
`m_out`; the inbox is `m_in` and the result `m_ret`. The refinement says, in
particular, that an answer comes from the process the call was sent to, that a
call is not answered before it is taken or twice, that its message is not
changed while it waits, and that no process's inbox changes otherwise. `Rpc`
promises no order and no progress, because the code provides neither.

### Ticks and the code

`left` is what `timer2->tcrr` still has to count, `irqstatus` its overflow bit,
`control` whether the interrupt controller may signal again. An interrupt line is
the pair of its mask register and its bit in it (`irqn / 32`, `irqn % 32`).
`Masked` is what `init_intc` and the one `intc_add_handler` leave masked, `Handlers`
who has a handler, and `asserted` the lines other devices raise and drop as they
like (`Device`). `Elapse` is the clock, external to the code.

| code | definition |
| --- | --- |
| `irq_ex`, `trap`, `irq_handler` with a handler, `systick_handler` | `irq_handler`, `Tick` |
| `irq_handler` without one: it returns and does not tell the controller | `irq_handler`, `NoHandler` |
| `swi_ex` | `swi` |
| the return from a call, `drop_to_user` | `ToUser` |
| `schedule` in a call or in `proc_start` | `Switch` |
| `init_intc`, `init_timers`, the end of `kmain` | `Init` |

Which process `schedule` chooses is left open, as are the system calls: any of
them may return or switch. `ran` and `since` are clocks for the properties.

`set_systick` starts the count again but does not clear a pending overflow; and
`init_timers` does not clear one that the boot loader left. Both are in the model.
`KERNEL < QUANTUM` is the one assumption about the speed of the code: no path through
the kernel takes 1000 ms. `Console` is the argument for it.

A signal of a line without a handler would be the last: `NoHandler` leaves `control`
FALSE and nothing writes it any more. That this branch is never taken is why
`init_intc` has to mask every register; `Preempted` and `ImplementsTicks` notice when
it does not.

### Console, Format and the code

The unit of time is what the UART takes to send a character; what the kernel
computes takes none of it. `str[p]` is the local `str` of `debug` while p is between
`vsnprintf` and `puts`, `out[p]` the characters `puts` has left to send (a newline counts
twice, as `putc` sends a carriage return first), `clear[p]` says that its `putc` has
seen bit 5 of `lsr` and not written yet, and `fifo` is what the transmitter holds.

| code | action |
| --- | --- |
| `debug` | `debug` fills `str`, `debug_puts` calls `puts` |
| `putc` | `putc_ready` is the end of its wait, `putc_write` its write |
| `puts` and `putc` of uart | `puts`, then the same two |
| the transmitter and the clock | `Transmit`, external |
| everything of `Ticks` | `Move`, `Interrupt`, `OtherDevice` |

A path of the kernel may print up to `LINES` lines of up to `LINE` characters, and
the system calls, returns and switches of `Ticks` happen between lines. A program may
be interrupted between its look at the transmitter and its write; then another
writes, and its character makes one more in the transmitter than there is room
for in the look. `NoOverrun` bounds this by one for each program that prints. As the
kernel stands, no program gets as far as its `puts` (run `boot_hello`); `Printers` are
those that have.

`ImplementsTicks` is the refinement, with the identity as its mapping: `Transmit` is
`Elapse` while the kernel waits, and the conjunct `ran < KERNEL` of `Elapse`, which
in `Ticks` is an assumption, is here a consequence of the lengths of the lines
(`ConsoleAssumption`). The code leaves the speed of the UART as the boot loader has set
it; at the usual 115200 baud, 11.5 characters in a millisecond, a quantum of 1000 ms is
11520 characters. The path that prints most is `sys_addr_accept`: 7 lines, each
shorter than the 128 bytes of `str`, so fewer than 900 characters with the carriage
returns, 80 ms. `LINES * LINE` and the few characters already in the transmitter are
far from `QUANTUM`; at less than about 9600 baud they would not be.

`Format` has the two functions `debug` rests on. A format is a sequence of characters
and of conversions with their arguments; `vsnprintf` and `printint` follow the code's
loops, with what they do when `str` fills up inside an item. `FormatsRight` is the
reference: the beginning of the concatenated texts of the items, as long as
there is room. `IsFormat` says what `debug` relies on `va_arg` for: each conversion finds an
argument of its kind, a number that is at least 0 where the code takes it as unsigned. The zero byte that
the code appends (`src/lib/libstring/string.c:187`) falls behind `str` when the text
fills it; the longest line of the kernel has 123 characters.

### ProcList, SenderQueues and the code

`lproc` and `lnext` are the fields of `proc_lists[]`, `waiting[p]` the pointer
to the first node. `l`, `n` and `nx` are the locals of `proc_list_remove` while
`proc_start` is inside it; the pointer `l` points into a node or at the head, so
it is modelled by the node whose `next` it points at. `proc_list_add` and the
`recv` of a user program run with interrupts masked and are one step each
(`send`, `recv`). `proc_start` takes a step per load and store: `remove_first`,
`remove_walk`, `remove_load`, `remove_cas`, `remove_free`. What a process does
otherwise is reduced to `where`: in user mode, blocked in a queue, or taken and
not yet answered.

`SenderQueues` is what the lists amount to: a sender joins at the end; a process
that runs masked takes exactly one and leaves the others. A process in
`proc_start` is promised less (`FirstReceive`), because the code gives less. It
may take a sender that stopped being the newest, and when a sender is appended
between the load of `n->next` and the compare-and-swap, the swap succeeds (it
compares `*l`, which did not change) and writes the old `next`: everything
behind the sender that is taken leaves the list without being taken. Its nodes
stay claimed, and those senders wait for ever. That nothing else can lose a
sender, and that nothing is taken twice, is what `ImplementsQueues` checks.

In `Kern` the removal is one step. The loss therefore does not appear there,
and the properties of `Kern` hold for runs in which no tick separates that load
from the swap.

### Sections and the code

A section list is a chain of pages (holders) of `NSECTIONS` sections; all loops
of `proc0` run through the sections of all holders in order, so `m.ram` and
`m.io` are the sequences of all sections. `m.holders` are the pages the holders
are in. Addresses and lengths are words modulo `WORD`, as `reg_t` is 32 bits.

| code | definition |
| --- | --- |
| `get_ram`, `addr_add`, `get_io` | `GetRam`, `AddrAdd`, `GetIo`, functions of the memory |
| `init_ram_sections`, `init_io_sections` | `InitRam`, `InitSections`, their loops `AddRegions` |
| one program of `init_procs` | action `start_program` |
| `handle_addr_request` | action of the same name; whether `addr_accept` works is its argument |

As the kernel stands, `addr_accept` of a range of some length always fails: the
spaces of new processes have no second-level tables and `get_page`
(`src/kern/sys.c`, lines 244 to 252) provides none. The allocator does not
depend on the reason, so `Accepted` lists the outcomes of an instance: both in
the run `sections`, failure only in `sections_twice`.

`m.dropped`, `started`, `given`, `leaked` and `wrapped` have no counterpart in the
code: they record the sections `addr_add` had no room for, the pages that
`start_program` put to use (page, space and stack of each program), what clients
received, what was taken out for a client whose `addr_accept` failed, and
whether a range that was handed out reached the end of the address space. In `get_io`, `addr + len`
wraps to a small number for such a range and passes the test, so that a range
that is not in the section is handed out. `Accounted` and the others are claimed
until that has happened.

`HolderAssumption` is about the memory map: `init_io_sections` writes its first
holder wherever `get_ram` says, without a look at the result. The first region
is what lies below the kernel, 32 MB (`kern/linker.ld` begins memory at 0x80000000,
`am335x/Makefile` puts the kernel at 0x82000000), so there is a page. `init_procs`
looks at no result either; `StartAssumption` says that there is memory for three
pages of each program.

### MemoryMap and the code

`ttb` is the table `init_memory` fills: all faults, then the calls of `imap` in their
order, each of which overwrites every entry its range touches. `RecordedRam` and
`RecordedIo` are the regions it writes to the kernel page, and the assumption
`MemoryMapAssumption` makes them the regions `Sections` starts from, so that the
actions are those of `Sections`. An entry is reduced to who may access it: nobody,
the kernel, or all. In the code a device is smaller than a section and many
share one: UART0 of the kernel lies in that of DMTimer1 and GPIO0, which are for
programs, so the later mapping opens UART0 to them as well.

`UsedInPlace` is about what is used at its physical address, which is the address
that `get_ram` returned: the pages of the lists (`m.holders`), which proc0 writes,
and page, space and stack of each program (`started`). The kernel keeps messages in
the page and clears the space, and `sp` of the start request is the end of the stack. All
of them have to be open to programs in `ttb`, not part of the kernel (its image contains
those of proc0 and uart), in use once, and not free as well, and this whether or not a
range has wrapped. `ttb` is the only table there is: the translation base is set once, and
no space of a process is ever loaded. The property also says that no mapping
takes the kernel's devices away from it. It fails if `imap` begins with the first
section whose beginning lies in the range: memory that begins in the middle of a section
is then closed. `LayoutAssumption` is what the addresses in the code satisfy: memory
(0x80000000 to 0xa0000000) shares no entry with a device of the kernel, all of
which lie below.

`UsedInPlace` says nothing of the ranges that clients receive (`given`). A client names in
its offer the address at which it wants the range, 0xa0000 in
`src/am335x/base/uart/main.c` (lines 79 and 92), `handle_addr_request` has the range mapped there
in the space of the client, and the client would use it there. As that space is not
loaded, the address would be looked up in `ttb`, where 0xa0000 is a fault, and the
access would end in the loop of `trap`. As the kernel stands no client gets so far, since
every request is refused (`UartGreets`).

### Boot and the code

`Boot` puts the two programs on top of `Kern`: `pc[p]` is the place of program
p, `rv[p]` what its last system call left in r0. A step of a program is the code
up to and with its next system call, which is the action of `Kern`; `InKernel`
and `BootTick` are the steps of `Kern` in which no program moves.

| code | action |
| --- | --- |
| `init_procs`, one turn | `p0_create`, `p0_start` |
| `recv` of proc0's `main` | `p0_recv` |
| its `switch`, and `handle_addr_request` up to `addr_accept` | `p0_serve`, `p0_accept` |
| `reply_recv` of its loop | `p0_reply` |
| uart's `main` | `uart_offer`, `uart_call`, `uart_check` |
| `sys_addr_offer`, `sys_addr_accept`, `space_map`, `space_find`, `space_unmap` | operators used by these |

`started` and `pid`, `ret` are the locals `i` of `init_procs` and those of
`main`. A program starts at `offer` when `proc_start` drops it to user mode; until
then `Kern` does not let it move.

There is one range of registers, of one page, and every uart asks for it; `free`
is what `Sections` is reduced to, and `space[p]` has the one address the range
has in the space of p: whether there is a second-level table for it, and what
its entry maps. `get_page` returns nil in the code, and `GetPage` does here. So no
request is ever granted, and the places after `print` (where uart would read from
its clients) are not reached and not modelled; when the kernel gets pages to
give, the definition `GetPage` is the one to change, and `UartGreets` the property
to move to the run `boot`.

The code has one program in `procs[]`; `Programs` lists the lengths of an
instance. Which program is which is of no interest, all are uart.

## 3. Runs

| run | instance | question |
| --- | --- | --- |
| `kern_all` | 3 processes, 2 queue nodes, all calls, ticks anywhere | consistency of the kernel state; refinement of `Rpc` |
| `kern_basic` | 3 processes, 3 nodes, no `reply_recv`, ticks in `proc_start` where one can be due | no lost wakeup; the pool suffices |
| `kern_live` | 3 processes, `send`, `recv`, `proc_create`, the list with pointers, fairness | the list and its search; every ready process runs |
| `proc_list` | 4 processes, 2 of them in `proc_start`, 3 nodes | the lists stay lists; refinement of `SenderQueues` |
| `sections` | 12 bytes of memory, 3 device regions, 4 requests | conservation of the address space; what is used in place is mapped, and used once |
| `sections_twice` | as `sections` | violates `NoDeviceTwice` |
| `boot` | proc0 and 1, 2 or 3 programs, fairness | every program starts, proc0 keeps its client, the answer comes |
| `ticks` | 2 processes, one prints as well, 2 mask registers, a quantum of 7, kernel paths of up to 6, fairness | when a tick can arrive, and that it does; the console |
| `boot_hello` | proc0 and 1 program, fairness | violates `UartGreets` |
| `boot_typed` | proc0 and 1 program | violates `AnswerTyped` |
| `kern_reply_recv` | as `kern_basic`, with `reply_recv` | violates `NoLostWakeup` |
| `kern_recv_from` | as `kern_basic` | violates `RecvOnlyFromPid` |

Three processes are the least with which a server has two clients, a queue has
two senders to choose from, a third process can intervene between a call and
its answer, and the round-robin has a process to skip. Two nodes for three
processes exhaust the pool: both other processes are blocked in a queue and the
third tries to send. Every step treats a message as opaque, and the instances of
`Kern` use few contents; that contents are not mixed up is proved for all of them
(`SpecImplementsRpc`). `CREATE_LIMIT` bounds the number of creations by the size of
the table.

`proc_list` has two processes in `proc_start`, so that two interrupted removals
share the pool, and one node less than processes, so that a node is claimed
again as soon as it is free. In `sections` a page is 2 and a word 32; memory is
two regions, of which the first holds the first holder; a holder has 3 sections,
so the list of device registers is full from the start and the first split
needs a page. Four requests are enough to use up the memory and to drop a
section. The requests are whole regions, their parts, lengths that are rounded
up, a length that wraps to zero when rounded, and a range at the end of the
address space. Two device regions are the same one, as in the kernel page. A
section of the table is two pages; the first two devices share one with a device
of the kernel, and the first reaches into the next.

In `boot` up to three programs compete: a client is being served, another is
queued, and a third is being created or queues behind it. The table has room for
exactly these. Ticks come at `UnmaskPoints`; one in `krecv` between the look at the
queue and `PROC_recv` could leave proc0 and the new process both asleep, which is
the hazard at `src/kern/sys.c:76`.

In `ticks` the kernel prints up to two lines of up to two characters on a path, so
that it may wait in the middle of a line and between lines; with the one program
that prints and a character in flight that makes paths of up to 6, and the
quantum has 7 units, the least that `TicksAssumption` allows: a tick can fall
due before, in and after a path, and two paths make more than a quantum. The room
for two characters is filled exactly, and cut in a number, in a string and behind a sign;
one format is empty, and one line has a newline. The second mask register has the line of
another device, which is asserted and dropped at any time.

`proc_list` and `sections` do not check for deadlock: all processes may be
blocked in each other's queues, and the number of requests is bounded.

The system can come to rest: processes that wait for each other leave the idle
loop, whose ticks keep it from being a deadlock of the model (the `Tick` of an
idle machine is a step that changes nothing).

**Fairness.** `FairSpec` assumes that the CPU keeps executing kernel code
(`WF` of `KernelStep`) and that the quantum of a process that keeps the CPU
expires (`WF` of `Quantum(p)` for each p separately). It does not assume that
ticks happen regardless of switches, as `set_systick` restarts the count in
every `schedule`. Two processes that call and answer each other within the
quantum therefore starve a third, and `ReadyRuns` is claimed only for programs
that do not answer. User programs are not assumed to make any call.

`FairBoot` assumes that each process gets on, in the kernel and in its program, when
it is given the CPU again and again: `SF` of `InKernel` with `up = p`, of `Proc0Step`
and of `UartStep(p)`. Strong, as a tick may take the CPU away before it has made a
step. But by `TicksApart` at most one tick is due when it gets the CPU, and the next
is a quantum away, so it runs the time after. `WF` of the tick with `up = p` is the
expiry of the quantum; `Preempted` of `Ticks` is the reason that it does expire,
from the fairness of the clock and of the interrupt line alone. `SoleClientAnswered` is claimed for
one program, as in the code: with two, the second is queued when proc0 calls
`reply_recv`, which does not look at the queue, and may wait for ever (the
violation of `kern_reply_recv`).

`TableFairSpec` is `FairSpec` over the pointers. `ConsoleFairSpec` assumes that the CPU goes on with a `putc` it
is in, that time passes and the transmitter sends (`WF` of `Transmit`), and that an
interrupt that is due is taken. Nothing is assumed of programs, nor that
the kernel returns from a call that prints nothing more; `LinesGetOut` needs only that
what is in the transmitter leaves it.

**What the violations show.** `kreply_recv` becomes `PROC_recv` and
switches to the process it answers before it has looked at its queue; a sender
that queued during the previous request waits until another send wakes the
server. `proc_list_remove` unlinks the last node when none matches, so
`recv(pid)` delivers anybody's message, and `PID_ALL` (which matches no pid)
always delivers the newest. The third is in the table of regions: the entry
for MMCHS0 repeats the address of GPIO3 (`src/am335x/kern/mem.c`, lines 136 to
139), so `proc0` has GPIO3 in its list twice and takes it out for two requests, while
MMCHS0 can be had by nobody.

`boot_hello` shows what `get_page` (`src/kern/sys.c`, lines 244 to 252) does to the
system as it is: the request of uart is refused, after proc0 has taken the range
out of its list, and uart loops before it has printed anything. `boot_typed`
shows that no answer has the type its comment in `src/include/sys.h` gives it:
`proc_start` and proc0 answer with whatever their buffer holds.

## 4. Proofs

`KernProofs` proves for every value of the constants allowed by
`KernAssumption` and `TickAssumption`:

* `SpecIInv`: `IInv` is an invariant;
* its parts as theorems of their own: `TypeOK`, `CpuOwnership`,
  `AliveInOrder`, `QueueConsistent`, `ResumePoints`, `ReplyOwed`,
  `IdleOnlyWhenStuck`;
* `SpecIdleIsFinal`: the idle loop is never left.

The assumptions are that the table has a slot, that creations do not exceed it,
and the types of the other constants; the workload, the tick policy and the
sizes are arbitrary.

`IInv` is the conjunction of those parts, which are inductive only together.
`QueueConsistent` (queued at exactly one place, while `PROC_send`) needs to know
of the sender that `proc_start` has unlinked and not yet marked; that is in
`ResumePoints`, which ties each suspended place to the state others see.
`ResumePoints` is preserved by a handoff only because the process that receives
the CPU was blocked at a known place, and by the tick only because the process
interrupted is at a place that may be interrupted. `AliveInOrder` makes the slot
of a new process dead, hence not queued, not awaited and not on the CPU.
`IdleOnlyWhenStuck` needs `NextProc` to find a ready process whenever there is
one, which is lemma `NextProcFacts`, from `AliveInOrder`.

Each action has a lemma that it preserves `IInv`. Actions that touch only the
caller's place and return value share `QuietKeeps`; those that call `Schedule`
share `SwitchKeepsOwnership`; those that unlink share `UnlinkFacts`.

`SpecImplementsRpc`, in the same module: every behaviour of `Kern` is one of `Rpc`
under the mapping. In each action, all processes but at most one look the same
to `Rpc` before and after (`SameCall`). An action for which they all do, and
which writes no inbox or result, is a stutter: among these are the errors of
`send`, the tick and every return to user mode. The others are matched one to
one: `sys_send` is a `Call`, `krecv_take` and `start_copy` are a `Take`, the
three replies an `Answer`, and `sys_proc_create` is `Born`.
`IInv` is needed to know that the process taken is a caller that is queued, and
that the process answered was taken by the one that answers.

`KernProofs` also proves two promises to the programs. `SpecPoolSuffices`: each node of
a queue belongs to a sender that is not on the CPU, and to no other node, so the
nodes in use are fewer than the slots of the table (an injection, `NodesBound`).
`SpecNoLostWakeup` needs two hypotheses, and both are needed: no program calls
`reply_recv` (the run `kern_reply_recv`), and ticks come in `proc_start` only at
`UnmaskPoints`, which `DueAtUnmask` of `Ticks` justifies. `Awake` adds to
`NoLostWakeup` that the process in `proc_start` that has found its queue empty is on
the CPU, and its queue still empty: then nobody can queue before it is
`PROC_recv`. A send to a receiver wakes it in the same step (`SwitchWakes`).

`SpecRoundRobin`, in the same module, is the part of `ReadyRuns` that is no liveness. `ByTurn` are
the steps in which `schedule` is called with nil and chooses for itself: a quantum ends, `recv` blocks (after a
system call or in `proc_start`), or `send` finds its target busy and blocks. In each of
them every ready process either gets the CPU or comes strictly nearer in the order of the list: `Ahead`,
its distance from `up`, decreases, and it is at most `Len(alive)`. `NearestReady` is the reason: the
arithmetic of `NextProc` takes the ready process with the least `Ahead`. Every other step leaves the CPU where it
is or hands it over (`HandedOver`), by `send` to a process that waits in `recv` or by an answer, that
of `proc_start` included, to the caller that waits for it; and none takes readiness from a
process (`SyscallHandsOver`, `KernelHandsOver`). A handoff may set everybody back, which is why
`ReadyRuns` is claimed only of programs that do not answer.

`KernImplementsQueues` maps the sequences of `Kern` onto `SenderQueues`, with the processes whose
`krecv` in `proc_start` is not over as those that are starting. `sys_send` joins (its caller is in no
queue, by `QueueConsistent`), `krecv_take` and `start_recv` receive, `start_copy` is the
end of the start; all else stutters, `sys_proc_create` too, as a dead slot has an empty queue and
the label that `func_label` gives it again. With `SpecImplementsQueues` of `ProcListProofs`, the
two models of the lists have one abstraction. `Kern` uses less of it: it takes
the first alternative of `FirstReceive` only.

`BootProofs` proves `BootImplementsKern`, that every step of `Boot` is one of
`Kern` or leaves it alone, for any number of programs; with it, everything proved of `Kern`
holds of `Boot`. `BootAnswersPending` is proc0's own promise: `reply_recv` never
fails, so its error value -1 never becomes the pid of a client. Its invariant
`Proc0Inv` says for each place of proc0 where it is in the kernel, and that when
`recv` or `reply_recv` has returned a pid, that process waits for proc0. It is
preserved because only the process that holds a caller can release it
(`OnlyHolderReleases`), proc0 releases it only in `p0_reply`, and a tick or a
switch leaves it where it is. `BootAssumption` adds to the assumptions of `Kern` that the programs fit the
table and that the two kinds of request are messages that differ.

`BootStartsFromInit`, in the same module, holds for any number of programs. Its invariant
is about who can be in the queue of a program that is starting: the
programs send to proc0 only, so a sender that waits on another process is proc0,
and what it sends is the start request (`SendersKnown`). Every step other than a
send and the receipt in `proc_start` creates no sender and leaves what was received
(`NoNewSender`, `StartKept`): an answer, which writes into the page of another process, goes
to one inside `ksend`. `SpecBootTypeOK` adds that `started` stays within `programs`.

`ConsoleProofs` begins with `Ticks`. It proves `TicksDueAtUnmask`, `TicksTicksApart` and `TicksTypeOK` for every
quantum, every bound on kernel paths below it and every number of mask registers and lines. The invariant
`TicksInv` adds to them that the controller may always signal, which rests on only
the timer's line being unmasked (`TimerOnly`), that
in `proc_start` the timer has counted exactly the time since the switch, and that
the time since the last tick and the time to the next make at least a quantum.
`TicksNoLostTick` is the part of `Preempted` that is no liveness: wherever interrupts are
unmasked, a timer that has stopped has its interrupt due. It needs one more
invariant, `StoppedIsDue`: the overflow bit is cleared only together with a restart of the timer.

It goes on to prove that `Console` implements the safety part of `Ticks`
(`ConsoleImplementsTicks`), and with it `ConsoleLinesWhole` and `ConsoleNoOverrun`, for
every number of lines on a path, of characters in a line and of programs that
print, from `ConsoleAssumption` that they make no more than `KERNEL`. The heart of
`ConsoleInv` is `TimeBound`: on a path of the kernel, the time it took, what the
transmitter holds, what is left of the line and all the lines that may follow never
exceed `KERNEL`. A wait turns one character of the second into one unit of the
first, and a write moves one from the third to the second. A path begins with
what the transmitter may hold then, which is `FifoBound`: at most one for each
program that has looked and not written, and one. `LinesWhole` holds as a
tick cannot become due once the kernel has begun to print: that would take a path as long as a quantum.

`ConsolePrintingEnds` is the part of `LinesGetOut` that is no liveness. While the kernel prints, no step
takes the CPU from it, and every step other than a change of some other device makes `Work` less: three for each
character left (its wait, its write, its way out), what the transmitter holds, and one for
a line that `debug` has not handed to `puts`.

The last part of the module is about `Format`. `FormatCorrect` says that `vsnprintf` writes the
beginning of the text, for every format that is one (`IsFormat`) and every size of the buffer;
`ConsoleFormatted` follows. There are three arguments in it:

* a number: after c turns, the i of `printint` is the quotient by the power c of the base (`Quotient`,
  from `DivisionTwice`), so the loop ends after as many turns as the number has digits
  (`SizeIs`: there is one power that it is below and the one before it is not), and
  reversed these are the digits of `Numeral`, each of which divides by a power of its own (`NumeralIs`);
* a cut: what is cut and then appended to is the cut of what is appended (`CutFirst`,
  `CutSecond`), so an item that fills the buffer, inside a number, behind a sign or inside a
  string, leaves what the cut of the whole text would (`ConvertIs`);
* the loop: the two loops, of the code and of the reference, agree up to the cut after every turn (`WritesText`).

`DigitsFit` is about the local `s[32]` of `printint`, which the code fills without a test: a number of n
bits has at most n digits, in each base that `vsnprintf` uses.

`ListFacts` has what the proofs about lists and loops share. A loop of the code
is a function of the number of its turns here, and what it computes for any
number of them is proved by `EveryTurn`: a set of numbers that has 0, and with each number
the next, has all of them. It is stated about a set, as the provers cannot
instantiate an operator, and rests on the least element of a set of naturals
(`LeastNat`, from the well-foundedness of `<`). That a recursive function exists
at all is proved in the same way: `LoopUpTo` for a number of turns, `LoopExists` for all of them, and
`AddRegionsLoop` and `TableLoop` for two loops whose values have no type to begin with. `PickedFacts` says which sender
`proc_list_remove` takes; `SpecRecvPrefersPid` in `KernProofs` rests on it: `recv(pid)` returns
pid and its message if pid is queued, and otherwise the newest sender and the message of that one.

`ProcTableProofs` proves `SpecListIsAlive` and `SpecSearchAgrees` for every size of the table. Both
rest on `IInv` of `Kern`, in which the place of a process in `alive` is its
pid plus one. `LastOfList` stops at the end of the list, so a new process is put there.
For the search, `Met` says which process the loop has before it after k turns: round
the list from `up`, with the nil at its end as one more stop. It is back
at `up` after as many turns as there are processes (`MetFacts`), so the search
ends, at the first ready process in this order (`StopsAt`) if there is one; and
this is what `NextProc` chooses by its arithmetic on places.

`ProcListProofs` proves for every number of processes and nodes that the lists stay lists
while any number of processes is interrupted in `proc_list_remove`. `ListInv` has these parts:

* `Linked`: the pointers from `waiting[q]` lead through distinct nodes and end;
  `Apart`: no two lists share a node; `Claimed`: the nodes in lists are not free;
* `OneEach`: a claimed node is that of a blocked sender, and each has one. A
  node that an interrupted swap has lost to its list stays claimed, so
  this is not the converse of `Claimed`;
* `AtHand`: while a process walks, has loaded `n->next` or is about to swap, its `n` is
  in its list and `l` is just before it. Others append only, so both stay true; of
  what was loaded as `next` it says less: it is right, or nil as it was when `n` was the last node;
* `InHand`: a node that has been unlinked and not yet given back is in no list
  and in no other process's hand. So nobody appends it before its time.

The properties follow, `SpecCasMeetsNode` among them: the compare-and-swap never fails, so the
loop around it, which is there for that case, is left after one turn.
`SpecPoolLasts`: with a node for each process, who is not blocked in a send finds a free node, also while
`proc_start` has one in its hands, as it is still that of a blocked sender (an injection of the nodes into the other processes).
`SpecPoolSuffices` of `Kern` counts the nodes in queues; this counts those in use. `SpecImplementsQueues` maps each step to one of `SenderQueues`
or a stutter: the swap is the receipt, and what it may lose is the end of the
list behind the node (`FirstReceive`), nothing else.

`SectionsProofs` proves the five properties of `Sections` for every size of words, pages and
holders, every list of regions that ends below the end of the address space and
every sequence of requests, by `SectionsInv`:

* `Sound`: the lists consist of whole holders, no section of memory reaches the
  end of the address space, and a section has been dropped only when no
  page is left. It holds without condition: memory is cut at its end only, by
  a length that was compared with it, so no sum wraps (`GetRamFacts`);
* `InUse`: memory that is free, under a holder or in use for a program holds an address no
  more often than the regions of memory in the kernel page. This too holds without
  condition: a range that wraps in `get_io` can damage the list of registers only (`CarveSound`).
* `RoomToStart`: while programs are to be started, one section of memory is large enough for them;
  `StartAssumption` makes it true at the start;
* `AllAccounted` is `Accounted` for all numbers, `Shares` that the list of registers holds an address
  no more often than the regions of registers do; with `InUse`, memory and registers do not mix. `TakenFromRam`,
  `AddIoFacts`, `AddRamFacts` and `CarveFacts` say what each function of the
  allocator moves from where to where, the page it may take for a holder
  included, which is why `AddrAdd` of registers changes memory as well;
* `InOnePiece`: two neighbouring addresses that one region has, and no other, are in the same
  section of `io` if both are free. `Carve` keeps this, since it takes out what
  lies between the two parts. It follows that all of a free range is in one section
  (induction along the range), which is what `get_io` looks for: `SpecFreeMeansGrantable`.

The last two are claimed until a range that was handed out has reached the end of
the address space (`wrapped`), as the properties that rest on them are; after that they are false.

`MemoryMapProofs` proves `SpecUsedInPlace`. The last call of `imap` that touches an entry decides
it (`LastDecides`, by induction over the calls). The devices of programs are mapped last and
memory shares no entry with a device of the kernel, so every address of memory is open
(`MemoryOpen`); the regions of memory in the kernel page leave the kernel out and do not overlap
(`RamRegionFacts`); and by `InUse` what is used in place is in one of them, once.

Only model-checked is liveness (`ReadyRuns`, `AllStarted`, `SoleClientAnswered`, `Preempted`,
`LinesGetOut`), as the prover supports neither fairness nor `ENABLED`; of three of these the safety
part is proved, as above. `Proc0Inv`, `TicksInv`, `ConsoleInv`, `ListInv` and the other inductive
invariants are defined in the modules of the proofs.

## 5. Plan

Done: `Kern`, `Rpc`, `ProcTable`, `Ticks`, `Console`, `Format`, `ProcList`, `SenderQueues`,
`Sections`, `MemoryMap` and `Boot`, with the proofs of section 4. What is left:

1. the stack of the idle loop, if the kernel gets an interrupt that can end it;
2. ranges of several pages in `Boot`, when `get_page` has pages to give.

## 6. Not modelled

* Ranges of several pages, the flags of a mapping and the moving of pages:
  `get_page` returns nil, new spaces have no tables, and `sys_addr_accept`
  therefore fails at the first page of any range. `Boot` models that.
* The wrap of `nextpid` onto a slot in use (`src/kern/proc.c:174`): proc0, the only
  program that creates processes, creates one.
* The stack that the idle loop uses up with each tick (`src/kern/proc.c:93`). The idle
  loop is final (`SpecIdleIsFinal`), so nothing runs any more by then.
* The abort path of `trap`, an endless loop with interrupts masked. Memory that is used at
  its physical address does not lead there (`UsedInPlace`). A client that was granted a range would
  get there, as it uses the range at the address it offered and no space is loaded (section
  2, MemoryMap); no property covers that, and as the kernel stands no client is granted
  anything. A program that touches what it was not given is outside of the model.
* `space_find` past the end of its table (`src/am335x/kern/mem.c:252`): the word it
  reads depends on the linker, `Boot` takes it to be 0.
* The registers of a label, its `psr` among them (`src/kern/proc.c:148`).
* The functions of the string library that have no caller in the system: `strtok`,
  `strtol`, `sscanf`, `strlcpy`, `strcmp` and their kin; and the byte loops of
  `lib/libc/util.c`, which do what their names say.
* Register layouts of devices without a driver (`gpio.h`, `i2c.h`, `mmc.h`), linker
  scripts, makefiles and the tools that run on the build host (`mkuboot` is vendored).
* Caches and the memory order of the single core.
