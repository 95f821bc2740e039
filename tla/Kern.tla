-------------------------------- MODULE Kern --------------------------------
(***************************************************************************)
(* The omb kernel core: process table, round-robin scheduler, timer tick   *)
(* and synchronous message passing (kern/proc.c, kern/sys.c).              *)
(*                                                                         *)
(* There is one CPU.  A system call runs with interrupts masked            *)
(* (am335x/kern/vectors.S, swi_ex), so between two user-mode instructions  *)
(* the kernel is interrupted only inside proc_start, whose initial label   *)
(* has the interrupt bits clear (am335x/kern/proc.c, func_label).  A step  *)
(* of this module is what the CPU does between two calls of schedule() or, *)
(* inside proc_start, between two statements a tick may separate.          *)
(*                                                                         *)
(* label[p] is the place where p continues: the saved label of a process   *)
(* that is off the CPU, the program counter of the one that is on it.      *)
(***************************************************************************)
EXTENDS Integers, Sequences, FiniteSets, SequencesExt, SenderList

CONSTANTS
  MAX_PROCS,       (* length of procs[]                                      *)
  MAX_PROC_LISTS,  (* length of proc_lists[], the pool of queue nodes        *)
  CREATE_LIMIT,    (* bound: processes created, proc0 included               *)
  Msg,             (* contents of a MESSAGE_LEN buffer                       *)
  ZeroMsg,         (* the all-zero buffer memset leaves in a new proc page   *)
  Ret,             (* integers a replier passes as ret                       *)
  Syscalls,        (* the system calls the user programs of an instance make *)
  TickPoints,      (* the points of proc_start at which a tick may arrive    *)
  nil              (* the null proc_t                                        *)

PID_ALL == -1
OK      == 0
ERR     == -1

Pid  == 0 .. MAX_PROCS - 1
Proc == Pid \cup {nil}

SyscallNames == {"send", "recv", "reply", "reply_recv", "proc_create"}

ASSUME KernAssumption ==
  /\ MAX_PROCS \in Nat \ {0}
  /\ MAX_PROC_LISTS \in Nat
  /\ CREATE_LIMIT \in 1 .. MAX_PROCS
  /\ ZeroMsg \in Msg
  /\ Ret \subseteq Int /\ OK \in Ret
  /\ Syscalls \subseteq SyscallNames
  /\ nil \notin Int

VARIABLES
  state,       (* procs[p].state                                           *)
  waiting_on,  (* procs[p].waiting_on                                      *)
  waiting,     (* procs[p].waiting: the senders queued at p, oldest first  *)
  label,       (* procs[p].label: where p continues, with its live local   *)
  m_in,        (* procs[p].page->m_in                                      *)
  m_out,       (* procs[p].page->m_out                                     *)
  m_ret,       (* procs[p].page->m_ret                                     *)
  r0,          (* what the last system call to finish returned to its user *)
  alive,       (* the list of created processes, in list order             *)
  nextpid,     (* the next slot of procs[] that proc_new takes             *)
  up           (* the process on the CPU; nil in the idle loop             *)

page == <<m_in, m_out, m_ret>>
vars == <<state, waiting_on, waiting, label, page, r0, alive, nextpid, up>>

-----------------------------------------------------------------------------
(* Continuations.  "krecv" carries the pid argument of krecv; the last     *)
(* three of proc_start carry the sender that krecv took (proc_start's p).  *)

At(where, arg) == [at |-> where, arg |-> arg]
User           == At("user", PID_ALL)

StartPoints == {"start0", "s_recv", "s_block", "s_sched",
                "s_copy", "s_reply", "s_drop"}
Points      == {"user", "ksend", "krecv", "kreply"} \cup StartPoints

ASSUME TickAssumption == TickPoints \subseteq StartPoints

(* The points of proc_start at which a process gets the CPU and unmasks    *)
(* interrupts.  A tick that fell due while a system call ran masked is     *)
(* taken there; at the others it would take a quantum that expires inside  *)
(* proc_start (Ticks, DueAtUnmask).                                        *)
UnmaskPoints == {"start0", "s_recv", "s_drop"}

State == {"dead", "ready", "oncpu", "send", "reply", "recv"}

Running(where) == up # nil /\ label[up].at = where
Continue(l)    == label' = [label EXCEPT ![up] = l]
Return(v)      == /\ Continue(User)
                  /\ r0' = v

(* Interrupts are unmasked in user mode and in proc_start and proc0_start. *)
IntrOn == \/ Running("user")
          \/ up # nil /\ label[up].at \in TickPoints

-----------------------------------------------------------------------------
(* The scheduler.                                                          *)

(* Operators whose names begin with Fault are never used by this module:   *)
(* each is a plausible mistake in the definition that follows it, for      *)
(* showing that a property of this module notices the mistake.             *)

(* Fault: the search starts at the head of the list every time. *)
FaultFromHead(st) ==
  LET ready == {i \in 1 .. Len(alive) : st[alive[i]] = "ready"}
  IN  IF ready = {} THEN nil ELSE alive[CHOOSE i \in ready : \A j \in ready : i <= j]

(* Fault: the loop ends at up without looking at up itself. *)
FaultSkipsUp(st) ==
  LET ready == {i \in 1 .. Len(alive) : st[alive[i]] = "ready" /\ alive[i] # up}
  IN  IF ready = {} THEN nil ELSE alive[CHOOSE i \in ready : \A j \in ready : i <= j]

(* next_proc: the first ready process in list order after up, wrapping     *)
(* round and ending with up itself; from the head of the list when up=nil. *)
NextProc(st) ==
  LET n     == Len(alive)
      here  == IF up = nil THEN 0 ELSE CHOOSE i \in 1 .. n : alive[i] = up
      At_(k) == alive[IF here + k <= n THEN here + k ELSE here + k - n]
      ready == {k \in 1 .. n : st[At_(k)] = "ready"}
  IN  IF ready = {} THEN nil
      ELSE At_(CHOOSE k \in ready : \A j \in ready : k <= j)

(* Fault: the preempted process keeps PROC_oncpu. *)
FaultKeepsOncpu(st) == st

(* The first test of schedule: a caller that did not block stays runnable. *)
YieldCpu(st) ==
  IF up # nil /\ st[up] = "oncpu" THEN [st EXCEPT ![up] = "ready"] ELSE st

(* schedule(n), called with the process states st: the caller is put back  *)
(* on the ready set unless it blocked itself, and n, or the next ready     *)
(* process when n is nil, gets the CPU.                                    *)
Schedule(st, n) ==
  LET st1  == YieldCpu(st)
      next == IF n # nil THEN n ELSE NextProc(st1)
  IN  /\ up' = next
      /\ state' = IF next = nil THEN st1 ELSE [st1 EXCEPT ![next] = "oncpu"]

(* systick_handler: the quantum expires.  The idle loop takes ticks too.   *)
Tick ==
  /\ up = nil \/ IntrOn
  /\ Schedule(state, nil)
  /\ UNCHANGED <<waiting_on, waiting, label, page, r0, alive, nextpid>>

-----------------------------------------------------------------------------
(* The queue of senders and its pool of nodes.                             *)

(* The nodes of proc_lists[] in use: one for every queued sender.          *)
Nodes == UNION {{<<q, i>> : i \in DOMAIN waiting[q]} : q \in Pid}

(* Fault: the first node is unlinked, whichever was found. *)
FaultUnlinksHead(q, i) == waiting' = [waiting EXCEPT ![q] = Tail(@)]

(* Fault: the node is read but stays in the list. *)
FaultKeepsNode(q, i) == UNCHANGED waiting

Unlink(q, i) == waiting' = [waiting EXCEPT ![q] = RemoveAt(@, i)]

-----------------------------------------------------------------------------
(* System calls.  Each is entered from user mode by up.                    *)

Enter(call) == Running("user") /\ call \in Syscalls

(* Fault: the caller does not record whom it waits on. *)
FaultWaitsOnNobody(p) == UNCHANGED waiting_on

WaitOn(p) == waiting_on' = [waiting_on EXCEPT ![up] = p]

(* Fault: a receiving target is left to the round-robin. *)
FaultNoHandoff(st, p) == nil

(* ksend's choice of whom to schedule. *)
Handoff(st, p) == IF st[p] = "recv" THEN p ELSE nil

(* ksend fails: the target slot is dead, or no queue node is free.         *)
sys_send_dead(p, m) ==
  /\ Enter("send")
  /\ state[p] = "dead"
  /\ m_out' = [m_out EXCEPT ![up] = m]
  /\ Return(ERR)
  /\ UNCHANGED <<state, waiting_on, waiting, m_in, m_ret, alive, nextpid, up>>

sys_send_full(p, m) ==
  /\ Enter("send")
  /\ state[p] # "dead"
  /\ Cardinality(Nodes) >= MAX_PROC_LISTS
  /\ m_out' = [m_out EXCEPT ![up] = m]
  /\ WaitOn(p)
  /\ Return(ERR)
  /\ UNCHANGED <<state, waiting, m_in, m_ret, alive, nextpid, up>>

(* ksend queues the caller at p and hands the CPU to p if p is receiving.  *)
sys_send(p, m) ==
  /\ Enter("send")
  /\ state[p] # "dead"
  /\ Cardinality(Nodes) < MAX_PROC_LISTS
  /\ m_out' = [m_out EXCEPT ![up] = m]
  /\ WaitOn(p)
  /\ waiting' = [waiting EXCEPT ![p] = Append(@, up)]
  /\ Continue(At("ksend", PID_ALL))
  /\ LET st == [state EXCEPT ![up] = "send"]
     IN  Schedule(st, Handoff(st, p))
  /\ UNCHANGED <<m_in, m_ret, r0, alive, nextpid>>

(* The sender is back on the CPU: ksend returns what the replier stored.   *)
ksend_return ==
  /\ Running("ksend")
  /\ Return(m_ret[up])
  /\ UNCHANGED <<state, waiting_on, waiting, page, alive, nextpid, up>>

sys_recv(pid) ==
  /\ Enter("recv")
  /\ Continue(At("krecv", pid))
  /\ UNCHANGED <<state, waiting_on, waiting, page, r0, alive, nextpid, up>>

(* One turn of krecv's loop: take a queued sender ...                      *)
krecv_take ==
  /\ Running("krecv")
  /\ waiting[up] # <<>>
  /\ LET i == Picked(waiting[up], label[up].arg)
         w == waiting[up][i]
     IN  /\ Unlink(up, i)
         /\ m_in' = [m_in EXCEPT ![up] = m_out[w]]
         /\ state' = [state EXCEPT ![w] = "reply"]
         /\ Return(w)
  /\ UNCHANGED <<waiting_on, m_out, m_ret, alive, nextpid, up>>

(* ... or block until a sender hands the CPU over.                         *)
krecv_block ==
  /\ Running("krecv")
  /\ waiting[up] = <<>>
  /\ Schedule([state EXCEPT ![up] = "recv"], nil)
  /\ UNCHANGED <<waiting_on, waiting, label, page, r0, alive, nextpid>>

(* Fault: whoever asks may answer a caller that has been taken. *)
FaultAnyServer(p, server) == state[p] = "reply"

(* Fault: a caller may be answered before it has been taken. *)
FaultNotTaken(p, server) == state[p] \in {"send", "reply"} /\ waiting_on[p] = server

(* kreply's test, at the head of kreply and of kreply_recv.                *)
AwaitsReplyFrom(p, server) == state[p] = "reply" /\ waiting_on[p] = server

Deliver(p, m, ret) ==
  /\ m_out' = [m_out EXCEPT ![up] = m]
  /\ m_in'  = [m_in EXCEPT ![p] = m]
  /\ m_ret' = [m_ret EXCEPT ![p] = ret]

sys_reply(p, m, ret) ==
  /\ Enter("reply")
  /\ AwaitsReplyFrom(p, up)
  /\ Deliver(p, m, ret)
  /\ Continue(At("kreply", PID_ALL))
  /\ Schedule(state, p)
  /\ UNCHANGED <<waiting_on, waiting, r0, alive, nextpid>>

kreply_return ==
  /\ Running("kreply")
  /\ Return(OK)
  /\ UNCHANGED <<state, waiting_on, waiting, page, alive, nextpid, up>>

(* kreply_recv blocks the caller before it hands over the CPU: it looks at *)
(* its own queue only when it next runs.                                   *)
sys_reply_recv(p, m, ret, rpid) ==
  /\ Enter("reply_recv")
  /\ AwaitsReplyFrom(p, up)
  /\ Deliver(p, m, ret)
  /\ Continue(At("krecv", rpid))
  /\ Schedule([state EXCEPT ![up] = "recv"], p)
  /\ UNCHANGED <<waiting_on, waiting, r0, alive, nextpid>>

(* Either reply call, to a process that does not await one from up.        *)
sys_reply_err(p, m) ==
  /\ Enter("reply") \/ Enter("reply_recv")
  /\ ~AwaitsReplyFrom(p, up)
  /\ m_out' = [m_out EXCEPT ![up] = m]
  /\ Return(ERR)
  /\ UNCHANGED <<state, waiting_on, waiting, m_in, m_ret, alive, nextpid, up>>

(* Fault: the slot number is not reduced modulo the size of the table. *)
FaultNoWrap == nextpid + 1

(* Fault: the slot just taken stays the next one. *)
FaultSameSlot == nextpid

NextSlot == (nextpid + 1) % MAX_PROCS

(* sys_proc_create and proc_new: clear the slot and the page, append the   *)
(* process to alive.  proc_new does not look at the slot it takes; this    *)
(* module stops at CREATE_LIMIT <= MAX_PROCS, before slots are reused.     *)
sys_proc_create ==
  /\ Enter("proc_create")
  /\ Len(alive) < CREATE_LIMIT
  /\ nextpid' = NextSlot
  /\ alive' = Append(alive, nextpid)
  /\ state' = [state EXCEPT ![nextpid] = "ready"]
  /\ waiting_on' = [waiting_on EXCEPT ![nextpid] = nil]
  /\ waiting' = [waiting EXCEPT ![nextpid] = <<>>]
  /\ m_in' = [m_in EXCEPT ![nextpid] = ZeroMsg]
  /\ m_out' = [m_out EXCEPT ![nextpid] = ZeroMsg]
  /\ m_ret' = [m_ret EXCEPT ![nextpid] = OK]
  /\ label' = [label EXCEPT ![nextpid] = At("s_recv", PID_ALL), ![up] = User]
  /\ r0' = nextpid
  /\ UNCHANGED up

-----------------------------------------------------------------------------
(* proc_start, where a new process begins, in kernel mode with interrupts  *)
(* unmasked: krecv(PID_ALL), then kreply, then drop_to_user.               *)

start_recv ==
  /\ Running("s_recv")
  /\ IF waiting[up] = <<>>
     THEN Continue(At("s_block", PID_ALL)) /\ UNCHANGED waiting
     ELSE LET i == Picked(waiting[up], PID_ALL)
          IN  Unlink(up, i) /\ Continue(At("s_copy", waiting[up][i]))
  /\ UNCHANGED <<state, waiting_on, page, r0, alive, nextpid, up>>

start_block ==
  /\ Running("s_block")
  /\ state' = [state EXCEPT ![up] = "recv"]
  /\ Continue(At("s_sched", PID_ALL))
  /\ UNCHANGED <<waiting_on, waiting, page, r0, alive, nextpid, up>>

start_sched ==
  /\ Running("s_sched")
  /\ Schedule(state, nil)
  /\ Continue(At("s_recv", PID_ALL))
  /\ UNCHANGED <<waiting_on, waiting, page, r0, alive, nextpid>>

start_copy ==
  /\ Running("s_copy")
  /\ LET w == label[up].arg
     IN  /\ m_in' = [m_in EXCEPT ![up] = m_out[w]]
         /\ state' = [state EXCEPT ![w] = "reply"]
         /\ Continue(At("s_reply", w))
  /\ UNCHANGED <<waiting_on, waiting, m_out, m_ret, r0, alive, nextpid, up>>

(* kreply(p, OK) with the untouched m_out; a failure is ignored.           *)
start_reply ==
  /\ Running("s_reply")
  /\ Continue(At("s_drop", PID_ALL))
  /\ LET w == label[up].arg
     IN  IF AwaitsReplyFrom(w, up)
         THEN Deliver(w, m_out[up], OK) /\ Schedule(state, w)
         ELSE UNCHANGED <<page, state, up>>
  /\ UNCHANGED <<waiting_on, waiting, r0, alive, nextpid>>

(* proc0_start and the end of proc_start.                                  *)
drop_to_user ==
  /\ Running("s_drop") \/ Running("start0")
  /\ Continue(User)
  /\ UNCHANGED <<state, waiting_on, waiting, page, r0, alive, nextpid, up>>

-----------------------------------------------------------------------------
(* kmain has created proc0 and scheduled it.                               *)
Init ==
  /\ state = [p \in Pid |-> IF p = 0 THEN "oncpu" ELSE "dead"]
  /\ waiting_on = [p \in Pid |-> nil]
  /\ waiting = [p \in Pid |-> <<>>]
  /\ label = [p \in Pid |-> At(IF p = 0 THEN "start0" ELSE "s_recv", PID_ALL)]
  /\ m_in = [p \in Pid |-> ZeroMsg]
  /\ m_out = [p \in Pid |-> ZeroMsg]
  /\ m_ret = [p \in Pid |-> OK]
  /\ r0 = OK
  /\ alive = <<0>>
  /\ nextpid = 1 % MAX_PROCS
  /\ up = 0

SyscallStep ==
  \/ \E p \in Pid, m \in Msg :
       sys_send_dead(p, m) \/ sys_send_full(p, m) \/ sys_send(p, m)
         \/ sys_reply_err(p, m)
  \/ \E pid \in Pid \cup {PID_ALL} : sys_recv(pid)
  \/ \E p \in Pid, m \in Msg, ret \in Ret :
       \/ sys_reply(p, m, ret)
       \/ \E rpid \in Pid \cup {PID_ALL} : sys_reply_recv(p, m, ret, rpid)
  \/ sys_proc_create

KernelStep ==
  \/ ksend_return \/ krecv_take \/ krecv_block \/ kreply_return
  \/ start_recv \/ start_block \/ start_sched \/ start_copy \/ start_reply
  \/ drop_to_user

Next == Tick \/ SyscallStep \/ KernelStep

Spec == Init /\ [][Next]_vars

(* The CPU keeps executing kernel code, and a process that keeps the CPU   *)
(* sees its quantum expire.  Every schedule() restarts the timer, so       *)
(* nothing is promised when the CPU changes hands for another reason.      *)
Quantum(p) == up = p /\ Tick
FairSpec   == Spec /\ WF_vars(KernelStep) /\ \A p \in Pid : WF_vars(Quantum(p))
-----------------------------------------------------------------------------
(* Invariants. *)

(* Every variable stays within the range of the C field it stands for.     *)
TypeOK ==
  /\ state \in [Pid -> State]
  /\ waiting_on \in [Pid -> Proc]
  /\ waiting \in [Pid -> Seq(Pid)]
  /\ label \in [Pid -> [at : Points, arg : Pid \cup {PID_ALL}]]
  /\ m_in \in [Pid -> Msg] /\ m_out \in [Pid -> Msg]
  /\ m_ret \in [Pid -> Ret]
  /\ r0 \in Ret \cup Pid \cup {OK, ERR}
  /\ alive \in Seq(Pid)
  /\ nextpid \in Pid
  /\ up \in Proc

(* schedule keeps PROC_oncpu in step with up, whichever path (tick,        *)
(* handoff, block) the CPU changed hands by: only the process the CPU runs *)
(* has that state, and it lacks it only in the window of krecv in which    *)
(* proc_start has marked itself PROC_recv and not yet called schedule.     *)
CpuOwnership ==
  \A p \in Pid :
    /\ state[p] = "oncpu" => up = p
    /\ up = p => \/ state[p] = "oncpu"
                 \/ state[p] = "recv" /\ label[p].at = "s_sched"

(* The created processes are the slots 0, 1, ... in order, the others are  *)
(* dead, and proc_new's next slot is dead while there is one.              *)
AliveInOrder ==
  /\ Len(alive) \in 1 .. MAX_PROCS
  /\ \A i \in 1 .. Len(alive) : alive[i] = i - 1
  /\ nextpid = Len(alive) % MAX_PROCS
  /\ \A p \in Pid : state[p] = "dead" <=> p >= Len(alive)

(* A sender that proc_start has unlinked but not yet marked PROC_reply.    *)
InTransit(p, q) == label[q] = At("s_copy", p)

(* A process is queued in at most one list, once, and exactly while it is  *)
(* in PROC_send: no sender is lost from its queue or answered while in it. *)
(* Nobody is queued at a slot that proc_new has yet to clear.              *)
QueuedAreSenders ==
  \A q \in Pid : \A i \in 1 .. Len(waiting[q]) :
    LET p == waiting[q][i]
    IN  /\ state[p] = "send"
        /\ waiting_on[p] = q
        /\ ~InTransit(p, q)
        /\ \A j \in 1 .. Len(waiting[q]) : waiting[q][j] = p => i = j

SendersAreQueued ==
  \A p \in Pid : state[p] = "send" =>
    /\ waiting_on[p] \in Pid
    /\ \/ InTransit(p, waiting_on[p])
       \/ \E i \in 1 .. Len(waiting[waiting_on[p]]) :
            waiting[waiting_on[p]][i] = p

NobodyAwaitsDead == \A q \in Pid : state[q] = "dead" => waiting[q] = <<>>

QueueConsistent == QueuedAreSenders /\ SendersAreQueued /\ NobodyAwaitsDead

(* The state other processes read agrees with the place the process will   *)
(* resume at; in particular a caller is inside ksend from its send until   *)
(* it is answered, and the client proc_start holds still awaits its reply. *)
ResumePoints ==
  /\ \A p \in Pid :
       /\ state[p] \in {"send", "reply"} => label[p].at = "ksend"
       /\ state[p] = "recv" => label[p].at \in {"krecv", "s_recv", "s_sched"}
       /\ state[p] = "ready" => label[p].at \in {"user", "kreply"} \cup StartPoints
       /\ state[p] = "dead" => label[p] = At("s_recv", PID_ALL)
       /\ label[p].at \in {"s_copy", "s_reply"} => label[p].arg \in Pid
  /\ \A p, c \in Pid :
       /\ label[p] = At("s_copy", c) => state[c] = "send" /\ waiting_on[c] = p
       /\ label[p] = At("s_reply", c) => AwaitsReplyFrom(c, p)

(* A process in PROC_reply was taken by the process it waits on, which     *)
(* exists and is not itself: somebody is left to answer it.                *)
ReplyOwed == \A p \in Pid : state[p] = "reply" =>
  waiting_on[p] \in Pid /\ waiting_on[p] # p /\ state[waiting_on[p]] # "dead"

(* The idle loop is entered only when no process could run.                *)
IdleOnlyWhenStuck == up = nil => \A p \in Pid : state[p] # "ready"

(* With a pool as large as the process table, a process about to make a    *)
(* system call always finds a free queue node: ksend cannot fail for it.   *)
PoolSuffices ==
  MAX_PROC_LISTS >= MAX_PROCS /\ up # nil /\ state[up] = "oncpu"
    => Cardinality(Nodes) < MAX_PROC_LISTS

(* No process is parked in PROC_recv while a sender is queued at it: only  *)
(* a further send would wake it.  Holds of recv and reply; reply_recv and  *)
(* a tick inside proc_start break it.                                      *)
NoLostWakeup == \A p \in Pid : state[p] = "recv" => waiting[p] = <<>>

(* The inductive invariant behind the theorems of KernProofs. *)
IInv ==
  /\ TypeOK
  /\ CpuOwnership
  /\ AliveInOrder
  /\ QueueConsistent
  /\ ResumePoints
  /\ ReplyOwed
  /\ IdleOnlyWhenStuck

(* Action and temporal properties. *)

(* Nothing but a running process makes another one ready, so the kernel    *)
(* never leaves the idle loop once it is in it.                            *)
IdleIsFinal == [][up = nil => up' = nil]_vars

(* recv hands its caller the pid of one queued sender and the message of   *)
(* that sender: of pid if it is queued, and of the newest sender if it is  *)
(* not or pid is PID_ALL.                                                  *)
RecvPrefersPid ==
  [][\A p \in Pid :
       label[p].at = "krecv" /\ label'[p].at = "user" =>
         /\ r0' = IF label[p].arg \in ToSet(waiting[p]) THEN label[p].arg
                  ELSE Last(waiting[p])
         /\ m_in'[p] = m_out[r0']]_vars

(* recv(pid) with a pid other than PID_ALL hands over a message of pid.    *)
RecvOnlyFromPid ==
  [][\A p \in Pid :
       (/\ label[p].at = "krecv" /\ label'[p].at = "user"
        /\ label[p].arg # PID_ALL)
       => r0' = label[p].arg]_vars

(* next_proc reaches every ready process.                                  *)
ReadyRuns == \A p \in Pid : state[p] = "ready" ~> state[p] = "oncpu"

(* The kernel implements the message-passing contract of Rpc.              *)
Calling(p) == state[p] \in {"send", "reply"}
RpcCall ==
  [p \in Pid |->
     [phase |-> IF ~Calling(p) THEN "idle"
                ELSE IF state[p] = "send" THEN "queued" ELSE "taken",
      to    |-> IF Calling(p) THEN waiting_on[p] ELSE nil,
      msg   |-> IF Calling(p) THEN m_out[p] ELSE ZeroMsg]]

Contract == INSTANCE Rpc WITH Client <- Pid, NoOne <- nil, OkRet <- OK,
                       call <- RpcCall, inbox <- m_in, result <- m_ret
ImplementsRpc == Contract!RpcSpec
=============================================================================
