----------------------------- MODULE KernProofs -----------------------------
(***************************************************************************)
(* Proofs about Kern for every number of processes, pool size, message set *)
(* and workload: the invariants and action properties, two promises to     *)
(* the programs, and the refinement of Rpc.                                *)
(***************************************************************************)
EXTENDS Kern, ListFacts

(* The helpers of the model. *)

LEMMA AtFacts ==
  \A a, b, x, y : /\ At(a, x) = At(b, y) <=> a = b /\ x = y
                  /\ At(a, x).at = a /\ At(a, x).arg = x
<1> TAKE a, b, x, y
<1>1. At(a, x).at = a /\ At(a, x).arg = x /\ At(b, y).at = b /\ At(b, y).arg = y
  BY DEF At
<1> QED
  BY <1>1

(* next_proc returns a ready process of the list, and nil only when the    *)
(* list has none.                                                          *)
LEMMA NextProcFacts ==
  ASSUME NEW st, alive \in Seq(Pid),
         up # nil => \E i \in 1 .. Len(alive) : alive[i] = up
  PROVE  \/ /\ NextProc(st) = nil
            /\ \A i \in 1 .. Len(alive) : st[alive[i]] # "ready"
         \/ /\ NextProc(st) \in Pid
            /\ st[NextProc(st)] = "ready"
<1> DEFINE n     == Len(alive)
           here  == IF up = nil THEN 0 ELSE CHOOSE i \in 1 .. n : alive[i] = up
           At_(k) == alive[IF here + k <= n THEN here + k ELSE here + k - n]
           ready == {k \in 1 .. n : st[At_(k)] = "ready"}
           first == CHOOSE k \in ready : \A j \in ready : k <= j
<1>1. NextProc(st) = IF ready = {} THEN nil ELSE At_(first)
  BY DEF NextProc
<1>2. n \in Nat /\ here \in 0 .. n
  <2>1. CASE up = nil
    BY <2>1
  <2>2. CASE up # nil
    <3>1. here \in 1 .. n
      BY <2>2
    <3> QED
      BY <3>1
  <2> QED
    BY <2>1, <2>2
<1> HIDE DEF here
<1>3. CASE ready = {}
  <2>1. ASSUME NEW i \in 1 .. n PROVE st[alive[i]] # "ready"
    <3>1. CASE i > here
      <4>1. i - here \in 1 .. n /\ At_(i - here) = alive[i]
        BY <1>2, <3>1
      <4> QED
        BY <1>3, <4>1
    <3>2. CASE i <= here
      <4>1. /\ i - here + n \in 1 .. n
            /\ At_(i - here + n) = alive[i]
        BY <1>2, <3>2
      <4> QED
        BY <1>3, <4>1
    <3> QED
      BY <1>2, <3>1, <3>2
  <2> QED
    BY <1>1, <1>3, <2>1
<1>4. CASE ready # {}
  <2>1. \E k \in ready : \A j \in ready : k <= j
    <3>1. ready \subseteq Nat
      BY <1>2
    <3> QED
      BY <1>4, <3>1, LeastNat
  <2>2. first \in ready
    BY <2>1
  <2> HIDE DEF first
  <2>3. At_(first) \in Pid /\ st[At_(first)] = "ready"
    BY <1>2, <2>2
  <2> QED
    BY <1>1, <1>4, <2>3
<1> QED
  BY <1>3, <1>4

(* Everything the proofs need to know of a call of schedule. *)
Switched(st, n) ==
  /\ up' \in Proc
  /\ state' \in [Pid -> State]
  /\ \A p \in Pid :
       /\ state'[p] = "oncpu" <=> up' = p
       /\ state'[p] = "ready" => st[p] = "ready" \/ (st[p] = "oncpu" /\ p = up)
       /\ state'[p] \notin {"ready", "oncpu"} => state'[p] = st[p]
       /\ st[p] \notin {"ready", "oncpu"} /\ up' # p => state'[p] = st[p]
  /\ IF n # nil THEN up' = n
     ELSE up' # nil => st[up'] \in {"ready", "oncpu"}
  /\ up' = nil => \A i \in 1 .. Len(alive) : state'[alive[i]] # "ready"

LEMMA ScheduleFacts ==
  ASSUME TypeOK, CpuOwnership, AliveInOrder,
         NEW st \in [Pid -> State], NEW n \in Proc,
         \A p \in Pid : st[p] = "oncpu" => p = up,
         Schedule(st, n)
  PROVE  Switched(st, n)
<1> DEFINE st1  == YieldCpu(st)
           next == IF n # nil THEN n ELSE NextProc(st1)
<1>1. nil \notin Pid
  BY KernAssumption DEF Pid
<1>2. /\ up' = next
      /\ state' = IF next = nil THEN st1 ELSE [st1 EXCEPT ![next] = "oncpu"]
  BY DEF Schedule
<1>3. /\ st1 \in [Pid -> State]
      /\ \A p \in Pid :
           /\ st1[p] # "oncpu"
           /\ st1[p] = "ready" => st[p] = "ready" \/ (st[p] = "oncpu" /\ p = up)
           /\ st[p] \notin {"ready", "oncpu"} => st1[p] = st[p]
           /\ st1[p] # "ready" => st1[p] = st[p]
  BY <1>1 DEF YieldCpu, TypeOK, State, Proc
<1>4. up # nil => \E i \in 1 .. Len(alive) : alive[i] = up
  <2> SUFFICES ASSUME up # nil PROVE \E i \in 1 .. Len(alive) : alive[i] = up
    OBVIOUS
  <2>1. up \in Pid /\ state[up] # "dead"
    BY DEF TypeOK, CpuOwnership, Proc
  <2>2. up \in Nat /\ up < Len(alive)
    BY <2>1, KernAssumption DEF AliveInOrder, TypeOK, Pid
  <2>3. up + 1 \in 1 .. Len(alive) /\ alive[up + 1] = up
    BY <2>2 DEF AliveInOrder
  <2> QED
    BY <2>3
<1> HIDE DEF st1
<1>5. \/ /\ NextProc(st1) = nil
         /\ \A i \in 1 .. Len(alive) : st1[alive[i]] # "ready"
      \/ /\ NextProc(st1) \in Pid
         /\ st1[NextProc(st1)] = "ready"
  BY <1>4, NextProcFacts DEF TypeOK
<1>6. CASE next = nil
  <2>1. n = nil /\ up' = nil /\ state' = st1 /\ NextProc(st1) = nil
    BY <1>2, <1>6
  <2>2. \A i \in 1 .. Len(alive) : st1[alive[i]] # "ready"
    BY <1>1, <1>5, <2>1
  <2> QED
    BY <1>1, <1>3, <2>1, <2>2 DEF Switched, Proc
<1>7. CASE next # nil
  <2>1. /\ next \in Pid
        /\ IF n # nil THEN next = n ELSE st1[next] = "ready"
    BY <1>5, <1>7 DEF Proc
  <2> HIDE DEF next
  <2>2. up' = next /\ state' = [st1 EXCEPT ![next] = "oncpu"]
    BY <1>2, <1>7
  <2> QED
    BY <1>1, <1>3, <1>7, <2>1, <2>2 DEF Switched, Proc, State
<1> QED
  BY <1>6, <1>7

(* A step that only moves the CPU, and blocks or wakes nobody else than    *)
(* st says, keeps the facts about who runs and who exists.                 *)
LEMMA SwitchKeepsOwnership ==
  ASSUME TypeOK, AliveInOrder,
         NEW st \in [Pid -> State], NEW n \in Proc,
         \A p \in Pid : st[p] = "dead" <=> state[p] = "dead",
         n # nil => st[n] # "dead",
         Switched(st, n), UNCHANGED <<alive, nextpid>>
  PROVE  CpuOwnership' /\ AliveInOrder' /\ IdleOnlyWhenStuck'
<1>1. nil \notin Pid
  BY KernAssumption DEF Pid
<1>2. CpuOwnership'
  BY <1>1 DEF Switched, CpuOwnership
<1>3. AliveInOrder'
  <2>1. ASSUME NEW p \in Pid PROVE state'[p] = "dead" <=> state[p] = "dead"
    <3>1. CASE state'[p] = "dead"
      BY <3>1 DEF Switched
    <3>2. CASE state[p] = "dead"
      <4>1. st[p] = "dead"
        BY <3>2
      <4>2. up' # p
        BY <1>1, <4>1 DEF Switched, Proc
      <4> QED
        BY <4>1, <4>2 DEF Switched
    <3> QED
      BY <3>1, <3>2
  <2> QED
    BY <2>1 DEF AliveInOrder
<1>4. IdleOnlyWhenStuck'
  <2> SUFFICES ASSUME up' = nil, NEW p \in Pid PROVE state'[p] # "ready"
    BY DEF IdleOnlyWhenStuck
  <2>1. CASE p < Len(alive)
    <3>1. p + 1 \in 1 .. Len(alive) /\ alive[p + 1] = p
      BY <2>1, KernAssumption DEF AliveInOrder, Pid
    <3> QED
      BY <3>1 DEF Switched
  <2>2. CASE ~ (p < Len(alive))
    <3>1. state'[p] = "dead"
      BY <1>3, <2>2, KernAssumption DEF AliveInOrder, Pid
    <3> QED
      BY <3>1
  <2> QED
    BY <2>1, <2>2
<1> QED
  BY <1>2, <1>3, <1>4

(* A step that leaves the queues and their members alone keeps them        *)
(* consistent.                                                             *)
LEMMA QueuesKept ==
  ASSUME TypeOK, QueueConsistent, waiting' = waiting,
         \A p \in Pid : /\ state'[p] = "send" <=> state[p] = "send"
                        /\ state'[p] = "dead" => state[p] = "dead"
                        /\ state[p] = "send" => waiting_on'[p] = waiting_on[p],
         \A p, q \in Pid : InTransit(p, q)' <=> InTransit(p, q)
  PROVE  QueueConsistent'
<1>1. \A q \in Pid : waiting[q] \in Seq(Pid)
  BY DEF TypeOK
<1>2. \A q \in Pid : \A i \in 1 .. Len(waiting[q]) : waiting[q][i] \in Pid
  BY <1>1
<1>3. QueuedAreSenders'
  BY <1>2 DEF QueueConsistent, QueuedAreSenders
<1>4. SendersAreQueued'
  BY DEF QueueConsistent, SendersAreQueued
<1>5. NobodyAwaitsDead'
  BY DEF QueueConsistent, NobodyAwaitsDead
<1> QED
  BY <1>3, <1>4, <1>5 DEF QueueConsistent

-----------------------------------------------------------------------------
(* The steps of the kernel, one lemma for each. *)

LEMMA TickStep == IInv /\ Tick => IInv'
<1> SUFFICES ASSUME IInv, Tick PROVE IInv'
  OBVIOUS
<1> USE DEF IInv
<1>1. nil \notin Pid /\ nil \in Proc
  BY KernAssumption DEF Pid, Proc
<1>2. Switched(state, nil)
  BY <1>1, ScheduleFacts DEF Tick, TypeOK, CpuOwnership
<1>3. CpuOwnership' /\ AliveInOrder' /\ IdleOnlyWhenStuck'
  BY <1>1, <1>2, SwitchKeepsOwnership DEF Tick, TypeOK
<1>4. TypeOK'
  BY <1>2 DEF Tick, TypeOK, Switched, page
<1>5. /\ \A p \in Pid : state[p] \notin {"ready", "oncpu"} => state'[p] = state[p]
      /\ \A p \in Pid : state'[p] \notin {"ready", "oncpu"} => state'[p] = state[p]
  BY <1>1, <1>2 DEF Switched
<1>6. QueueConsistent'
  <2>1. \A p, q \in Pid : InTransit(p, q)' <=> InTransit(p, q)
    BY DEF InTransit, Tick
  <2> QED
    BY <1>5, <2>1, QueuesKept DEF Tick
<1>7. ResumePoints'
  <2>1. ASSUME NEW p \in Pid, state'[p] = "ready"
        PROVE  label[p].at \in {"user", "kreply"} \cup StartPoints
    <3>1. CASE state[p] = "ready"
      BY <3>1 DEF ResumePoints
    <3>2. CASE up = p
      BY <1>1, <3>2, TickAssumption DEF Tick, IntrOn, Running
    <3> QED
      BY <1>2, <2>1, <3>1, <3>2 DEF Switched
  <2> QED
    BY <1>5, <2>1 DEF ResumePoints, AwaitsReplyFrom, Tick
<1>8. ReplyOwed'
  BY <1>5 DEF ReplyOwed, Tick, TypeOK, Proc
<1> QED
  BY <1>3, <1>4, <1>6, <1>7, <1>8

(* A process is on the CPU wherever the model says Running, and its state  *)
(* says so unless it is about to call schedule in proc_start.              *)
LEMMA RunningFacts ==
  ASSUME IInv, NEW where, Running(where)
  PROVE  /\ up \in Pid /\ label[up].at = where
         /\ where # "s_sched" => state[up] = "oncpu"
         /\ state[up] \in {"oncpu", "recv"}
  BY DEF IInv, TypeOK, CpuOwnership, Running, Proc

(* A step in which the running process only moves on, and changes nobody's *)
(* state and nobody else's waiting_on.                                     *)
LEMMA QuietKeeps ==
  ASSUME IInv, up \in Pid, state[up] = "oncpu",
         label[up].at \notin {"s_copy", "s_reply"},
         NEW l, l.at \notin {"s_copy", "s_reply"},
         label' = [label EXCEPT ![up] = l],
         UNCHANGED <<state, waiting, alive, nextpid, up>>,
         \A p \in Pid \ {up} : waiting_on'[p] = waiting_on[p]
  PROVE  /\ CpuOwnership' /\ AliveInOrder' /\ QueueConsistent'
         /\ ResumePoints' /\ ReplyOwed' /\ IdleOnlyWhenStuck'
<1> USE DEF IInv
<1>1. \A p \in Pid : label'[p] = IF p = up THEN l ELSE label[p]
  BY DEF TypeOK
<1>2. \A p \in Pid : state[p] \in {"send", "reply"} => waiting_on'[p] = waiting_on[p]
  OBVIOUS
<1>3. CpuOwnership' /\ AliveInOrder' /\ IdleOnlyWhenStuck'
  BY <1>1 DEF CpuOwnership, AliveInOrder, IdleOnlyWhenStuck
<1>4. QueueConsistent'
  <2>1. \A p, q \in Pid : InTransit(p, q)' <=> InTransit(p, q)
    BY <1>1 DEF InTransit, At
  <2> QED
    BY <1>2, <2>1, QueuesKept
<1>5. ResumePoints'
  <2>1. ASSUME NEW p \in Pid
        PROVE  /\ state[p] \in {"send", "reply"} => label'[p].at = "ksend"
               /\ state[p] = "recv" => label'[p].at \in {"krecv", "s_recv", "s_sched"}
               /\ state[p] = "ready" => label'[p].at \in {"user", "kreply"} \cup StartPoints
               /\ state[p] = "dead" => label'[p] = At("s_recv", PID_ALL)
               /\ label'[p].at \in {"s_copy", "s_reply"} => label'[p].arg \in Pid
    BY <1>1 DEF ResumePoints
  <2>2. ASSUME NEW p \in Pid, NEW c \in Pid
        PROVE  /\ label'[p] = At("s_copy", c) => state[c] = "send" /\ waiting_on'[c] = p
               /\ label'[p] = At("s_reply", c) => AwaitsReplyFrom(c, p)'
    BY <1>1, <1>2 DEF ResumePoints, AwaitsReplyFrom, At
  <2> QED
    BY <2>1, <2>2 DEF ResumePoints
<1>6. ReplyOwed'
  BY <1>2 DEF ReplyOwed, TypeOK, Proc
<1> QED
  BY <1>3, <1>4, <1>5, <1>6

LEMMA SendDeadStep ==
  \A p \in Pid, m \in Msg : IInv /\ sys_send_dead(p, m) => IInv'
<1> SUFFICES ASSUME NEW p \in Pid, NEW m \in Msg, IInv, sys_send_dead(p, m) PROVE IInv'
  OBVIOUS
<1>1. up \in Pid /\ state[up] = "oncpu" /\ label[up].at = "user"
  BY RunningFacts DEF sys_send_dead, Enter
<1>2. TypeOK'
  BY <1>1 DEF IInv, TypeOK, sys_send_dead, Return, Continue, User, At, Points
<1> QED
  BY <1>1, <1>2, QuietKeeps DEF IInv, sys_send_dead, Return, Continue, User, At

LEMMA SendFullStep ==
  \A p \in Pid, m \in Msg : IInv /\ sys_send_full(p, m) => IInv'
<1> SUFFICES ASSUME NEW p \in Pid, NEW m \in Msg, IInv, sys_send_full(p, m) PROVE IInv'
  OBVIOUS
<1>1. up \in Pid /\ state[up] = "oncpu" /\ label[up].at = "user"
  BY RunningFacts DEF sys_send_full, Enter
<1>2. TypeOK'
  BY <1>1 DEF IInv, TypeOK, sys_send_full, WaitOn, Return, Continue, User, At, Points, Proc
<1>3. \A q \in Pid \ {up} : waiting_on'[q] = waiting_on[q]
  BY DEF IInv, TypeOK, sys_send_full, WaitOn
<1> QED
  BY <1>1, <1>2, <1>3, QuietKeeps DEF IInv, sys_send_full, Return, Continue, User, At

LEMMA SendReturnStep == IInv /\ ksend_return => IInv'
<1> SUFFICES ASSUME IInv, ksend_return PROVE IInv'
  OBVIOUS
<1>1. up \in Pid /\ state[up] = "oncpu" /\ label[up].at = "ksend"
  BY RunningFacts DEF ksend_return
<1>2. TypeOK'
  BY <1>1 DEF IInv, TypeOK, ksend_return, Return, Continue, User, At, Points, page
<1> QED
  BY <1>1, <1>2, QuietKeeps DEF IInv, ksend_return, Return, Continue, User, At

LEMMA RecvStep ==
  \A pid \in Pid \cup {PID_ALL} : IInv /\ sys_recv(pid) => IInv'
<1> SUFFICES ASSUME NEW pid \in Pid \cup {PID_ALL}, IInv, sys_recv(pid) PROVE IInv'
  OBVIOUS
<1>1. up \in Pid /\ state[up] = "oncpu" /\ label[up].at = "user"
  BY RunningFacts DEF sys_recv, Enter
<1>2. TypeOK'
  BY <1>1 DEF IInv, TypeOK, sys_recv, Continue, At, Points, page
<1> QED
  BY <1>1, <1>2, QuietKeeps DEF IInv, sys_recv, Continue, At

LEMMA ReplyReturnStep == IInv /\ kreply_return => IInv'
<1> SUFFICES ASSUME IInv, kreply_return PROVE IInv'
  OBVIOUS
<1>1. up \in Pid /\ state[up] = "oncpu" /\ label[up].at = "kreply"
  BY RunningFacts DEF kreply_return
<1>2. TypeOK'
  BY <1>1 DEF IInv, TypeOK, kreply_return, Return, Continue, User, At, Points, page
<1> QED
  BY <1>1, <1>2, QuietKeeps DEF IInv, kreply_return, Return, Continue, User, At

LEMMA ReplyErrStep ==
  \A p \in Pid, m \in Msg : IInv /\ sys_reply_err(p, m) => IInv'
<1> SUFFICES ASSUME NEW p \in Pid, NEW m \in Msg, IInv, sys_reply_err(p, m) PROVE IInv'
  OBVIOUS
<1>1. up \in Pid /\ state[up] = "oncpu" /\ label[up].at = "user"
  BY RunningFacts DEF sys_reply_err, Enter
<1>2. TypeOK'
  BY <1>1 DEF IInv, TypeOK, sys_reply_err, Return, Continue, User, At, Points
<1> QED
  BY <1>1, <1>2, QuietKeeps DEF IInv, sys_reply_err, Return, Continue, User, At

LEMMA DropToUserStep == IInv /\ drop_to_user => IInv'
<1> SUFFICES ASSUME IInv, drop_to_user PROVE IInv'
  OBVIOUS
<1>1. up \in Pid /\ state[up] = "oncpu" /\ label[up].at \in {"s_drop", "start0"}
  BY RunningFacts DEF drop_to_user
<1>2. TypeOK'
  BY <1>1 DEF IInv, TypeOK, drop_to_user, Continue, User, At, Points, page
<1> QED
  BY <1>1, <1>2, QuietKeeps DEF IInv, drop_to_user, Continue, User, At

LEMMA SendStep ==
  \A p \in Pid, m \in Msg : IInv /\ sys_send(p, m) => IInv'
<1> SUFFICES ASSUME NEW p \in Pid, NEW m \in Msg, IInv, sys_send(p, m) PROVE IInv'
  OBVIOUS
<1> DEFINE st == [state EXCEPT ![up] = "send"]
           n  == Handoff(st, p)
<1> USE DEF IInv
<1>1. up \in Pid /\ state[up] = "oncpu" /\ label[up].at = "user"
  BY RunningFacts DEF sys_send, Enter
<1>2. /\ nil \notin Pid /\ st \in [Pid -> State] /\ n \in Proc
      /\ \A q \in Pid : st[q] = IF q = up THEN "send" ELSE state[q]
      /\ \A q \in Pid : st[q] # "oncpu"
      /\ n # nil => n \in Pid \ {up} /\ state[n] = "recv" /\ st[n] = "recv"
  <2>1. nil \notin Pid
    BY KernAssumption DEF Pid
  <2>2. /\ st \in [Pid -> State]
        /\ \A q \in Pid : st[q] = IF q = up THEN "send" ELSE state[q]
    BY <1>1 DEF TypeOK, State
  <2>3. \A q \in Pid : st[q] # "oncpu"
    BY <1>1, <2>2 DEF CpuOwnership
  <2> HIDE DEF st
  <2> QED
    BY <2>1, <2>2, <2>3 DEF Handoff, Proc
<1>3. /\ Schedule(st, n)
      /\ waiting_on' = [waiting_on EXCEPT ![up] = p]
      /\ waiting' = [waiting EXCEPT ![p] = Append(@, up)]
      /\ label' = [label EXCEPT ![up] = At("ksend", PID_ALL)]
      /\ m_out' = [m_out EXCEPT ![up] = m]
      /\ UNCHANGED <<m_in, m_ret, r0, alive, nextpid>>
      /\ state[p] # "dead"
  BY DEF sys_send, WaitOn, Continue
<1> HIDE DEF st, n
<1>4. Switched(st, n)
  BY <1>2, <1>3, ScheduleFacts
<1>5. CpuOwnership' /\ AliveInOrder' /\ IdleOnlyWhenStuck'
  BY <1>1, <1>2, <1>3, <1>4, SwitchKeepsOwnership
<1>6. /\ waiting[p] \in Seq(Pid) /\ waiting'[p] = Append(waiting[p], up)
      /\ waiting'[p] \in Seq(Pid) /\ Len(waiting'[p]) = Len(waiting[p]) + 1
      /\ \A j \in 1 .. Len(waiting[p]) : waiting'[p][j] = waiting[p][j]
      /\ waiting'[p][Len(waiting[p]) + 1] = up
      /\ \A q \in Pid \ {p} : waiting'[q] = waiting[q]
  <2>1. waiting[p] \in Seq(Pid) /\ waiting'[p] = Append(waiting[p], up)
    BY <1>3 DEF TypeOK
  <2> QED
    BY <1>1, <1>3, <2>1, AppendFacts DEF TypeOK
<1>7. TypeOK'
  <2>1. waiting' \in [Pid -> Seq(Pid)]
    BY <1>3, <1>6 DEF TypeOK
  <2> QED
    BY <1>1, <1>3, <1>4, <2>1 DEF TypeOK, Switched, Proc, At, Points
<1>8. /\ state'[up] = "send"
      /\ \A q \in Pid \ {up} :
           /\ state'[q] = "send" <=> state[q] = "send"
           /\ state'[q] = "reply" <=> state[q] = "reply"
           /\ state'[q] = "dead" <=> state[q] = "dead"
           /\ state'[q] = "recv" => state[q] = "recv"
           /\ state'[q] = "ready" => state[q] = "ready"
  BY <1>1, <1>2, <1>4 DEF Switched, Proc
<1>9. \A q \in Pid : /\ label'[q] = IF q = up THEN At("ksend", PID_ALL) ELSE label[q]
                     /\ waiting_on'[q] = IF q = up THEN p ELSE waiting_on[q]
  BY <1>3 DEF TypeOK
<1>10. \A q \in Pid : \A i \in 1 .. Len(waiting[q]) :
         /\ waiting[q][i] \in Pid \ {up} /\ state[waiting[q][i]] = "send"
  BY <1>1 DEF TypeOK, QueueConsistent, QueuedAreSenders
<1>11. QueueConsistent'
  <2>1. QueuedAreSenders'
    <3> SUFFICES ASSUME NEW q \in Pid, NEW i \in 1 .. Len(waiting'[q])
                 PROVE  /\ state'[waiting'[q][i]] = "send"
                        /\ waiting_on'[waiting'[q][i]] = q
                        /\ label'[q] # At("s_copy", waiting'[q][i])
                        /\ \A j \in 1 .. Len(waiting'[q]) :
                             waiting'[q][j] = waiting'[q][i] => i = j
      BY DEF QueuedAreSenders, InTransit
    <3>1. CASE i \in 1 .. Len(waiting[q])
      <4> DEFINE w == waiting[q][i]
      <4>1. /\ w \in Pid \ {up} /\ state[w] = "send" /\ waiting_on[w] = q
            /\ label[q] # At("s_copy", w)
            /\ \A j \in 1 .. Len(waiting[q]) : waiting[q][j] = w => i = j
        BY <1>10, <3>1 DEF QueueConsistent, QueuedAreSenders, InTransit
      <4>2. waiting'[q][i] = w
        BY <1>6, <3>1
      <4>3. label'[q] # At("s_copy", w)
        BY <1>9, <4>1, AtFacts
      <4>4. \A j \in 1 .. Len(waiting'[q]) : waiting'[q][j] = w => i = j
        BY <1>6, <4>1, SMTT(30)
      <4> HIDE DEF w
      <4> QED
        BY <1>8, <1>9, <4>1, <4>2, <4>3, <4>4
    <3>2. CASE i \notin 1 .. Len(waiting[q])
      <4>1. q = p /\ i = Len(waiting[p]) + 1 /\ waiting'[q][i] = up
        BY <1>6, <3>2
      <4>2. label'[p] # At("s_copy", up)
        BY <1>1, <1>9, AtFacts DEF ResumePoints
      <4>3. \A j \in 1 .. Len(waiting'[p]) : waiting'[p][j] = up => i = j
        BY <1>6, <1>10, <4>1
      <4> QED
        BY <1>1, <1>8, <1>9, <4>1, <4>2, <4>3
    <3> QED
      BY <3>1, <3>2
  <2>2. SendersAreQueued'
    <3> SUFFICES ASSUME NEW c \in Pid, state'[c] = "send"
                 PROVE  /\ waiting_on'[c] \in Pid
                        /\ \/ label'[waiting_on'[c]] = At("s_copy", c)
                           \/ \E i \in 1 .. Len(waiting'[waiting_on'[c]]) :
                                waiting'[waiting_on'[c]][i] = c
      BY DEF SendersAreQueued, InTransit
    <3>1. CASE c = up
      <4>1. waiting_on'[c] = p /\ Len(waiting[p]) + 1 \in 1 .. Len(waiting'[p])
        BY <1>6, <1>9, <3>1
      <4> QED
        BY <1>6, <3>1, <4>1
    <3>2. CASE c # up
      <4>1. /\ state[c] = "send" /\ waiting_on'[c] = waiting_on[c] /\ waiting_on[c] \in Pid
            /\ \/ InTransit(c, waiting_on[c])
               \/ \E i \in 1 .. Len(waiting[waiting_on[c]]) : waiting[waiting_on[c]][i] = c
        BY <1>8, <1>9, <3>2 DEF QueueConsistent, SendersAreQueued
      <4>2. CASE InTransit(c, waiting_on[c])
        BY <1>1, <1>9, <4>1, <4>2, AtFacts DEF InTransit
      <4>3. CASE \E i \in 1 .. Len(waiting[waiting_on[c]]) : waiting[waiting_on[c]][i] = c
        BY <1>6, <4>1, <4>3, SMTT(30)
      <4> QED
        BY <4>1, <4>2, <4>3
    <3> QED
      BY <3>1, <3>2
  <2>3. NobodyAwaitsDead'
    BY <1>3, <1>6, <1>8 DEF QueueConsistent, NobodyAwaitsDead
  <2> QED
    BY <2>1, <2>2, <2>3 DEF QueueConsistent
<1>12. ResumePoints'
  BY <1>1, <1>8, <1>9 DEF ResumePoints, AwaitsReplyFrom, At
<1>13. ReplyOwed'
  BY <1>8, <1>9, <1>1 DEF ReplyOwed
<1> QED
  BY <1>5, <1>7, <1>11, <1>12, <1>13

(* The queues lose the sender w and nobody else; each other sender is      *)
(* still queued once, and where it was.                                    *)
Unlinked(w) ==
  /\ \A r \in Pid : \A j \in 1 .. Len(waiting'[r]) : \E k \in 1 .. Len(waiting[r]) :
       waiting'[r][j] = waiting[r][k] /\ waiting[r][k] # w
  /\ \A r \in Pid : \A j, k \in 1 .. Len(waiting'[r]) :
       waiting'[r][j] = waiting'[r][k] => j = k
  /\ \A r \in Pid : \A k \in 1 .. Len(waiting[r]) : waiting[r][k] # w =>
       \E j \in 1 .. Len(waiting'[r]) : waiting'[r][j] = waiting[r][k]

(* Whoever is queued after the removal was queued before, and is not w.    *)
LEMMA UnlinkedFrom ==
  ASSUME NEW w, Unlinked(w), NEW q \in Pid, NEW j \in 1 .. Len(waiting'[q])
  PROVE  \E k \in 1 .. Len(waiting[q]) :
           waiting'[q][j] = waiting[q][k] /\ waiting[q][k] # w
BY ZenonT(60) DEF Unlinked

(* Taking a node out of q's queue removes one sender, who waits on q.      *)
LEMMA UnlinkFacts ==
  ASSUME TypeOK, QueueConsistent, NEW q \in Pid, waiting[q] # <<>>,
         NEW i \in 1 .. Len(waiting[q]), Unlink(q, i), NEW w, w = waiting[q][i]
  PROVE  /\ w \in Pid /\ state[w] = "send" /\ waiting_on[w] = q
         /\ label[q] # At("s_copy", w)
         /\ waiting' \in [Pid -> Seq(Pid)]
         /\ \A r \in Pid \ {q} : waiting'[r] = waiting[r]
         /\ Unlinked(w)
<1>1. /\ waiting[q] \in Seq(Pid)
      /\ waiting' = [waiting EXCEPT ![q] = RemoveAt(waiting[q], i)]
  BY DEF TypeOK, Unlink
<1>2. /\ waiting'[q] \in Seq(Pid)
      /\ Len(waiting'[q]) = Len(waiting[q]) - 1
      /\ \A j \in 1 .. Len(waiting[q]) - 1 :
           waiting'[q][j] = IF j < i THEN waiting[q][j] ELSE waiting[q][j + 1]
  <2>1. waiting'[q] = RemoveAt(waiting[q], i)
    BY <1>1 DEF TypeOK
  <2> QED
    BY <1>1, <2>1, RemoveAtFacts
<1>3. \A r \in Pid \ {q} : waiting'[r] = waiting[r]
  BY <1>1 DEF TypeOK
<1>4. /\ w \in Pid /\ state[w] = "send" /\ waiting_on[w] = q
      /\ label[q] # At("s_copy", w)
  BY <1>1 DEF QueueConsistent, QueuedAreSenders, InTransit
<1>5. \A r \in Pid : \A j, k \in 1 .. Len(waiting[r]) :
        waiting[r][j] = waiting[r][k] => j = k
  BY DEF QueueConsistent, QueuedAreSenders
<1>6. \A r \in Pid : \A j \in 1 .. Len(waiting[r]) :
        waiting[r][j] = w => r = q /\ j = i
  BY <1>4, <1>5 DEF QueueConsistent, QueuedAreSenders
<1>7. waiting' \in [Pid -> Seq(Pid)]
  BY <1>1, <1>2 DEF TypeOK
<1>8. ASSUME NEW r \in Pid
      PROVE  /\ \A j \in 1 .. Len(waiting'[r]) : \E k \in 1 .. Len(waiting[r]) :
                  waiting'[r][j] = waiting[r][k] /\ waiting[r][k] # w
             /\ \A j, k \in 1 .. Len(waiting'[r]) :
                  waiting'[r][j] = waiting'[r][k] => j = k
             /\ \A k \in 1 .. Len(waiting[r]) : waiting[r][k] # w =>
                  \E j \in 1 .. Len(waiting'[r]) : waiting'[r][j] = waiting[r][k]
  <2>1. CASE r # q
    BY <1>3, <1>5, <1>6, <2>1
  <2>2. CASE r = q
    <3>0. Len(waiting[q]) \in Nat
      BY <1>1
    <3>1. ASSUME NEW j \in 1 .. Len(waiting'[q])
          PROVE  LET k == IF j < i THEN j ELSE j + 1
                 IN  k \in 1 .. Len(waiting[q]) /\ k # i /\ waiting'[q][j] = waiting[q][k]
      <4>1. j \in 1 .. Len(waiting[q]) - 1
        BY <1>2, <3>1
      <4>2. waiting'[q][j] = IF j < i THEN waiting[q][j] ELSE waiting[q][j + 1]
        BY <1>2, <4>1
      <4>3. /\ j \in 1 .. Len(waiting[q]) /\ j + 1 \in 1 .. Len(waiting[q])
            /\ (j < i => j # i) /\ (~(j < i) => j + 1 # i)
        BY <3>0, <4>1
      <4> QED
        BY <4>2, <4>3
    <3>2. \A j \in 1 .. Len(waiting'[q]) : \E k \in 1 .. Len(waiting[q]) :
            waiting'[q][j] = waiting[q][k] /\ waiting[q][k] # w
      BY <1>6, <3>1
    <3>3. \A j, k \in 1 .. Len(waiting'[q]) : waiting'[q][j] = waiting'[q][k] => j = k
      BY <1>2, <1>5, <3>0, <3>1
    <3>4. ASSUME NEW k \in 1 .. Len(waiting[q]), waiting[q][k] # w
          PROVE  \E j \in 1 .. Len(waiting'[q]) : waiting'[q][j] = waiting[q][k]
      <4>1. k # i
        BY <3>4
      <4>2. CASE k < i
        <5>1. k \in 1 .. Len(waiting'[q]) /\ waiting'[q][k] = waiting[q][k]
          BY <1>2, <3>0, <4>2
        <5> QED
          BY <5>1
      <4>3. CASE k > i
        <5>1. k - 1 \in 1 .. Len(waiting'[q]) /\ waiting'[q][k - 1] = waiting[q][k]
          BY <1>2, <3>0, <4>3
        <5> QED
          BY <5>1
      <4> QED
        BY <3>0, <4>1, <4>2, <4>3
    <3> QED
      BY <2>2, <3>2, <3>3, <3>4
  <2> QED
    BY <2>1, <2>2
<1>9. Unlinked(w)
  BY <1>8 DEF Unlinked
<1> QED
  BY <1>3, <1>4, <1>7, <1>9

LEMMA TakeStep == IInv /\ krecv_take => IInv'
<1> SUFFICES ASSUME IInv, krecv_take PROVE IInv'
  OBVIOUS
<1> USE DEF IInv
<1> DEFINE i == Picked(waiting[up], label[up].arg)
           w == waiting[up][i]
<1>1. up \in Pid /\ state[up] = "oncpu" /\ label[up].at = "krecv"
  BY RunningFacts DEF krecv_take
<1>2. /\ waiting[up] # <<>> /\ Unlink(up, i)
      /\ m_in' = [m_in EXCEPT ![up] = m_out[w]]
      /\ state' = [state EXCEPT ![w] = "reply"]
      /\ label' = [label EXCEPT ![up] = User] /\ r0' = w
      /\ UNCHANGED <<waiting_on, m_out, m_ret, alive, nextpid, up>>
  BY DEF krecv_take, Return, Continue
<1>3. i \in 1 .. Len(waiting[up])
  BY <1>1, <1>2, PickedFacts DEF TypeOK
<1> HIDE DEF i
<1>4. /\ w \in Pid /\ state[w] = "send" /\ waiting_on[w] = up
      /\ label[up] # At("s_copy", w)
      /\ waiting' \in [Pid -> Seq(Pid)]
      /\ \A r \in Pid \ {up} : waiting'[r] = waiting[r]
      /\ Unlinked(w)
  <2> HIDE DEF w
  <2>1. w = waiting[up][i]
    BY DEF w
  <2> QED
    BY <1>1, <1>2, <1>3, <2>1, UnlinkFacts
<1> HIDE DEF w
<1>5. /\ \A p \in Pid : state'[p] = IF p = w THEN "reply" ELSE state[p]
      /\ \A p \in Pid : label'[p] = IF p = up THEN User ELSE label[p]
  BY <1>2 DEF TypeOK
<1>6. TypeOK'
  BY <1>1, <1>2, <1>4 DEF TypeOK, State, User, At, Points
<1>7. CpuOwnership' /\ AliveInOrder' /\ IdleOnlyWhenStuck'
  BY <1>1, <1>2, <1>4, <1>5 DEF CpuOwnership, AliveInOrder, IdleOnlyWhenStuck
<1>8. QueueConsistent'
  <2>1. QueuedAreSenders'
    <3> SUFFICES ASSUME NEW q \in Pid, NEW j \in 1 .. Len(waiting'[q])
                 PROVE  /\ state'[waiting'[q][j]] = "send"
                        /\ waiting_on[waiting'[q][j]] = q
                        /\ label'[q] # At("s_copy", waiting'[q][j])
      BY <1>2, <1>4 DEF QueuedAreSenders, InTransit, Unlinked
    <3>1. PICK k \in 1 .. Len(waiting[q]) :
            waiting'[q][j] = waiting[q][k] /\ waiting[q][k] # w
      BY <1>4, UnlinkedFrom
    <3>2. waiting[q][k] \in Pid
      BY DEF TypeOK
    <3>3. /\ state[waiting[q][k]] = "send" /\ waiting_on[waiting[q][k]] = q
          /\ label[q] # At("s_copy", waiting[q][k])
      BY DEF QueueConsistent, QueuedAreSenders, InTransit
    <3> QED
      BY <1>5, <3>1, <3>2, <3>3, AtFacts DEF User
  <2>2. SendersAreQueued'
    <3> SUFFICES ASSUME NEW c \in Pid, state'[c] = "send"
                 PROVE  /\ waiting_on[c] \in Pid
                        /\ \/ label'[waiting_on[c]] = At("s_copy", c)
                           \/ \E j \in 1 .. Len(waiting'[waiting_on[c]]) :
                                waiting'[waiting_on[c]][j] = c
      BY <1>2 DEF SendersAreQueued, InTransit
    <3>1. /\ c # w /\ state[c] = "send" /\ waiting_on[c] \in Pid
          /\ \/ label[waiting_on[c]] = At("s_copy", c)
             \/ \E k \in 1 .. Len(waiting[waiting_on[c]]) : waiting[waiting_on[c]][k] = c
      BY <1>5 DEF QueueConsistent, SendersAreQueued, InTransit
    <3>2. label[up] # At("s_copy", c)
      BY <1>1, AtFacts
    <3>3. CASE label[waiting_on[c]] = At("s_copy", c)
      BY <1>5, <3>1, <3>2, <3>3
    <3>4. CASE \E k \in 1 .. Len(waiting[waiting_on[c]]) : waiting[waiting_on[c]][k] = c
      <4>1. PICK k \in 1 .. Len(waiting[waiting_on[c]]) : waiting[waiting_on[c]][k] = c
        BY <3>4
      <4>2. \A r \in Pid : \A m \in 1 .. Len(waiting[r]) : waiting[r][m] # w =>
              \E j \in 1 .. Len(waiting'[r]) : waiting'[r][j] = waiting[r][m]
        BY <1>4 DEF Unlinked
      <4>3. \E j \in 1 .. Len(waiting'[waiting_on[c]]) :
              waiting'[waiting_on[c]][j] = waiting[waiting_on[c]][k]
        BY <3>1, <4>1, <4>2
      <4> QED
        BY <3>1, <4>1, <4>3
    <3> QED
      BY <3>1, <3>3, <3>4
  <2>3. NobodyAwaitsDead'
    <3> SUFFICES ASSUME NEW q \in Pid, state'[q] = "dead" PROVE waiting'[q] = <<>>
      BY DEF NobodyAwaitsDead
    <3>1. q # up /\ state[q] = "dead"
      BY <1>1, <1>5
    <3> QED
      BY <1>4, <3>1 DEF QueueConsistent, NobodyAwaitsDead
  <2> QED
    BY <2>1, <2>2, <2>3 DEF QueueConsistent
<1>9. ResumePoints'
  <2>1. ASSUME NEW p \in Pid, NEW c \in Pid
        PROVE  /\ label'[p] = At("s_copy", c) => state'[c] = "send" /\ waiting_on'[c] = p
               /\ label'[p] = At("s_reply", c) => AwaitsReplyFrom(c, p)'
    BY <1>2, <1>4, <1>5, AtFacts DEF ResumePoints, AwaitsReplyFrom, User
  <2>2. ASSUME NEW p \in Pid
        PROVE  /\ state'[p] \in {"send", "reply"} => label'[p].at = "ksend"
               /\ state'[p] = "recv" => label'[p].at \in {"krecv", "s_recv", "s_sched"}
               /\ state'[p] = "ready" => label'[p].at \in {"user", "kreply"} \cup StartPoints
               /\ state'[p] = "dead" => label'[p] = At("s_recv", PID_ALL)
               /\ label'[p].at \in {"s_copy", "s_reply"} => label'[p].arg \in Pid
    <3>1. CASE p = up
      <4>1. state'[p] = "oncpu" /\ label'[p].at = "user"
        BY <1>1, <1>4, <1>5, <3>1 DEF User, At
      <4> QED
        BY <4>1
    <3>2. CASE p # up
      BY <1>4, <1>5, <3>2, SMTT(30) DEF ResumePoints
    <3> QED
      BY <3>1, <3>2
  <2> QED
    BY <2>1, <2>2 DEF ResumePoints
<1>10. ReplyOwed'
  BY <1>1, <1>2, <1>4, <1>5 DEF ReplyOwed
<1> QED
  BY <1>6, <1>7, <1>8, <1>9, <1>10

LEMMA StartRecvStep == IInv /\ start_recv => IInv'
<1> SUFFICES ASSUME IInv, start_recv PROVE IInv'
  OBVIOUS
<1> USE DEF IInv
<1> DEFINE i == Picked(waiting[up], PID_ALL)
           w == waiting[up][i]
<1>1. up \in Pid /\ state[up] = "oncpu" /\ label[up].at = "s_recv"
  BY RunningFacts DEF start_recv
<1>2. UNCHANGED <<state, waiting_on, m_in, m_out, m_ret, r0, alive, nextpid, up>>
  BY DEF start_recv, page
<1>3. CASE waiting[up] = <<>>
  <2>1. waiting' = waiting /\ label' = [label EXCEPT ![up] = At("s_block", PID_ALL)]
    BY <1>3 DEF start_recv, Continue
  <2>2. TypeOK'
    BY <1>1, <1>2, <2>1 DEF TypeOK, At, Points, StartPoints
  <2>3. At("s_block", PID_ALL).at \notin {"s_copy", "s_reply"}
    BY DEF At
  <2>4. /\ CpuOwnership' /\ AliveInOrder' /\ QueueConsistent'
        /\ ResumePoints' /\ ReplyOwed' /\ IdleOnlyWhenStuck'
    BY <1>1, <1>2, <2>1, <2>3, QuietKeeps
  <2> QED
    BY <2>2, <2>4
<1>4. CASE waiting[up] # <<>>
  <2>1. Unlink(up, i) /\ label' = [label EXCEPT ![up] = At("s_copy", w)]
    BY <1>4 DEF start_recv, Continue
  <2>2. i \in 1 .. Len(waiting[up])
    BY <1>1, <1>4, PickedFacts DEF TypeOK
  <2> HIDE DEF i, w
  <2>3. w = waiting[up][i]
    BY DEF w
  <2>4. /\ w \in Pid /\ state[w] = "send" /\ waiting_on[w] = up
        /\ waiting' \in [Pid -> Seq(Pid)]
        /\ \A r \in Pid \ {up} : waiting'[r] = waiting[r]
        /\ Unlinked(w)
    BY <1>1, <1>4, <2>1, <2>2, <2>3, UnlinkFacts
  <2>5. \A p \in Pid : label'[p] = IF p = up THEN At("s_copy", w) ELSE label[p]
    BY <2>1 DEF TypeOK
  <2>6. TypeOK'
    BY <1>1, <1>2, <2>1, <2>4 DEF TypeOK, At, Points, StartPoints
  <2>7. CpuOwnership' /\ AliveInOrder' /\ IdleOnlyWhenStuck'
    BY <1>1, <1>2, <2>5 DEF CpuOwnership, AliveInOrder, IdleOnlyWhenStuck
  <2>8. QueuedAreSenders'
    <3> SUFFICES ASSUME NEW q \in Pid, NEW j \in 1 .. Len(waiting'[q])
                 PROVE  /\ state[waiting'[q][j]] = "send"
                        /\ waiting_on[waiting'[q][j]] = q
                        /\ label'[q] # At("s_copy", waiting'[q][j])
      BY <1>2, <2>4 DEF QueuedAreSenders, InTransit, Unlinked
    <3>1. PICK k \in 1 .. Len(waiting[q]) :
            waiting'[q][j] = waiting[q][k] /\ waiting[q][k] # w
      BY <2>4, UnlinkedFrom
    <3>2. /\ state[waiting[q][k]] = "send" /\ waiting_on[waiting[q][k]] = q
          /\ label[q] # At("s_copy", waiting[q][k])
      BY DEF QueueConsistent, QueuedAreSenders, InTransit
    <3> QED
      BY <2>5, <3>1, <3>2, AtFacts
  <2>9. SendersAreQueued'
    <3> SUFFICES ASSUME NEW c \in Pid, state[c] = "send"
                 PROVE  /\ waiting_on[c] \in Pid
                        /\ \/ label'[waiting_on[c]] = At("s_copy", c)
                           \/ \E j \in 1 .. Len(waiting'[waiting_on[c]]) :
                                waiting'[waiting_on[c]][j] = c
      BY <1>2 DEF SendersAreQueued, InTransit
    <3>1. /\ waiting_on[c] \in Pid
          /\ \/ label[waiting_on[c]] = At("s_copy", c)
             \/ \E k \in 1 .. Len(waiting[waiting_on[c]]) : waiting[waiting_on[c]][k] = c
      BY DEF QueueConsistent, SendersAreQueued, InTransit
    <3>2. CASE c = w
      BY <1>1, <2>4, <2>5, <3>2
    <3>3. CASE label[waiting_on[c]] = At("s_copy", c)
      BY <1>1, <2>5, <3>1, <3>3, AtFacts
    <3>4. CASE c # w /\ \E k \in 1 .. Len(waiting[waiting_on[c]]) : waiting[waiting_on[c]][k] = c
      <4>1. PICK k \in 1 .. Len(waiting[waiting_on[c]]) : waiting[waiting_on[c]][k] = c
        BY <3>4
      <4>2. \A r \in Pid : \A m \in 1 .. Len(waiting[r]) : waiting[r][m] # w =>
              \E j \in 1 .. Len(waiting'[r]) : waiting'[r][j] = waiting[r][m]
        BY <2>4 DEF Unlinked
      <4>3. \E j \in 1 .. Len(waiting'[waiting_on[c]]) :
              waiting'[waiting_on[c]][j] = waiting[waiting_on[c]][k]
        BY <3>1, <3>4, <4>1, <4>2
      <4> QED
        BY <3>1, <4>1, <4>3
    <3> QED
      BY <3>1, <3>2, <3>3, <3>4
  <2>10. NobodyAwaitsDead'
    BY <1>1, <1>2, <2>4 DEF QueueConsistent, NobodyAwaitsDead
  <2>11. ResumePoints'
    <3>1. ASSUME NEW p \in Pid, NEW c \in Pid
          PROVE  /\ label'[p] = At("s_copy", c) => state[c] = "send" /\ waiting_on[c] = p
                 /\ label'[p] = At("s_reply", c) => AwaitsReplyFrom(c, p)
      BY <2>4, <2>5, AtFacts DEF ResumePoints
    <3>2. ASSUME NEW p \in Pid
          PROVE  /\ state[p] \in {"send", "reply"} => label'[p].at = "ksend"
                 /\ state[p] = "recv" => label'[p].at \in {"krecv", "s_recv", "s_sched"}
                 /\ state[p] = "ready" => label'[p].at \in {"user", "kreply"} \cup StartPoints
                 /\ state[p] = "dead" => label'[p] = At("s_recv", PID_ALL)
                 /\ label'[p].at \in {"s_copy", "s_reply"} => label'[p].arg \in Pid
      <4>1. CASE p = up
        BY <1>1, <2>4, <2>5, <4>1 DEF At
      <4>2. CASE p # up
        BY <2>5, <4>2 DEF ResumePoints
      <4> QED
        BY <4>1, <4>2
    <3> QED
      BY <1>2, <3>1, <3>2 DEF ResumePoints, AwaitsReplyFrom
  <2>12. ReplyOwed'
    BY <1>2 DEF ReplyOwed
  <2> QED
    BY <2>6, <2>7, <2>8, <2>9, <2>10, <2>11, <2>12 DEF QueueConsistent
<1> QED
  BY <1>3, <1>4

LEMMA StartBlockStep == IInv /\ start_block => IInv'
<1> SUFFICES ASSUME IInv, start_block PROVE IInv'
  OBVIOUS
<1> USE DEF IInv
<1>1. up \in Pid /\ state[up] = "oncpu" /\ label[up].at = "s_block"
  BY RunningFacts DEF start_block
<1>2. /\ state' = [state EXCEPT ![up] = "recv"]
      /\ label' = [label EXCEPT ![up] = At("s_sched", PID_ALL)]
      /\ UNCHANGED <<waiting_on, waiting, m_in, m_out, m_ret, r0, alive, nextpid, up>>
  BY DEF start_block, Continue, page
<1>3. \A p \in Pid : /\ state'[p] = IF p = up THEN "recv" ELSE state[p]
                     /\ label'[p] = IF p = up THEN At("s_sched", PID_ALL) ELSE label[p]
  BY <1>2 DEF TypeOK
<1>4. TypeOK'
  BY <1>1, <1>2 DEF TypeOK, State, At, Points, StartPoints
<1>5. CpuOwnership'
  BY <1>2, <1>3, AtFacts DEF CpuOwnership
<1>6. AliveInOrder' /\ IdleOnlyWhenStuck'
  BY <1>1, <1>2, <1>3 DEF AliveInOrder, IdleOnlyWhenStuck
<1>7. QueueConsistent'
  <2>1. \A p, q \in Pid : InTransit(p, q)' <=> InTransit(p, q)
    BY <1>1, <1>3, AtFacts DEF InTransit
  <2>2. \A p \in Pid : /\ state'[p] = "send" <=> state[p] = "send"
                       /\ state'[p] = "dead" => state[p] = "dead"
                       /\ state[p] = "send" => waiting_on'[p] = waiting_on[p]
    BY <1>1, <1>2, <1>3
  <2> QED
    BY <1>2, <2>1, <2>2, QueuesKept
<1>8. ResumePoints'
  <2>1. ASSUME NEW p \in Pid, NEW c \in Pid
        PROVE  /\ label'[p] = At("s_copy", c) => state'[c] = "send" /\ waiting_on[c] = p
               /\ label'[p] = At("s_reply", c) => state'[c] = "reply" /\ waiting_on[c] = p
    BY <1>1, <1>3, AtFacts DEF ResumePoints, AwaitsReplyFrom
  <2>2. ASSUME NEW p \in Pid
        PROVE  /\ state'[p] \in {"send", "reply"} => label'[p].at = "ksend"
               /\ state'[p] = "recv" => label'[p].at \in {"krecv", "s_recv", "s_sched"}
               /\ state'[p] = "ready" => label'[p].at \in {"user", "kreply"} \cup StartPoints
               /\ state'[p] = "dead" => label'[p] = At("s_recv", PID_ALL)
               /\ label'[p].at \in {"s_copy", "s_reply"} => label'[p].arg \in Pid
    <3>1. CASE p = up
      BY <1>1, <1>3, <3>1 DEF At
    <3>2. CASE p # up
      BY <1>3, <3>2 DEF ResumePoints
    <3> QED
      BY <3>1, <3>2
  <2> QED
    BY <1>2, <2>1, <2>2 DEF ResumePoints, AwaitsReplyFrom
<1>9. ReplyOwed'
  BY <1>2, <1>3 DEF ReplyOwed
<1> QED
  BY <1>4, <1>5, <1>6, <1>7, <1>8, <1>9

LEMMA StartCopyStep == IInv /\ start_copy => IInv'
<1> SUFFICES ASSUME IInv, start_copy PROVE IInv'
  OBVIOUS
<1> USE DEF IInv
<1> DEFINE w == label[up].arg
<1>1. up \in Pid /\ state[up] = "oncpu" /\ label[up].at = "s_copy"
  BY RunningFacts DEF start_copy
<1>2. /\ m_in' = [m_in EXCEPT ![up] = m_out[w]]
      /\ state' = [state EXCEPT ![w] = "reply"]
      /\ label' = [label EXCEPT ![up] = At("s_reply", w)]
      /\ UNCHANGED <<waiting_on, waiting, m_out, m_ret, r0, alive, nextpid, up>>
  BY DEF start_copy, Continue
<1>3. w \in Pid /\ label[up] = At("s_copy", w)
  BY <1>1 DEF ResumePoints, TypeOK, At
<1>4. state[w] = "send" /\ waiting_on[w] = up
  BY <1>1, <1>3 DEF ResumePoints
<1> HIDE DEF w
<1>5. \A p \in Pid : /\ state'[p] = IF p = w THEN "reply" ELSE state[p]
                     /\ label'[p] = IF p = up THEN At("s_reply", w) ELSE label[p]
  BY <1>2 DEF TypeOK
<1>6. TypeOK'
  BY <1>1, <1>2, <1>3 DEF TypeOK, State, At, Points, StartPoints
<1>7. CpuOwnership' /\ AliveInOrder' /\ IdleOnlyWhenStuck'
  BY <1>1, <1>2, <1>4, <1>5 DEF CpuOwnership, AliveInOrder, IdleOnlyWhenStuck
<1>8. QueueConsistent'
  <2>1. QueuedAreSenders'
    <3> SUFFICES ASSUME NEW q \in Pid, NEW j \in 1 .. Len(waiting[q])
                 PROVE  /\ state'[waiting[q][j]] = "send"
                        /\ waiting_on[waiting[q][j]] = q
                        /\ label'[q] # At("s_copy", waiting[q][j])
                        /\ \A k \in 1 .. Len(waiting[q]) :
                             waiting[q][k] = waiting[q][j] => j = k
      BY <1>2 DEF QueuedAreSenders, InTransit
    <3>1. /\ waiting[q][j] \in Pid
          /\ state[waiting[q][j]] = "send" /\ waiting_on[waiting[q][j]] = q
          /\ label[q] # At("s_copy", waiting[q][j])
          /\ \A k \in 1 .. Len(waiting[q]) : waiting[q][k] = waiting[q][j] => j = k
      BY DEF QueueConsistent, QueuedAreSenders, InTransit, TypeOK
    <3>2. waiting[q][j] # w
      BY <1>3, <1>4, <3>1
    <3> QED
      BY <1>5, <3>1, <3>2, AtFacts
  <2>2. SendersAreQueued'
    <3> SUFFICES ASSUME NEW c \in Pid, state'[c] = "send"
                 PROVE  /\ waiting_on[c] \in Pid
                        /\ \/ label'[waiting_on[c]] = At("s_copy", c)
                           \/ \E j \in 1 .. Len(waiting[waiting_on[c]]) :
                                waiting[waiting_on[c]][j] = c
      BY <1>2 DEF SendersAreQueued, InTransit
    <3>1. /\ c # w /\ state[c] = "send" /\ waiting_on[c] \in Pid
          /\ \/ label[waiting_on[c]] = At("s_copy", c)
             \/ \E k \in 1 .. Len(waiting[waiting_on[c]]) : waiting[waiting_on[c]][k] = c
      BY <1>5 DEF QueueConsistent, SendersAreQueued, InTransit
    <3>2. label[up] # At("s_copy", c)
      BY <1>3, <3>1, AtFacts
    <3> QED
      BY <1>5, <3>1, <3>2
  <2>3. NobodyAwaitsDead'
    BY <1>2, <1>5 DEF QueueConsistent, NobodyAwaitsDead
  <2> QED
    BY <2>1, <2>2, <2>3 DEF QueueConsistent
<1>9. ResumePoints'
  <2>1. ASSUME NEW p \in Pid, NEW c \in Pid
        PROVE  /\ label'[p] = At("s_copy", c) => state'[c] = "send" /\ waiting_on[c] = p
               /\ label'[p] = At("s_reply", c) => state'[c] = "reply" /\ waiting_on[c] = p
    <3>1. CASE p = up
      BY <1>3, <1>4, <1>5, <3>1, AtFacts
    <3>2. CASE p # up
      BY <1>3, <1>4, <1>5, <3>2 DEF ResumePoints, AwaitsReplyFrom
    <3> QED
      BY <3>1, <3>2
  <2>2. ASSUME NEW p \in Pid
        PROVE  /\ state'[p] \in {"send", "reply"} => label'[p].at = "ksend"
               /\ state'[p] = "recv" => label'[p].at \in {"krecv", "s_recv", "s_sched"}
               /\ state'[p] = "ready" => label'[p].at \in {"user", "kreply"} \cup StartPoints
               /\ state'[p] = "dead" => label'[p] = At("s_recv", PID_ALL)
               /\ label'[p].at \in {"s_copy", "s_reply"} => label'[p].arg \in Pid
    <3>1. CASE p = up
      BY <1>1, <1>3, <1>4, <1>5, <3>1 DEF At
    <3>2. CASE p # up
      BY <1>4, <1>5, <3>2 DEF ResumePoints
    <3> QED
      BY <3>1, <3>2
  <2> QED
    BY <1>2, <2>1, <2>2 DEF ResumePoints, AwaitsReplyFrom
<1>10. ReplyOwed'
  BY <1>1, <1>2, <1>4, <1>5 DEF ReplyOwed
<1> QED
  BY <1>6, <1>7, <1>8, <1>9, <1>10

(* A call of schedule by a process that blocks in PROC_recv or stays       *)
(* runnable, to the next ready process or to a caller it has answered.     *)
LEMMA HandoverKeeps ==
  ASSUME IInv, up \in Pid, label[up].at # "s_copy",
         NEW s \in {"oncpu", "recv"}, NEW n \in Proc, NEW l,
         Schedule([state EXCEPT ![up] = s], n),
         n # nil => n \in Pid \ {up} /\ AwaitsReplyFrom(n, up),
         label' = [label EXCEPT ![up] = l],
         l.at \notin {"s_copy", "s_reply"},
         s = "recv"  => l.at \in {"krecv", "s_recv", "s_sched"},
         s = "oncpu" => l.at \in {"user", "kreply"} \cup StartPoints,
         state[up] \in {"oncpu", "recv"},
         UNCHANGED <<waiting_on, waiting, alive, nextpid>>
  PROVE  /\ state' \in [Pid -> State] /\ up' \in Proc
         /\ CpuOwnership' /\ AliveInOrder' /\ QueueConsistent'
         /\ ResumePoints' /\ ReplyOwed' /\ IdleOnlyWhenStuck'
<1> USE DEF IInv
<1> DEFINE st == [state EXCEPT ![up] = s]
<1>1. nil \notin Pid
  BY KernAssumption DEF Pid
<1>2. /\ st \in [Pid -> State]
      /\ \A p \in Pid : st[p] = IF p = up THEN s ELSE state[p]
  BY DEF TypeOK, State
<1>3. Schedule(st, n)
  OBVIOUS
<1> HIDE DEF st
<1>4. \A p \in Pid : st[p] = "oncpu" => p = up
  BY <1>2 DEF CpuOwnership
<1>5. Switched(st, n)
  BY <1>2, <1>3, <1>4, ScheduleFacts
<1>6. /\ \A p \in Pid : st[p] = "dead" <=> state[p] = "dead"
      /\ n # nil => st[n] # "dead"
  BY <1>2 DEF AwaitsReplyFrom
<1>7. CpuOwnership' /\ AliveInOrder' /\ IdleOnlyWhenStuck'
  BY <1>2, <1>5, <1>6, SwitchKeepsOwnership
<1>8. \A p \in Pid :
        /\ state'[p] = "send" <=> state[p] = "send"
        /\ state'[p] = "dead" <=> state[p] = "dead"
        /\ state'[p] = "reply" <=> state[p] = "reply" /\ p # n
        /\ state'[p] = "recv" => IF p = up THEN s = "recv" ELSE state[p] = "recv"
        /\ state'[p] = "ready" => IF p = up THEN s = "oncpu" ELSE state[p] = "ready"
  BY <1>1, <1>2, <1>5 DEF Switched, Proc, AwaitsReplyFrom
<1>9. \A p \in Pid : label'[p] = IF p = up THEN l ELSE label[p]
  BY DEF TypeOK
<1>10. QueueConsistent'
  <2>1. \A p, q \in Pid : InTransit(p, q)' <=> InTransit(p, q)
    BY <1>9, AtFacts DEF InTransit
  <2>2. \A p \in Pid : /\ state'[p] = "send" <=> state[p] = "send"
                       /\ state'[p] = "dead" => state[p] = "dead"
                       /\ state[p] = "send" => waiting_on'[p] = waiting_on[p]
    BY <1>8
  <2> QED
    BY <2>1, <2>2, QueuesKept
<1>11. ResumePoints'
  <2>1. ASSUME NEW p \in Pid, NEW c \in Pid
        PROVE  /\ label'[p] = At("s_copy", c) => state'[c] = "send" /\ waiting_on[c] = p
               /\ label'[p] = At("s_reply", c) => state'[c] = "reply" /\ waiting_on[c] = p
    <3>1. CASE p = up
      BY <1>9, <3>1, AtFacts
    <3>2. CASE p # up
      BY <1>1, <1>8, <1>9, <3>2 DEF ResumePoints, AwaitsReplyFrom
    <3> QED
      BY <3>1, <3>2
  <2>2. ASSUME NEW p \in Pid
        PROVE  /\ state'[p] \in {"send", "reply"} => label'[p].at = "ksend"
               /\ state'[p] = "recv" => label'[p].at \in {"krecv", "s_recv", "s_sched"}
               /\ state'[p] = "ready" => label'[p].at \in {"user", "kreply"} \cup StartPoints
               /\ state'[p] = "dead" => label'[p] = At("s_recv", PID_ALL)
               /\ label'[p].at \in {"s_copy", "s_reply"} => label'[p].arg \in Pid
    <3>1. CASE p = up
      BY <1>8, <1>9, <3>1
    <3>2. CASE p # up
      BY <1>8, <1>9, <3>2 DEF ResumePoints
    <3> QED
      BY <3>1, <3>2
  <2> QED
    BY <2>1, <2>2 DEF ResumePoints, AwaitsReplyFrom
<1>12. ReplyOwed'
  BY <1>8 DEF ReplyOwed
<1> QED
  BY <1>5, <1>7, <1>10, <1>11, <1>12 DEF Switched

LEMMA RecvBlockStep == IInv /\ krecv_block => IInv'
<1> SUFFICES ASSUME IInv, krecv_block PROVE IInv'
  OBVIOUS
<1> USE DEF IInv
<1>1. up \in Pid /\ state[up] = "oncpu" /\ label[up].at = "krecv"
  BY RunningFacts DEF krecv_block
<1>2. /\ Schedule([state EXCEPT ![up] = "recv"], nil)
      /\ label' = [label EXCEPT ![up] = label[up]]
      /\ UNCHANGED <<waiting_on, waiting, label, m_in, m_out, m_ret, r0, alive, nextpid>>
  BY DEF krecv_block, TypeOK, page
<1>3. nil \in Proc
  BY DEF Proc
<1>4. /\ state' \in [Pid -> State] /\ up' \in Proc
      /\ CpuOwnership' /\ AliveInOrder' /\ QueueConsistent'
      /\ ResumePoints' /\ ReplyOwed' /\ IdleOnlyWhenStuck'
  BY <1>1, <1>2, <1>3, HandoverKeeps
<1>5. TypeOK'
  BY <1>2, <1>4 DEF TypeOK
<1> QED
  BY <1>4, <1>5

LEMMA StartSchedStep == IInv /\ start_sched => IInv'
<1> SUFFICES ASSUME IInv, start_sched PROVE IInv'
  OBVIOUS
<1> USE DEF IInv
<1>1. up \in Pid /\ state[up] \in {"oncpu", "recv"} /\ label[up].at = "s_sched"
  BY RunningFacts DEF start_sched
<1>2. /\ Schedule([state EXCEPT ![up] = state[up]], nil)
      /\ label' = [label EXCEPT ![up] = At("s_recv", PID_ALL)]
      /\ UNCHANGED <<waiting_on, waiting, m_in, m_out, m_ret, r0, alive, nextpid>>
  <2>1. [state EXCEPT ![up] = state[up]] = state
    BY <1>1 DEF TypeOK
  <2> QED
    BY <2>1 DEF start_sched, Continue, page
<1>3. nil \in Proc /\ At("s_recv", PID_ALL).at = "s_recv" /\ "s_recv" \in StartPoints
  BY DEF Proc, At, StartPoints
<1>4. /\ state' \in [Pid -> State] /\ up' \in Proc
      /\ CpuOwnership' /\ AliveInOrder' /\ QueueConsistent'
      /\ ResumePoints' /\ ReplyOwed' /\ IdleOnlyWhenStuck'
  BY <1>1, <1>2, <1>3, HandoverKeeps
<1>5. TypeOK'
  BY <1>1, <1>2, <1>4 DEF TypeOK, At, Points, StartPoints
<1> QED
  BY <1>4, <1>5

LEMMA StartReplyStep == IInv /\ start_reply => IInv'
<1> SUFFICES ASSUME IInv, start_reply PROVE IInv'
  OBVIOUS
<1> USE DEF IInv
<1> DEFINE w == label[up].arg
<1>1. up \in Pid /\ state[up] = "oncpu" /\ label[up].at = "s_reply"
  BY RunningFacts DEF start_reply
<1>2. w \in Pid /\ AwaitsReplyFrom(w, up) /\ w # up
  <2>1. w \in Pid /\ label[up] = At("s_reply", w)
    BY <1>1 DEF ResumePoints, TypeOK, At
  <2> QED
    BY <1>1, <2>1 DEF ResumePoints, AwaitsReplyFrom
<1> HIDE DEF w
<1>3. /\ Schedule([state EXCEPT ![up] = "oncpu"], w)
      /\ Deliver(w, m_out[up], OK)
      /\ label' = [label EXCEPT ![up] = At("s_drop", PID_ALL)]
      /\ UNCHANGED <<waiting_on, waiting, r0, alive, nextpid>>
  <2>1. [state EXCEPT ![up] = "oncpu"] = state
    BY <1>1 DEF TypeOK
  <2> QED
    BY <1>2, <2>1 DEF start_reply, Continue, w
<1>4. w \in Proc /\ At("s_drop", PID_ALL).at = "s_drop" /\ "s_drop" \in StartPoints
  BY <1>2 DEF Proc, At, StartPoints
<1>5. /\ state' \in [Pid -> State] /\ up' \in Proc
      /\ CpuOwnership' /\ AliveInOrder' /\ QueueConsistent'
      /\ ResumePoints' /\ ReplyOwed' /\ IdleOnlyWhenStuck'
  BY <1>1, <1>2, <1>3, <1>4, HandoverKeeps
<1>6. TypeOK'
  BY <1>1, <1>2, <1>3, <1>5, KernAssumption DEF TypeOK, Deliver, At, Points, StartPoints
<1> QED
  BY <1>5, <1>6

LEMMA ReplyStep ==
  \A p \in Pid, m \in Msg, ret \in Ret : IInv /\ sys_reply(p, m, ret) => IInv'
<1> SUFFICES ASSUME NEW p \in Pid, NEW m \in Msg, NEW ret \in Ret,
                    IInv, sys_reply(p, m, ret)
             PROVE  IInv'
  OBVIOUS
<1> USE DEF IInv
<1>1. up \in Pid /\ state[up] = "oncpu" /\ label[up].at = "user"
  BY RunningFacts DEF sys_reply, Enter
<1>2. AwaitsReplyFrom(p, up) /\ p # up /\ p \in Proc
  BY <1>1 DEF sys_reply, AwaitsReplyFrom, Proc
<1>3. /\ Schedule([state EXCEPT ![up] = "oncpu"], p)
      /\ Deliver(p, m, ret)
      /\ label' = [label EXCEPT ![up] = At("kreply", PID_ALL)]
      /\ UNCHANGED <<waiting_on, waiting, r0, alive, nextpid>>
  <2>1. [state EXCEPT ![up] = "oncpu"] = state
    BY <1>1 DEF TypeOK
  <2> QED
    BY <2>1 DEF sys_reply, Continue
<1>4. At("kreply", PID_ALL).at = "kreply"
  BY DEF At
<1>5. /\ state' \in [Pid -> State] /\ up' \in Proc
      /\ CpuOwnership' /\ AliveInOrder' /\ QueueConsistent'
      /\ ResumePoints' /\ ReplyOwed' /\ IdleOnlyWhenStuck'
  BY <1>1, <1>2, <1>3, <1>4, HandoverKeeps
<1>6. TypeOK'
  BY <1>1, <1>2, <1>3, <1>5 DEF TypeOK, Deliver, At, Points
<1> QED
  BY <1>5, <1>6

LEMMA ReplyRecvStep ==
  \A p \in Pid, m \in Msg, ret \in Ret, rpid \in Pid \cup {PID_ALL} :
    IInv /\ sys_reply_recv(p, m, ret, rpid) => IInv'
<1> SUFFICES ASSUME NEW p \in Pid, NEW m \in Msg, NEW ret \in Ret,
                    NEW rpid \in Pid \cup {PID_ALL},
                    IInv, sys_reply_recv(p, m, ret, rpid)
             PROVE  IInv'
  OBVIOUS
<1> USE DEF IInv
<1>1. up \in Pid /\ state[up] = "oncpu" /\ label[up].at = "user"
  BY RunningFacts DEF sys_reply_recv, Enter
<1>2. AwaitsReplyFrom(p, up) /\ p # up /\ p \in Proc
  BY <1>1 DEF sys_reply_recv, AwaitsReplyFrom, Proc
<1>3. /\ Schedule([state EXCEPT ![up] = "recv"], p)
      /\ Deliver(p, m, ret)
      /\ label' = [label EXCEPT ![up] = At("krecv", rpid)]
      /\ UNCHANGED <<waiting_on, waiting, r0, alive, nextpid>>
  BY DEF sys_reply_recv, Continue
<1>4. At("krecv", rpid).at = "krecv"
  BY DEF At
<1>5. /\ state' \in [Pid -> State] /\ up' \in Proc
      /\ CpuOwnership' /\ AliveInOrder' /\ QueueConsistent'
      /\ ResumePoints' /\ ReplyOwed' /\ IdleOnlyWhenStuck'
  BY <1>1, <1>2, <1>3, <1>4, HandoverKeeps
<1>6. TypeOK'
  BY <1>1, <1>2, <1>3, <1>5 DEF TypeOK, Deliver, At, Points
<1> QED
  BY <1>5, <1>6

LEMMA ProcCreateStep == IInv /\ sys_proc_create => IInv'
<1> SUFFICES ASSUME IInv, sys_proc_create PROVE IInv'
  OBVIOUS
<1> USE DEF IInv
<1>1. up \in Pid /\ state[up] = "oncpu" /\ label[up].at = "user"
  BY RunningFacts DEF sys_proc_create, Enter
<1>2. /\ Len(alive) \in Nat /\ Len(alive) < MAX_PROCS
      /\ nextpid = Len(alive) /\ nextpid \in Pid
  <2>1. Len(alive) \in Nat /\ Len(alive) < MAX_PROCS
    BY KernAssumption DEF sys_proc_create, TypeOK
  <2>2. Len(alive) % MAX_PROCS = Len(alive)
    BY <2>1, KernAssumption
  <2> QED
    BY <2>1, <2>2 DEF AliveInOrder, TypeOK
<1>3. /\ state[nextpid] = "dead" /\ nextpid # up
      /\ label[nextpid] = At("s_recv", PID_ALL) /\ waiting[nextpid] = <<>>
  BY <1>1, <1>2, KernAssumption
     DEF AliveInOrder, ResumePoints, QueueConsistent, NobodyAwaitsDead, Pid
<1>4. /\ alive' = Append(alive, nextpid) /\ nextpid' = NextSlot
      /\ state' = [state EXCEPT ![nextpid] = "ready"]
      /\ waiting_on' = [waiting_on EXCEPT ![nextpid] = nil]
      /\ waiting' = [waiting EXCEPT ![nextpid] = <<>>]
      /\ m_in' = [m_in EXCEPT ![nextpid] = ZeroMsg]
      /\ m_out' = [m_out EXCEPT ![nextpid] = ZeroMsg]
      /\ m_ret' = [m_ret EXCEPT ![nextpid] = OK]
      /\ label' = [label EXCEPT ![nextpid] = At("s_recv", PID_ALL), ![up] = User]
      /\ r0' = nextpid /\ up' = up
  BY DEF sys_proc_create
<1>5. waiting' = waiting
  BY <1>3, <1>4 DEF TypeOK
<1>6. \A p \in Pid :
        /\ state'[p] = IF p = nextpid THEN "ready" ELSE state[p]
        /\ waiting_on'[p] = IF p = nextpid THEN nil ELSE waiting_on[p]
        /\ label'[p] = IF p = up THEN User ELSE label[p]
  BY <1>1, <1>2, <1>3, <1>4 DEF TypeOK
<1>7. /\ alive' \in Seq(Pid) /\ Len(alive') = Len(alive) + 1
      /\ \A i \in 1 .. Len(alive) : alive'[i] = alive[i]
      /\ alive'[Len(alive) + 1] = nextpid
  BY <1>2, <1>4, AppendFacts DEF TypeOK
<1>8. TypeOK'
  <2>1. nextpid' \in Pid
    BY <1>2, <1>4, KernAssumption DEF NextSlot, Pid
  <2>2. label' \in [Pid -> [at : Points, arg : Pid \cup {PID_ALL}]]
    BY <1>1, <1>2, <1>4 DEF TypeOK, User, At, Points, StartPoints
  <2> QED
    BY <1>1, <1>2, <1>4, <1>5, <1>7, <2>1, <2>2, KernAssumption DEF TypeOK, State, Proc
<1>9. CpuOwnership'
  BY <1>1, <1>3, <1>4, <1>6 DEF CpuOwnership
<1>10. AliveInOrder'
  <2>1. Len(alive') \in 1 .. MAX_PROCS /\ nextpid' = Len(alive') % MAX_PROCS
    BY <1>2, <1>4, <1>7, KernAssumption DEF NextSlot
  <2>2. \A i \in 1 .. Len(alive') : alive'[i] = i - 1
    BY <1>2, <1>7 DEF AliveInOrder
  <2>3. \A p \in Pid : state'[p] = "dead" <=> p >= Len(alive')
    BY <1>2, <1>6, <1>7, KernAssumption DEF AliveInOrder, Pid
  <2> QED
    BY <2>1, <2>2, <2>3 DEF AliveInOrder
<1>11. IdleOnlyWhenStuck'
  BY <1>1, <1>4, KernAssumption DEF IdleOnlyWhenStuck, Pid
<1>12. QueueConsistent'
  <2>1. \A p, q \in Pid : InTransit(p, q)' <=> InTransit(p, q)
    BY <1>1, <1>6, AtFacts DEF InTransit, User
  <2>2. \A p \in Pid : /\ state'[p] = "send" <=> state[p] = "send"
                       /\ state'[p] = "dead" => state[p] = "dead"
                       /\ state[p] = "send" => waiting_on'[p] = waiting_on[p]
    BY <1>3, <1>6
  <2> QED
    BY <1>5, <2>1, <2>2, QueuesKept
<1>13. ResumePoints'
  <2>1. ASSUME NEW p \in Pid, NEW c \in Pid
        PROVE  /\ label'[p] = At("s_copy", c) => state'[c] = "send" /\ waiting_on'[c] = p
               /\ label'[p] = At("s_reply", c) => state'[c] = "reply" /\ waiting_on'[c] = p
    <3>1. CASE p = up
      BY <1>6, <3>1, AtFacts DEF User
    <3>2. CASE p # up
      BY <1>3, <1>6, <3>2 DEF ResumePoints, AwaitsReplyFrom
    <3> QED
      BY <3>1, <3>2
  <2>2. ASSUME NEW p \in Pid
        PROVE  /\ state'[p] \in {"send", "reply"} => label'[p].at = "ksend"
               /\ state'[p] = "recv" => label'[p].at \in {"krecv", "s_recv", "s_sched"}
               /\ state'[p] = "ready" => label'[p].at \in {"user", "kreply"} \cup StartPoints
               /\ state'[p] = "dead" => label'[p] = At("s_recv", PID_ALL)
               /\ label'[p].at \in {"s_copy", "s_reply"} => label'[p].arg \in Pid
    <3>1. CASE p = up
      BY <1>1, <1>3, <1>6, <3>1 DEF User, At
    <3>2. CASE p = nextpid
      BY <1>3, <1>6, <3>2 DEF At, StartPoints
    <3>3. CASE p # up /\ p # nextpid
      BY <1>6, <3>3 DEF ResumePoints
    <3> QED
      BY <3>1, <3>2, <3>3
  <2> QED
    BY <2>1, <2>2 DEF ResumePoints, AwaitsReplyFrom
<1>14. ReplyOwed'
  BY <1>6 DEF ReplyOwed
<1> QED
  BY <1>8, <1>9, <1>10, <1>11, <1>12, <1>13, <1>14

-----------------------------------------------------------------------------
(* The theorems. *)

LEMMA InitIInv == Init => IInv
<1> SUFFICES ASSUME Init PROVE IInv
  OBVIOUS
<1>1. /\ nil \notin Pid /\ 0 \in Pid /\ MAX_PROCS \in Nat \ {0}
      /\ \A p \in Pid : p \in Nat /\ p < MAX_PROCS
      /\ <<0>> \in Seq(Pid) /\ Len(<<0>>) = 1 /\ <<0>>[1] = 0
  BY KernAssumption DEF Pid
<1>2. TypeOK
  <2>1. nextpid \in Pid
    BY <1>1 DEF Init, Pid
  <2>2. label \in [Pid -> [at : Points, arg : Pid \cup {PID_ALL}]]
    BY <1>1 DEF Init, At, Points, StartPoints
  <2> QED
    BY <1>1, <2>1, <2>2, KernAssumption DEF Init, TypeOK, State, Proc
<1>3. CpuOwnership
  BY <1>1 DEF Init, CpuOwnership
<1>4. AliveInOrder
  BY <1>1 DEF Init, AliveInOrder
<1>5. QueueConsistent
  BY <1>1 DEF Init, QueueConsistent, QueuedAreSenders, SendersAreQueued, NobodyAwaitsDead
<1>6. ResumePoints
  BY <1>1 DEF Init, ResumePoints, At
<1>7. ReplyOwed /\ IdleOnlyWhenStuck
  BY <1>1 DEF Init, ReplyOwed, IdleOnlyWhenStuck
<1> QED
  BY <1>2, <1>3, <1>4, <1>5, <1>6, <1>7 DEF IInv

LEMMA NextIInv == IInv /\ [Next]_vars => IInv'
<1> SUFFICES ASSUME IInv, [Next]_vars PROVE IInv'
  OBVIOUS
<1>1. CASE Tick
  BY <1>1, TickStep
<1>2. CASE SyscallStep
  BY <1>2, SendDeadStep, SendFullStep, SendStep, ReplyErrStep, RecvStep,
     ReplyStep, ReplyRecvStep, ProcCreateStep DEF SyscallStep
<1>3. CASE KernelStep
  BY <1>3, SendReturnStep, TakeStep, RecvBlockStep, ReplyReturnStep,
     StartRecvStep, StartBlockStep, StartSchedStep, StartCopyStep,
     StartReplyStep, DropToUserStep DEF KernelStep
<1>4. CASE UNCHANGED vars
  BY <1>4 DEF vars, page, IInv, TypeOK, CpuOwnership, AliveInOrder,
     QueueConsistent, QueuedAreSenders, SendersAreQueued, NobodyAwaitsDead,
     InTransit, ResumePoints, AwaitsReplyFrom, ReplyOwed, IdleOnlyWhenStuck
<1> QED
  BY <1>1, <1>2, <1>3, <1>4 DEF Next

(* The structural invariant of the kernel: whatever the workload, however  *)
(* many processes and queue nodes, and wherever the ticks fall.            *)
THEOREM SpecIInv == Spec => []IInv
  BY InitIInv, NextIInv, PTL DEF Spec

(* Every field stays within its range. *)
THEOREM SpecTypeOK == Spec => []TypeOK
  BY SpecIInv, PTL DEF IInv

(* schedule never leaves two processes, or none of the running one, in     *)
(* PROC_oncpu outside krecv's window.                                      *)
THEOREM SpecCpuOwnership == Spec => []CpuOwnership
  BY SpecIInv, PTL DEF IInv

(* Before slots are reused, alive holds exactly the created processes and  *)
(* proc_new takes a slot nobody has.                                       *)
THEOREM SpecAliveInOrder == Spec => []AliveInOrder
  BY SpecIInv, PTL DEF IInv

(* proc_list_add and proc_list_remove keep each blocked sender in exactly  *)
(* one queue, once, for as long as it has not been taken.                  *)
THEOREM SpecQueueConsistent == Spec => []QueueConsistent
  BY SpecIInv, PTL DEF IInv

(* What one process does to another's state never contradicts the place    *)
(* the other is suspended at.                                              *)
THEOREM SpecResumePoints == Spec => []ResumePoints
  BY SpecIInv, PTL DEF IInv

(* A caller that has been taken is owed its answer by a live process.      *)
THEOREM SpecReplyOwed == Spec => []ReplyOwed
  BY SpecIInv, PTL DEF IInv

(* The kernel idles only when nothing is runnable. *)
THEOREM SpecIdleOnlyWhenStuck == Spec => []IdleOnlyWhenStuck
  BY SpecIInv, PTL DEF IInv

(* Once schedule has entered its idle loop no process ever runs again.     *)
THEOREM SpecIdleIsFinal == Spec => IdleIsFinal
<1>1. IInv /\ [Next]_vars => [up = nil => up' = nil]_vars
  <2> SUFFICES ASSUME IInv, Next, up = nil PROVE up' = nil
    BY DEF vars
  <2>1. ~ Running("user") /\ \A where : ~ Running(where)
    BY DEF Running
  <2>2. Tick
    BY <2>1 DEF Next, SyscallStep, KernelStep, sys_send_dead, sys_send_full,
       sys_send, sys_reply_err, sys_recv, sys_reply, sys_reply_recv,
       sys_proc_create, Enter, ksend_return, krecv_take, krecv_block,
       kreply_return, start_recv, start_block, start_sched, start_copy,
       start_reply, drop_to_user
  <2>3. /\ TypeOK /\ CpuOwnership /\ AliveInOrder
        /\ \A p \in Pid : state[p] \notin {"ready", "oncpu"}
    BY KernAssumption DEF IInv, IdleOnlyWhenStuck, CpuOwnership, Pid
  <2>4. Switched(state, nil)
    BY <2>2, <2>3, ScheduleFacts DEF Tick, TypeOK, Proc
  <2> QED
    BY <2>3, <2>4 DEF Switched, Proc
<1> QED
  BY <1>1, SpecIInv, PTL DEF Spec, IdleIsFinal

(* A call of recv ends in one step only, the one that takes a sender.      *)
LEMMA RecvEnds ==
  ASSUME IInv, Next, NEW p \in Pid, label[p].at = "krecv", label'[p].at = "user"
  PROVE  krecv_take /\ up = p
<1>1. /\ label \in [Pid -> [at : Points, arg : Pid \cup {PID_ALL}]]
      /\ User.at = "user"
      /\ \A a, x : At(a, x).at = a
  BY AtFacts DEF IInv, TypeOK, User
<1>2. ASSUME UNCHANGED label PROVE FALSE
  BY <1>1, <1>2
<1>3. ASSUME NEW lab, Continue(lab) PROVE up = p
  BY <1>1, <1>3 DEF Continue
<1>4. ~ Tick /\ ~ krecv_block /\ ~ start_block
  BY <1>1, <1>2, <1>3 DEF Tick, krecv_block, start_block, Running
<1>5. ~ SyscallStep
  <2>1. ASSUME NEW q \in Pid, NEW msg \in Msg,
               sys_send_dead(q, msg) \/ sys_send_full(q, msg) \/ sys_send(q, msg)
                 \/ sys_reply_err(q, msg)
        PROVE  FALSE
    BY <1>3, <2>1 DEF sys_send_dead, sys_send_full, sys_send, sys_reply_err, Return,
       Enter, Running
  <2>2. ASSUME NEW pid \in Pid \cup {PID_ALL}, sys_recv(pid) PROVE FALSE
    BY <1>3, <2>2 DEF sys_recv, Enter, Running
  <2>3. ASSUME NEW q \in Pid, NEW msg \in Msg, NEW ret \in Ret,
               sys_reply(q, msg, ret) \/ \E rpid \in Pid \cup {PID_ALL} : sys_reply_recv(q, msg, ret, rpid)
        PROVE  FALSE
    BY <1>3, <2>3 DEF sys_reply, sys_reply_recv, Enter, Running
  <2>4. ASSUME sys_proc_create PROVE FALSE
    <3>1. up # p
      BY <2>4 DEF sys_proc_create, Enter, Running
    <3>2. label'[p] = label[p] \/ label'[p] = At("s_recv", PID_ALL)
      BY <1>1, <2>4, <3>1 DEF sys_proc_create
    <3> QED
      BY <1>1, <3>2
  <2> QED
    BY <2>1, <2>2, <2>3, <2>4 DEF SyscallStep
<1>6. ~ ksend_return /\ ~ kreply_return /\ ~ start_recv /\ ~ start_sched /\ ~ start_copy
      /\ ~ start_reply /\ ~ drop_to_user
  BY <1>3 DEF ksend_return, kreply_return, start_recv, start_sched, start_copy,
     start_reply, drop_to_user, Return, Running
<1>7. krecv_take => up = p
  BY <1>3 DEF krecv_take, Return
<1> QED
  BY <1>4, <1>5, <1>6, <1>7 DEF Next, KernelStep

(* What recv returns is the sender that the walk of proc_list_remove stops *)
(* at, the one of pid or else the newest, and the message is the same      *)
(* sender's.                                                               *)
THEOREM SpecRecvPrefersPid == Spec => RecvPrefersPid
<1> DEFINE Prefers == \A p \in Pid :
       label[p].at = "krecv" /\ label'[p].at = "user" =>
         /\ r0' = IF label[p].arg \in ToSet(waiting[p]) THEN label[p].arg
                  ELSE Last(waiting[p])
         /\ m_in'[p] = m_out[r0']
<1>1. IInv /\ [Next]_vars => [Prefers]_vars
  <2> SUFFICES ASSUME IInv, Next, NEW p \in Pid, label[p].at = "krecv", label'[p].at = "user"
               PROVE  /\ r0' = IF label[p].arg \in ToSet(waiting[p]) THEN label[p].arg
                               ELSE Last(waiting[p])
                      /\ m_in'[p] = m_out[r0']
    OBVIOUS
  <2> DEFINE i == Picked(waiting[p], label[p].arg)
  <2>1. krecv_take /\ up = p
    BY RecvEnds
  <2>2. waiting[p] \in Seq(Pid) /\ m_in \in [Pid -> Msg]
    BY DEF IInv, TypeOK
  <2>3. waiting[p] # <<>>
    BY <2>1 DEF krecv_take
  <2>4. r0' = waiting[p][i] /\ m_in'[p] = m_out[r0']
    BY <2>1, <2>2 DEF krecv_take, Return
  <2>5. label[p].arg \in ToSet(waiting[p])
          <=> \E k \in 1 .. Len(waiting[p]) : waiting[p][k] = label[p].arg
    BY <2>2 DEF ToSet
  <2>6. CASE label[p].arg \in ToSet(waiting[p])
    BY <2>2, <2>3, <2>4, <2>5, <2>6, PickedFacts
  <2>7. CASE label[p].arg \notin ToSet(waiting[p])
    BY <2>4, <2>5, <2>7 DEF Picked, Last
  <2> QED
    BY <2>4, <2>6, <2>7
<1> QED
  BY <1>1, SpecIInv, PTL DEF Spec, RecvPrefersPid

-----------------------------------------------------------------------------
(* Two promises of Kern to the programs, for every size of the table: a    *)
(* pool of nodes that is large enough never runs out, and, as long as no   *)
(* program calls reply_recv and ticks come where Ticks says, a receiver    *)
(* does not sleep on a queue that has a sender in it.                      *)

(* The node of a queue determines the sender, who is not on the CPU, and   *)
(* no sender has two.                                                      *)
LEMMA NodesBound ==
  ASSUME IInv, up \in Pid, state[up] = "oncpu"
  PROVE  Cardinality(Nodes) < MAX_PROCS /\ Cardinality(Nodes) \in Nat
<1> DEFINE T == Pid \ {up}
           f == [x \in Nodes |-> waiting[x[1]][x[2]]]
<1>1. /\ \A q \in Pid : waiting[q] \in Seq(Pid) /\ DOMAIN waiting[q] = 1 .. Len(waiting[q])
      /\ QueuedAreSenders
  BY DEF IInv, TypeOK, QueueConsistent
<1>2. ASSUME NEW x \in Nodes
      PROVE  /\ x = <<x[1], x[2]>> /\ x[1] \in Pid /\ x[2] \in 1 .. Len(waiting[x[1]])
             /\ f[x] \in T /\ waiting_on[f[x]] = x[1]
  <2>1. PICK q \in Pid : \E i \in DOMAIN waiting[q] : x = <<q, i>>
    BY DEF Nodes
  <2>2. PICK i \in DOMAIN waiting[q] : x = <<q, i>>
    BY <2>1
  <2>3. i \in 1 .. Len(waiting[q]) /\ waiting[q][i] \in Pid
    BY <1>1
  <2>4. state[waiting[q][i]] = "send" /\ waiting_on[waiting[q][i]] = q
    BY <1>1, <2>3 DEF QueuedAreSenders
  <2> QED
    BY <2>2, <2>3, <2>4
<1>3. ASSUME NEW x \in Nodes, NEW y \in Nodes, f[x] = f[y] PROVE x = y
  <2>1. x[1] = y[1]
    BY <1>2, <1>3
  <2>2. x[2] = y[2]
    BY <1>1, <1>2, <1>3, <2>1 DEF QueuedAreSenders
  <2> QED
    BY <1>2, <2>1, <2>2
<1>4. f \in Injection(Nodes, T)
  <2>1. f \in [Nodes -> T]
    BY <1>2
  <2> HIDE DEF f, T
  <2> QED
    BY <1>3, <2>1 DEF Injection, IsInjective
<1>5. IsFiniteSet(T) /\ Cardinality(T) = MAX_PROCS - 1
  <2>1. IsFiniteSet(Pid) /\ Cardinality(Pid) = MAX_PROCS
    BY FS_Interval, KernAssumption DEF Pid
  <2> QED
    BY <2>1, FS_RemoveElement
<1> HIDE DEF f, T
<1>6. IsFiniteSet(Nodes) /\ Cardinality(Nodes) <= MAX_PROCS - 1
  BY <1>4, <1>5, FS_Injection
<1> QED
  BY <1>6, FS_CardinalityType, KernAssumption

(* The 2048 nodes of proc_lists[] are enough for 512 processes: the error  *)
(* of ksend for want of a node is never returned to a program.             *)
THEOREM SpecPoolSuffices == Spec => []PoolSuffices
<1>1. IInv => PoolSuffices
  <2> SUFFICES ASSUME IInv, MAX_PROC_LISTS >= MAX_PROCS, up # nil, state[up] = "oncpu"
               PROVE  Cardinality(Nodes) < MAX_PROC_LISTS
    BY DEF PoolSuffices
  <2>1. up \in Pid
    BY DEF IInv, TypeOK, Proc
  <2>2. Cardinality(Nodes) < MAX_PROCS /\ Cardinality(Nodes) \in Nat
    BY <2>1, NodesBound
  <2> QED
    BY <2>2, KernAssumption
<1> QED
  BY <1>1, SpecIInv, PTL

-----------------------------------------------------------------------------
(* In proc_start, the process that has found its queue empty and is about  *)
(* to mark itself PROC_recv is on the CPU: nobody can queue in between.    *)
AboutToBlock ==
  \A p \in Pid : label[p].at = "s_block" => up = p /\ waiting[p] = <<>>

Awake == NoLostWakeup /\ AboutToBlock

(* The conditions: a program that calls reply_recv sleeps before it looks  *)
(* at its queue, and a tick in proc_start comes only where Ticks says.     *)
Courteous == "reply_recv" \notin Syscalls /\ TickPoints \subseteq UnmaskPoints

(* schedule puts nobody to sleep who was not.                              *)
LEMMA SwitchWakes ==
  ASSUME IInv, NEW st \in [Pid -> State], NEW n \in Proc,
         \A p \in Pid : st[p] = "oncpu" => p = up,
         Schedule(st, n)
  PROVE  /\ \A p \in Pid : state'[p] = "recv" => st[p] = "recv"
         /\ n # nil => up' = n /\ (n \in Pid => state'[n] = "oncpu")
<1>1. Switched(st, n)
  BY ScheduleFacts DEF IInv
<1> QED
  BY <1>1 DEF Switched

LEMMA OthersDoNotBlock ==
  ASSUME IInv, Awake, NEW p \in Pid, label[p].at = "s_block"
  PROVE  up = p /\ up # nil /\ label[up].at = "s_block"
  BY KernAssumption DEF Awake, AboutToBlock, Pid

LEMMA TickAwake ==
  ASSUME IInv, Awake, Courteous, Tick
  PROVE  Awake'
<1>1. /\ Schedule(state, nil) /\ UNCHANGED <<waiting, label>>
      /\ up = nil \/ label[up].at # "s_block"
  BY DEF Tick, IntrOn, Running, Courteous, UnmaskPoints
<1>2. /\ nil \in Proc /\ state \in [Pid -> State]
      /\ \A p \in Pid : state[p] = "oncpu" => p = up
  BY DEF IInv, TypeOK, CpuOwnership, Proc
<1>3. \A p \in Pid : state'[p] = "recv" => state[p] = "recv"
  BY <1>1, <1>2, SwitchWakes
<1> QED
  BY <1>1, <1>3, OthersDoNotBlock DEF Awake, NoLostWakeup, AboutToBlock

(* Nobody falls asleep, or comes to the place where proc_start is about to.*)
NobodySleeps ==
  \A p \in Pid : state'[p] = "recv" => state[p] = "recv" /\ waiting'[p] = waiting[p]

NobodyBlocks == \A p \in Pid : label'[p].at = "s_block" => label[p].at = "s_block"

(* The kernel steps that switch, and leave every queue as it was.          *)
LEMMA SwitchAwake ==
  ASSUME IInv, Awake, NEW st \in [Pid -> State], NEW n \in Proc, Schedule(st, n),
         \A p \in Pid : st[p] = "oncpu" => p = up,
         \A p \in Pid : st[p] = "recv" => waiting[p] = <<>>,
         label[up].at # "s_block",
         UNCHANGED waiting, NobodyBlocks
  PROVE  Awake'
<1>1. \A p \in Pid : state'[p] = "recv" => st[p] = "recv"
  BY SwitchWakes
<1> QED
  BY <1>1, OthersDoNotBlock DEF Awake, NoLostWakeup, AboutToBlock, NobodyBlocks

(* The steps that put nobody to sleep.                                     *)
LEMMA StayAwake ==
  ASSUME IInv, Awake, label[up].at # "s_block", NobodySleeps, NobodyBlocks
  PROVE  Awake'
  BY OthersDoNotBlock DEF Awake, NoLostWakeup, AboutToBlock, NobodySleeps, NobodyBlocks

LEMMA UnlinkOne ==
  ASSUME IInv, up \in Pid, NEW i, Unlink(up, i)
  PROVE  \A p \in Pid \ {up} : waiting'[p] = waiting[p]
  BY DEF Unlink, IInv, TypeOK

LEMMA KernelAwake ==
  ASSUME IInv, Awake, KernelStep
  PROVE  Awake'
<1>1. up \in Pid /\ up # nil /\ nil \in Proc /\ Pid \subseteq Proc
  BY RunningFacts, KernAssumption DEF KernelStep, ksend_return, krecv_take, krecv_block,
     kreply_return, start_recv, start_block, start_sched, start_copy, start_reply,
     drop_to_user, Pid, Proc
<1>2. /\ state \in [Pid -> State]
      /\ label \in [Pid -> [at : Points, arg : Pid \cup {PID_ALL}]]
      /\ \A p \in Pid : state[p] = "oncpu" => p = up
      /\ \A p \in Pid : state[p] = "recv" => waiting[p] = <<>>
  BY DEF IInv, TypeOK, CpuOwnership, Awake, NoLostWakeup
<1>3. CASE ksend_return \/ kreply_return \/ drop_to_user
  <2>1. /\ UNCHANGED <<state, waiting, up>> /\ label[up].at # "s_block"
        /\ label' = [label EXCEPT ![up] = User]
    BY <1>3 DEF ksend_return, kreply_return, drop_to_user, Return, Continue, Running
  <2>2. NobodySleeps /\ NobodyBlocks
    BY <1>1, <1>2, <2>1 DEF NobodySleeps, NobodyBlocks, User, At
  <2> QED
    BY <2>1, <2>2, StayAwake
<1>4. CASE krecv_take
  <2> DEFINE i == Picked(waiting[up], label[up].arg)
  <2>1. /\ Unlink(up, i) /\ label[up].at = "krecv"
        /\ state' = [state EXCEPT ![waiting[up][i]] = "reply"]
        /\ label' = [label EXCEPT ![up] = User]
    BY <1>4 DEF krecv_take, Return, Continue, Running
  <2>2. state[up] = "oncpu"
    BY <1>4, RunningFacts DEF krecv_take
  <2> HIDE DEF i
  <2>3. \A p \in Pid \ {up} : waiting'[p] = waiting[p]
    BY <1>1, <2>1, UnlinkOne
  <2>4. \A p \in Pid : state'[p] = "recv" => state[p] = "recv" /\ p # up
    BY <1>2, <2>1, <2>2
  <2>5. NobodySleeps /\ NobodyBlocks
    BY <1>1, <1>2, <2>1, <2>3, <2>4 DEF NobodySleeps, NobodyBlocks, User, At
  <2> QED
    BY <2>1, <2>5, StayAwake
<1>5. CASE krecv_block
  <2> DEFINE st == [state EXCEPT ![up] = "recv"]
  <2>1. /\ Schedule(st, nil) /\ UNCHANGED <<waiting, label>>
        /\ waiting[up] = <<>> /\ label[up].at = "krecv"
    BY <1>5 DEF krecv_block, Running
  <2>2. st \in [Pid -> State] /\ \A q \in Pid : st[q] = IF q = up THEN "recv" ELSE state[q]
    BY <1>1, <1>2 DEF State
  <2> HIDE DEF st
  <2>3. /\ \A p \in Pid : st[p] = "oncpu" => p = up
        /\ \A p \in Pid : st[p] = "recv" => waiting[p] = <<>>
    BY <1>2, <2>1, <2>2
  <2>4. NobodyBlocks /\ label[up].at # "s_block"
    BY <2>1 DEF NobodyBlocks
  <2> QED
    BY <1>1, <2>1, <2>2, <2>3, <2>4, SwitchAwake
<1>6. CASE start_recv
  <2>1. UNCHANGED <<state, up>> /\ label[up].at = "s_recv" /\ state[up] = "oncpu"
    BY <1>6, RunningFacts DEF start_recv, Running
  <2>2. CASE waiting[up] = <<>>
    <3>1. label' = [label EXCEPT ![up] = At("s_block", PID_ALL)] /\ UNCHANGED waiting
      BY <1>6, <2>2 DEF start_recv, Continue
    <3>2. \A p \in Pid : label'[p].at = "s_block" => label[p].at = "s_block" \/ p = up
      BY <1>1, <1>2, <3>1
    <3> QED
      BY <1>1, <2>1, <2>2, <3>1, <3>2, OthersDoNotBlock
      DEF Awake, NoLostWakeup, AboutToBlock
  <2>3. CASE waiting[up] # <<>>
    <3> DEFINE i == Picked(waiting[up], PID_ALL)
    <3>1. label' = [label EXCEPT ![up] = At("s_copy", waiting[up][i])] /\ Unlink(up, i)
      BY <1>6, <2>3 DEF start_recv, Continue
    <3> HIDE DEF i
    <3>2. \A p \in Pid \ {up} : waiting'[p] = waiting[p]
      BY <1>1, <3>1, UnlinkOne
    <3>3. At("s_copy", waiting[up][i]).at = "s_copy"
      BY AtFacts
    <3>4. NobodySleeps /\ NobodyBlocks
      BY <1>1, <1>2, <2>1, <3>1, <3>2, <3>3 DEF NobodySleeps, NobodyBlocks
    <3> QED
      BY <2>1, <3>4, StayAwake
  <2> QED
    BY <2>2, <2>3
<1>7. CASE start_block
  <2>1. /\ state' = [state EXCEPT ![up] = "recv"] /\ UNCHANGED <<waiting, up>>
        /\ label' = [label EXCEPT ![up] = At("s_sched", PID_ALL)]
        /\ label[up].at = "s_block" /\ At("s_sched", PID_ALL).at = "s_sched"
    BY <1>7, AtFacts DEF start_block, Running, Continue
  <2>2. waiting[up] = <<>>
    BY <1>1, <2>1 DEF Awake, AboutToBlock
  <2>3. \A p \in Pid : label'[p].at # "s_block"
    BY <1>1, <1>2, <2>1, OthersDoNotBlock
  <2> QED
    BY <1>1, <1>2, <2>1, <2>2, <2>3 DEF Awake, NoLostWakeup, AboutToBlock
<1>8. CASE start_sched
  <2>1. /\ Schedule(state, nil) /\ UNCHANGED waiting /\ label[up].at = "s_sched"
        /\ label' = [label EXCEPT ![up] = At("s_recv", PID_ALL)]
        /\ At("s_recv", PID_ALL).at = "s_recv"
    BY <1>8, AtFacts DEF start_sched, Running, Continue
  <2>2. NobodyBlocks
    BY <1>1, <1>2, <2>1 DEF NobodyBlocks
  <2> QED
    BY <1>1, <1>2, <2>1, <2>2, SwitchAwake
<1>9. CASE start_copy
  <2> DEFINE w == label[up].arg
  <2>1. /\ state' = [state EXCEPT ![w] = "reply"] /\ UNCHANGED <<waiting, up>>
        /\ label' = [label EXCEPT ![up] = At("s_reply", w)] /\ label[up].at = "s_copy"
        /\ At("s_reply", w).at = "s_reply"
    BY <1>9, AtFacts DEF start_copy, Running, Continue
  <2> HIDE DEF w
  <2>2. NobodySleeps /\ NobodyBlocks
    BY <1>1, <1>2, <2>1 DEF NobodySleeps, NobodyBlocks
  <2> QED
    BY <2>1, <2>2, StayAwake
<1>10. CASE start_reply
  <2> DEFINE w == label[up].arg
  <2>1. /\ UNCHANGED waiting /\ label[up].at = "s_reply" /\ At("s_drop", PID_ALL).at = "s_drop"
        /\ label' = [label EXCEPT ![up] = At("s_drop", PID_ALL)]
        /\ Schedule(state, w) \/ UNCHANGED <<state, up>>
    BY <1>10, AtFacts DEF start_reply, Running, Continue
  <2>2. w \in Proc
    BY <1>1, <2>1 DEF IInv, ResumePoints
  <2> HIDE DEF w
  <2>3. NobodyBlocks
    BY <1>1, <1>2, <2>1 DEF NobodyBlocks
  <2>4. CASE Schedule(state, w)
    BY <1>1, <1>2, <2>1, <2>2, <2>3, <2>4, SwitchAwake
  <2>5. CASE UNCHANGED <<state, up>>
    <3>1. NobodySleeps
      BY <2>1, <2>5 DEF NobodySleeps
    <3> QED
      BY <2>1, <2>3, <3>1, StayAwake
  <2> QED
    BY <2>1, <2>4, <2>5
<1> QED
  BY <1>3, <1>4, <1>5, <1>6, <1>7, <1>8, <1>9, <1>10 DEF KernelStep

LEMMA SyscallAwake ==
  ASSUME IInv, Awake, Courteous, SyscallStep
  PROVE  Awake'
<1>1. /\ up \in Pid /\ up # nil /\ state[up] = "oncpu" /\ label[up].at = "user"
      /\ nil \in Proc /\ Pid \subseteq Proc
  BY RunningFacts, KernAssumption DEF SyscallStep, Enter, sys_send_dead, sys_send_full,
     sys_send, sys_reply_err, sys_recv, sys_reply, sys_reply_recv, sys_proc_create,
     Pid, Proc
<1>2. /\ state \in [Pid -> State]
      /\ label \in [Pid -> [at : Points, arg : Pid \cup {PID_ALL}]]
      /\ waiting \in [Pid -> Seq(Pid)]
      /\ \A p \in Pid : state[p] = "oncpu" => p = up
      /\ \A p \in Pid : state[p] = "recv" => waiting[p] = <<>>
  BY DEF IInv, TypeOK, CpuOwnership, Awake, NoLostWakeup
<1>3. ASSUME NEW p \in Pid, NEW x \in Msg,
             sys_send_dead(p, x) \/ sys_send_full(p, x) \/ sys_reply_err(p, x)
      PROVE  Awake'
  <2>1. UNCHANGED <<state, waiting, up>> /\ label' = [label EXCEPT ![up] = User]
    BY <1>3 DEF sys_send_dead, sys_send_full, sys_reply_err, Return, Continue
  <2>2. NobodySleeps /\ NobodyBlocks
    BY <1>1, <1>2, <2>1 DEF NobodySleeps, NobodyBlocks, User, At
  <2> QED
    BY <1>1, <2>2, StayAwake
<1>4. ASSUME NEW p \in Pid, NEW x \in Msg, sys_send(p, x)
      PROVE  Awake'
  <2> DEFINE st == [state EXCEPT ![up] = "send"]
             n  == Handoff(st, p)
  <2>1. /\ Schedule(st, n) /\ waiting' = [waiting EXCEPT ![p] = Append(@, up)]
        /\ label' = [label EXCEPT ![up] = At("ksend", PID_ALL)]
        /\ At("ksend", PID_ALL).at = "ksend"
    BY <1>4, AtFacts DEF sys_send, Continue
  <2>2. /\ st \in [Pid -> State]
        /\ \A q \in Pid : st[q] = IF q = up THEN "send" ELSE state[q]
    BY <1>1, <1>2 DEF State
  <2>3. n \in Proc /\ (st[p] = "recv" => n = p)
    BY <1>1 DEF Handoff
  <2> HIDE DEF st, n
  <2>4. \A q \in Pid : st[q] = "oncpu" => q = up
    BY <1>2, <2>2
  <2>5. /\ \A q \in Pid : state'[q] = "recv" => st[q] = "recv"
        /\ n # nil => up' = n /\ (n \in Pid => state'[n] = "oncpu")
    BY <2>1, <2>2, <2>3, <2>4, SwitchWakes
  <2>6. p # nil
    BY KernAssumption DEF Pid
  <2>7. /\ \A q \in Pid : state'[q] = "recv" => st[q] = "recv"
        /\ st[p] = "recv" => state'[p] = "oncpu"
    BY <2>5, <2>6, <2>3
  <2>8. NobodySleeps
    <3> SUFFICES ASSUME NEW q \in Pid, state'[q] = "recv"
                 PROVE  state[q] = "recv" /\ waiting'[q] = waiting[q]
      BY DEF NobodySleeps
    <3>1. st[q] = "recv"
      BY <2>7
    <3>2. q # p /\ q # up
      BY <2>2, <2>7, <3>1
    <3>3. waiting'[q] = waiting[q]
      BY <1>2, <2>1, <3>2
    <3> QED
      BY <2>2, <3>1, <3>2, <3>3
  <2>9. NobodyBlocks
    BY <1>1, <1>2, <2>1 DEF NobodyBlocks
  <2> QED
    BY <1>1, <2>8, <2>9, StayAwake
<1>5. ASSUME NEW pid \in Pid \cup {PID_ALL}, sys_recv(pid) PROVE Awake'
  <2>1. /\ UNCHANGED <<state, waiting, up>> /\ label' = [label EXCEPT ![up] = At("krecv", pid)]
        /\ At("krecv", pid).at = "krecv"
    BY <1>5, AtFacts DEF sys_recv, Continue
  <2>2. NobodySleeps /\ NobodyBlocks
    BY <1>1, <1>2, <2>1 DEF NobodySleeps, NobodyBlocks
  <2> QED
    BY <1>1, <2>2, StayAwake
<1>6. ASSUME NEW p \in Pid, NEW x \in Msg, NEW ret \in Ret, sys_reply(p, x, ret)
      PROVE  Awake'
  <2>1. /\ Schedule(state, p) /\ UNCHANGED waiting
        /\ label' = [label EXCEPT ![up] = At("kreply", PID_ALL)]
        /\ At("kreply", PID_ALL).at = "kreply"
    BY <1>6, AtFacts DEF sys_reply, Continue
  <2>2. NobodyBlocks /\ p \in Proc
    BY <1>1, <1>2, <2>1 DEF NobodyBlocks
  <2> QED
    BY <1>1, <1>2, <2>1, <2>2, SwitchAwake
<1>7. ASSUME NEW p, NEW x, NEW ret, NEW rpid, sys_reply_recv(p, x, ret, rpid)
      PROVE  Awake'
  BY <1>7 DEF sys_reply_recv, Enter, Courteous
<1>8. CASE sys_proc_create
  <2>1. /\ state' = [state EXCEPT ![nextpid] = "ready"]
        /\ waiting' = [waiting EXCEPT ![nextpid] = <<>>]
        /\ label' = [label EXCEPT ![nextpid] = At("s_recv", PID_ALL), ![up] = User]
        /\ nextpid \in Pid
        /\ At("s_recv", PID_ALL).at = "s_recv" /\ User.at = "user"
    BY <1>8, AtFacts DEF sys_proc_create, User, IInv, TypeOK
  <2>2. NobodySleeps /\ NobodyBlocks
    BY <1>1, <1>2, <2>1 DEF NobodySleeps, NobodyBlocks
  <2> QED
    BY <1>1, <2>2, StayAwake
<1> QED
  BY <1>3, <1>4, <1>5, <1>6, <1>7, <1>8 DEF SyscallStep

-----------------------------------------------------------------------------
LEMMA AwakeInit == Init => Awake
  BY DEF Init, Awake, NoLostWakeup, AboutToBlock, At

LEMMA AwakeNext == Courteous /\ IInv /\ Awake /\ [Next]_vars => Awake'
<1>1. ASSUME Awake, UNCHANGED vars PROVE Awake'
  BY <1>1 DEF Awake, NoLostWakeup, AboutToBlock, vars
<1> QED
  BY <1>1, TickAwake, SyscallAwake, KernelAwake DEF Next

(* krecv blocks only on an empty queue and ksend wakes a receiver, so that *)
(* no sender is left with a receiver that sleeps: without reply_recv, and  *)
(* for ticks in proc_start where interrupts are unmasked.                  *)
THEOREM SpecNoLostWakeup ==
  ASSUME "reply_recv" \notin Syscalls, TickPoints \subseteq UnmaskPoints
  PROVE  Spec => []NoLostWakeup
<1>1. Courteous
  BY DEF Courteous
<1>2. IInv /\ Awake /\ [Next]_vars => Awake'
  BY <1>1, AwakeNext
<1>3. Awake => NoLostWakeup
  BY DEF Awake
<1> QED
  BY <1>2, <1>3, AwakeInit, SpecIInv, PTL DEF Spec

-----------------------------------------------------------------------------
(* Kern implements Rpc.                                                    *)

(* What Rpc sees of a process. *)
LEMMA CallOf ==
  \A p \in Pid :
    /\ state[p] = "send"  => RpcCall[p] = Contract!Queued(waiting_on[p], m_out[p])
    /\ state[p] = "reply" => RpcCall[p] = Contract!Taken(waiting_on[p], m_out[p])
    /\ state[p] \notin {"send", "reply"} => RpcCall[p] = Contract!Idle
  BY DEF RpcCall, Calling, Contract!Queued, Contract!Taken, Contract!Idle

(* A process for which state, callee and message stay is seen unchanged,   *)
(* and so is one that has no call outstanding before and after.            *)
SameCall(p) ==
  \/ /\ state[p] = state'[p]
     /\ waiting_on'[p] = waiting_on[p] /\ m_out'[p] = m_out[p]
  \/ state[p] \notin {"send", "reply"} /\ state'[p] \notin {"send", "reply"}

LEMMA SameCallKeeps ==
  ASSUME NEW p \in Pid, SameCall(p)
  PROVE  RpcCall'[p] = RpcCall[p]
  BY DEF SameCall, RpcCall, Calling

LEMMA AllSameCall ==
  ASSUME \A p \in Pid : SameCall(p)
  PROVE  RpcCall' = RpcCall
  BY DEF SameCall, RpcCall, Calling

(* Steps after which no call looks different and no inbox or result is     *)
(* written.                                                                *)
LEMMA StutterStep ==
  ASSUME \A p \in Pid : SameCall(p), UNCHANGED <<m_in, m_ret>>
  PROVE  UNCHANGED Contract!rpcVars
  BY AllSameCall DEF Contract!rpcVars

(* A step that changes the call of c only. *)
LEMMA OneCall ==
  ASSUME NEW c \in Pid, \A p \in Pid \ {c} : SameCall(p),
         NEW x, RpcCall'[c] = x
  PROVE  RpcCall' = [RpcCall EXCEPT ![c] = x]
<1>1. RpcCall = [p \in Pid |-> RpcCall[p]] /\ RpcCall' = [p \in Pid |-> RpcCall'[p]]
  BY DEF RpcCall
<1>2. \A p \in Pid \ {c} : RpcCall'[p] = RpcCall[p]
  BY SameCallKeeps
<1> QED
  BY <1>1, <1>2

-----------------------------------------------------------------------------
(* Steps that Rpc does not see. *)

(* The running process writes its own message buffer or waiting_on.        *)
LEMMA OwnWrites ==
  ASSUME IInv, up \in Pid, state[up] \notin {"send", "reply"},
         UNCHANGED <<state, m_in, m_ret>>,
         \A p \in Pid \ {up} : waiting_on'[p] = waiting_on[p] /\ m_out'[p] = m_out[p]
  PROVE  UNCHANGED Contract!rpcVars
<1>1. \A p \in Pid : SameCall(p)
  BY DEF SameCall
<1> QED
  BY <1>1, StutterStep

(* The CPU changes hands, to the next ready process. *)
LEMMA SwitchUnseen ==
  ASSUME IInv, NEW st \in [Pid -> State], Schedule(st, nil),
         \A p \in Pid : \/ st[p] = state[p]
                        \/ p = up /\ st[p] = "recv" /\ state[p] \notin {"send", "reply"},
         UNCHANGED <<waiting_on, m_out, m_in, m_ret>>
  PROVE  UNCHANGED Contract!rpcVars
<1>1. nil \notin Pid /\ nil \in Proc
  BY KernAssumption DEF Pid, Proc
<1>2. \A p \in Pid : st[p] = "oncpu" => p = up
  BY DEF IInv, CpuOwnership
<1>3. Switched(st, nil)
  BY <1>1, <1>2, ScheduleFacts DEF IInv
<1>4. \A p \in Pid :
        \/ state'[p] = state[p]
        \/ state[p] \notin {"send", "reply"} /\ state'[p] \notin {"send", "reply"}
  BY <1>1, <1>3 DEF Switched
<1>5. \A p \in Pid : SameCall(p)
  BY <1>4 DEF SameCall
<1> QED
  BY <1>5, StutterStep

LEMMA TickUnseen == IInv /\ Tick => UNCHANGED Contract!rpcVars
<1> SUFFICES ASSUME IInv, Tick PROVE UNCHANGED Contract!rpcVars
  OBVIOUS
<1>1. state \in [Pid -> State] /\ Schedule(state, nil)
  BY DEF Tick, IInv, TypeOK
<1>2. UNCHANGED <<waiting_on, m_out, m_in, m_ret>>
  BY DEF Tick, page
<1> QED
  BY <1>1, <1>2, SwitchUnseen

LEMMA RecvBlockUnseen == IInv /\ krecv_block => UNCHANGED Contract!rpcVars
<1> SUFFICES ASSUME IInv, krecv_block PROVE UNCHANGED Contract!rpcVars
  OBVIOUS
<1> DEFINE st == [state EXCEPT ![up] = "recv"]
<1>1. up \in Pid /\ state[up] = "oncpu"
  BY RunningFacts DEF krecv_block
<1>2. /\ st \in [Pid -> State]
      /\ \A p \in Pid : st[p] = IF p = up THEN "recv" ELSE state[p]
  BY <1>1 DEF IInv, TypeOK, State
<1>3. Schedule(st, nil) /\ UNCHANGED <<waiting_on, m_out, m_in, m_ret>>
  BY DEF krecv_block, page
<1> HIDE DEF st
<1> QED
  BY <1>1, <1>2, <1>3, SwitchUnseen

LEMMA StartSchedUnseen == IInv /\ start_sched => UNCHANGED Contract!rpcVars
<1> SUFFICES ASSUME IInv, start_sched PROVE UNCHANGED Contract!rpcVars
  OBVIOUS
<1>1. state \in [Pid -> State] /\ Schedule(state, nil)
  BY DEF start_sched, IInv, TypeOK
<1>2. UNCHANGED <<waiting_on, m_out, m_in, m_ret>>
  BY DEF start_sched, page
<1> QED
  BY <1>1, <1>2, SwitchUnseen

LEMMA QuietUnseen ==
  ASSUME IInv,
         \/ \E p \in Pid, m \in Msg :
              sys_send_dead(p, m) \/ sys_send_full(p, m) \/ sys_reply_err(p, m)
         \/ \E pid \in Pid \cup {PID_ALL} : sys_recv(pid)
         \/ ksend_return \/ kreply_return \/ drop_to_user
  PROVE  UNCHANGED Contract!rpcVars
<1>1. up \in Pid /\ state[up] = "oncpu"
  BY RunningFacts DEF Enter, sys_send_dead, sys_send_full, sys_reply_err, sys_recv,
     ksend_return, kreply_return, drop_to_user
<1>2. UNCHANGED <<state, m_in, m_ret>>
  BY DEF sys_send_dead, sys_send_full, sys_reply_err, sys_recv,
     ksend_return, kreply_return, drop_to_user, page
<1>3. \A p \in Pid \ {up} : waiting_on'[p] = waiting_on[p] /\ m_out'[p] = m_out[p]
  BY <1>1 DEF sys_send_dead, sys_send_full, sys_reply_err, sys_recv,
     ksend_return, kreply_return, drop_to_user, page, WaitOn, IInv, TypeOK
<1> QED
  BY <1>1, <1>2, <1>3, OwnWrites

LEMMA StartUnseen ==
  ASSUME IInv, start_recv \/ start_block
  PROVE  UNCHANGED Contract!rpcVars
<1>1. up \in Pid /\ state[up] = "oncpu"
  BY RunningFacts DEF start_recv, start_block
<1>2. UNCHANGED <<waiting_on, m_out, m_in, m_ret>>
  BY DEF start_recv, start_block, page
<1>3. \A p \in Pid : SameCall(p)
  BY <1>1, <1>2 DEF start_recv, start_block, SameCall, IInv, TypeOK
<1> QED
  BY <1>2, <1>3, StutterStep

-----------------------------------------------------------------------------
(* Steps that Rpc sees. *)

LEMMA SendSeen ==
  \A p \in Pid, m \in Msg : IInv /\ sys_send(p, m) => Contract!Call(up, p, m)
<1> SUFFICES ASSUME NEW p \in Pid, NEW m \in Msg, IInv, sys_send(p, m)
             PROVE  Contract!Call(up, p, m)
  OBVIOUS
<1> DEFINE st == [state EXCEPT ![up] = "send"]
           n  == Handoff(st, p)
<1>1. up \in Pid /\ state[up] = "oncpu"
  BY RunningFacts DEF sys_send, Enter
<1>2. /\ nil \notin Pid /\ st \in [Pid -> State]
      /\ \A q \in Pid : st[q] = IF q = up THEN "send" ELSE state[q]
  BY <1>1, KernAssumption DEF Pid, IInv, TypeOK, State
<1>3. Schedule(st, n) /\ UNCHANGED <<m_in, m_ret>>
  BY DEF sys_send
<1>4. waiting_on' = [waiting_on EXCEPT ![up] = p] /\ m_out' = [m_out EXCEPT ![up] = m]
  BY DEF sys_send, WaitOn
<1> HIDE DEF st
<1>5. n \in Proc /\ (n # nil => n \in Pid /\ st[n] = "recv")
  BY DEF Handoff, Proc
<1> HIDE DEF n
<1>6. Switched(st, n)
  <2>1. \A q \in Pid : st[q] = "oncpu" => q = up
    BY <1>1, <1>2 DEF IInv, CpuOwnership
  <2> QED
    BY <1>2, <1>3, <1>5, <2>1, ScheduleFacts DEF IInv
<1>7. state'[up] = "send" /\ waiting_on'[up] = p /\ m_out'[up] = m
  BY <1>1, <1>2, <1>4, <1>5, <1>6 DEF Switched, IInv, TypeOK
<1>8. \A q \in Pid \ {up} : SameCall(q)
  BY <1>1, <1>2, <1>4, <1>5, <1>6 DEF Switched, SameCall, IInv, TypeOK
<1>9. RpcCall'[up] = Contract!Queued(p, m)
  BY <1>1, <1>7 DEF RpcCall, Calling, Contract!Queued
<1>10. RpcCall[up] = Contract!Idle
  BY <1>1, CallOf
<1>11. RpcCall' = [RpcCall EXCEPT ![up] = Contract!Queued(p, m)]
  BY <1>1, <1>8, <1>9, OneCall
<1> QED
  BY <1>3, <1>10, <1>11 DEF Contract!Call

(* A receiver takes w, which Rpc has queued at it. *)
LEMMA TakeSeen ==
  ASSUME IInv, up \in Pid, state[up] = "oncpu",
         NEW w \in Pid, state[w] = "send", waiting_on[w] = up,
         m_in' = [m_in EXCEPT ![up] = m_out[w]],
         state' = [state EXCEPT ![w] = "reply"],
         UNCHANGED <<waiting_on, m_out, m_ret>>
  PROVE  Contract!Take(up, w, m_out[w])
<1>1. \A p \in Pid : state'[p] = IF p = w THEN "reply" ELSE state[p]
  BY DEF IInv, TypeOK
<1>2. \A p \in Pid \ {w} : SameCall(p)
  BY <1>1 DEF SameCall
<1>3. RpcCall'[w] = Contract!Taken(up, m_out[w])
  BY <1>1 DEF RpcCall, Calling, Contract!Taken
<1>4. RpcCall' = [RpcCall EXCEPT ![w] = Contract!Taken(up, m_out[w])]
  BY <1>2, <1>3, OneCall
<1>5. RpcCall[up] = Contract!Idle /\ RpcCall[w] = Contract!Queued(up, m_out[w])
  BY CallOf
<1> QED
  BY <1>4, <1>5 DEF Contract!Take

(* A process that waits on up is answered and gets the CPU. *)
LEMMA AnswerSeen ==
  ASSUME IInv, up \in Pid, state[up] = "oncpu",
         NEW s \in {"oncpu", "recv"}, NEW p \in Pid, NEW m \in Msg, NEW ret \in Ret,
         AwaitsReplyFrom(p, up), Deliver(p, m, ret),
         Schedule([state EXCEPT ![up] = s], p), UNCHANGED waiting_on
  PROVE  Contract!Answer(up, p, m, ret)
<1> DEFINE st == [state EXCEPT ![up] = s]
<1>1. /\ nil \notin Pid /\ p \in Proc /\ p # up /\ st \in [Pid -> State]
      /\ \A q \in Pid : st[q] = IF q = up THEN s ELSE state[q]
  BY KernAssumption DEF Pid, Proc, IInv, TypeOK, State, AwaitsReplyFrom
<1>2. Schedule(st, p)
  OBVIOUS
<1> HIDE DEF st
<1>3. Switched(st, p)
  <2>1. \A q \in Pid : st[q] = "oncpu" => q = up
    BY <1>1 DEF IInv, CpuOwnership
  <2> QED
    BY <1>1, <1>2, <2>1, ScheduleFacts DEF IInv
<1>4. state'[p] = "oncpu"
  BY <1>1, <1>3 DEF Switched
<1>5. \A q \in Pid \ {p} : SameCall(q)
  BY <1>1, <1>3 DEF Switched, SameCall, Deliver, IInv, TypeOK
<1>6. RpcCall'[p] = Contract!Idle
  BY <1>4 DEF RpcCall, Calling, Contract!Idle
<1>7. RpcCall' = [RpcCall EXCEPT ![p] = Contract!Idle]
  BY <1>5, <1>6, OneCall
<1>8. /\ RpcCall[up] = Contract!Idle
      /\ RpcCall[p] = Contract!Taken(up, m_out[p]) /\ m_out[p] \in Msg
  BY CallOf DEF AwaitsReplyFrom, IInv, TypeOK
<1> QED
  BY <1>7, <1>8 DEF Contract!Answer, Deliver

LEMMA KrecvTakeSeen ==
  IInv /\ krecv_take => \E w \in Pid, m \in Msg : Contract!Take(up, w, m)
<1> SUFFICES ASSUME IInv, krecv_take
             PROVE  \E w \in Pid, m \in Msg : Contract!Take(up, w, m)
  OBVIOUS
<1> DEFINE i == Picked(waiting[up], label[up].arg)
           w == waiting[up][i]
<1>1. up \in Pid /\ state[up] = "oncpu"
  BY RunningFacts DEF krecv_take
<1>2. /\ waiting[up] # <<>>
      /\ m_in' = [m_in EXCEPT ![up] = m_out[w]]
      /\ state' = [state EXCEPT ![w] = "reply"]
      /\ UNCHANGED <<waiting_on, m_out, m_ret>>
  BY DEF krecv_take
<1>3. i \in 1 .. Len(waiting[up])
  BY <1>1, <1>2, PickedFacts DEF IInv, TypeOK
<1> HIDE DEF i
<1>4. w \in Pid /\ state[w] = "send" /\ waiting_on[w] = up
  BY <1>1, <1>3 DEF IInv, TypeOK, QueueConsistent, QueuedAreSenders
<1> HIDE DEF w
<1>5. Contract!Take(up, w, m_out[w])
  BY <1>1, <1>2, <1>4, TakeSeen
<1> QED
  BY <1>4, <1>5 DEF IInv, TypeOK

LEMMA StartCopySeen ==
  IInv /\ start_copy => \E w \in Pid, m \in Msg : Contract!Take(up, w, m)
<1> SUFFICES ASSUME IInv, start_copy
             PROVE  \E w \in Pid, m \in Msg : Contract!Take(up, w, m)
  OBVIOUS
<1> DEFINE w == label[up].arg
<1>1. up \in Pid /\ state[up] = "oncpu" /\ label[up].at = "s_copy"
  BY RunningFacts DEF start_copy
<1>2. /\ m_in' = [m_in EXCEPT ![up] = m_out[w]]
      /\ state' = [state EXCEPT ![w] = "reply"]
      /\ UNCHANGED <<waiting_on, m_out, m_ret>>
  BY DEF start_copy
<1>3. label[up] = At("s_copy", w) /\ w \in Pid
  BY <1>1 DEF IInv, TypeOK, ResumePoints, At
<1> HIDE DEF w
<1>4. state[w] = "send" /\ waiting_on[w] = up
  BY <1>1, <1>3 DEF IInv, ResumePoints
<1>5. Contract!Take(up, w, m_out[w])
  BY <1>1, <1>2, <1>3, <1>4, TakeSeen
<1> QED
  BY <1>3, <1>5 DEF IInv, TypeOK

Answered ==
  \E p \in Pid, m \in Msg, ret \in Ret : Contract!Answer(up, p, m, ret)

LEMMA ReplySeen ==
  ASSUME IInv, NEW p \in Pid, NEW m \in Msg, NEW ret \in Ret,
         \/ sys_reply(p, m, ret)
         \/ \E rpid \in Pid \cup {PID_ALL} : sys_reply_recv(p, m, ret, rpid)
  PROVE  Answered /\ up \in Pid
<1>1. up \in Pid /\ state[up] = "oncpu"
  BY RunningFacts DEF sys_reply, sys_reply_recv, Enter
<1>2. AwaitsReplyFrom(p, up) /\ Deliver(p, m, ret) /\ UNCHANGED waiting_on
  BY DEF sys_reply, sys_reply_recv
<1>3. state = [state EXCEPT ![up] = "oncpu"]
  BY <1>1 DEF IInv, TypeOK
<1>4. \/ Schedule([state EXCEPT ![up] = "oncpu"], p)
      \/ Schedule([state EXCEPT ![up] = "recv"], p)
  BY <1>3 DEF sys_reply, sys_reply_recv
<1>5. Contract!Answer(up, p, m, ret)
  BY <1>1, <1>2, <1>4, AnswerSeen
<1> QED
  BY <1>1, <1>5 DEF Answered

LEMMA StartReplySeen == IInv /\ start_reply => Answered /\ up \in Pid
<1> SUFFICES ASSUME IInv, start_reply PROVE Answered /\ up \in Pid
  OBVIOUS
<1> DEFINE w == label[up].arg
<1>1. up \in Pid /\ state[up] = "oncpu" /\ label[up].at = "s_reply"
  BY RunningFacts DEF start_reply
<1>2. label[up] = At("s_reply", w) /\ w \in Pid
  BY <1>1 DEF IInv, TypeOK, ResumePoints, At
<1>3. AwaitsReplyFrom(w, up)
  BY <1>1, <1>2 DEF IInv, ResumePoints
<1>4. Deliver(w, m_out[up], OK) /\ Schedule(state, w) /\ UNCHANGED waiting_on
  BY <1>3 DEF start_reply
<1>5. state = [state EXCEPT ![up] = "oncpu"]
  BY <1>1 DEF IInv, TypeOK
<1>6. m_out[up] \in Msg /\ OK \in Ret
  BY <1>1, KernAssumption DEF IInv, TypeOK
<1> HIDE DEF w
<1>7. Schedule([state EXCEPT ![up] = "oncpu"], w)
  BY <1>4, <1>5
<1>8. Contract!Answer(up, w, m_out[up], OK)
  BY <1>1, <1>2, <1>3, <1>4, <1>6, <1>7, AnswerSeen
<1> QED
  BY <1>1, <1>2, <1>6, <1>8 DEF Answered

(* The slot proc_new takes is dead while CREATE_LIMIT is not reached. *)
LEMMA CreatedWasDead ==
  IInv /\ sys_proc_create => nextpid \in Pid /\ state[nextpid] = "dead"
<1> SUFFICES ASSUME IInv, sys_proc_create
             PROVE  nextpid \in Pid /\ state[nextpid] = "dead"
  OBVIOUS
<1>1. nextpid \in Pid
  BY DEF IInv, TypeOK
<1>2. nextpid = Len(alive)
  <2>1. /\ Len(alive) \in Nat /\ MAX_PROCS \in Nat
        /\ Len(alive) < CREATE_LIMIT /\ CREATE_LIMIT <= MAX_PROCS
        /\ CREATE_LIMIT \in Int
    BY KernAssumption DEF sys_proc_create, IInv, TypeOK
  <2>2. Len(alive) % MAX_PROCS = Len(alive)
    BY <2>1
  <2> QED
    BY <2>2 DEF IInv, AliveInOrder
<1> QED
  BY <1>1, <1>2 DEF IInv, AliveInOrder, Pid

LEMMA ProcCreateSeen ==
  IInv /\ sys_proc_create => nextpid \in Pid /\ Contract!Born(nextpid)
<1> SUFFICES ASSUME IInv, sys_proc_create
             PROVE  nextpid \in Pid /\ Contract!Born(nextpid)
  OBVIOUS
<1>1. nextpid \in Pid /\ state[nextpid] = "dead"
  BY CreatedWasDead
<1>2. state[nextpid] = "dead"
  BY <1>1
<1>3. \A p \in Pid : state'[p] = IF p = nextpid THEN "ready" ELSE state[p]
  BY DEF sys_proc_create, IInv, TypeOK
<1>4. \A p \in Pid \ {nextpid} : waiting_on'[p] = waiting_on[p] /\ m_out'[p] = m_out[p]
  BY DEF sys_proc_create, IInv, TypeOK
<1>5. \A p \in Pid : SameCall(p)
  BY <1>2, <1>3, <1>4 DEF SameCall
<1>6. RpcCall' = RpcCall
  BY <1>5, AllSameCall
<1>7. RpcCall[nextpid] = Contract!Idle
  BY <1>1, <1>2, CallOf
<1> QED
  BY <1>1, <1>6, <1>7 DEF sys_proc_create, Contract!Born

-----------------------------------------------------------------------------

LEMMA InitSeen == Init => Contract!RpcInit
<1> SUFFICES ASSUME Init PROVE Contract!RpcInit
  OBVIOUS
<1>1. \A p \in Pid : state[p] \notin {"send", "reply"}
  BY DEF Init
<1>2. RpcCall = [p \in Pid |-> Contract!Idle]
  BY <1>1 DEF RpcCall, Calling, Contract!Idle
<1> QED
  BY <1>2 DEF Init, Contract!RpcInit

LEMMA StepSeen == IInv /\ [Next]_vars => [Contract!RpcNext]_Contract!rpcVars
<1> SUFFICES ASSUME IInv, [Next]_vars
             PROVE  Contract!RpcNext \/ UNCHANGED Contract!rpcVars
  OBVIOUS
<1>1. CASE Tick
  BY <1>1, TickUnseen
<1>2. CASE SyscallStep
  <2>1. ASSUME NEW p \in Pid, NEW m \in Msg, sys_send(p, m)
        PROVE  Contract!RpcNext
    BY <2>1, SendSeen, RunningFacts DEF Contract!RpcNext, sys_send, Enter
  <2>2. ASSUME NEW p \in Pid, NEW m \in Msg, NEW ret \in Ret,
               \/ sys_reply(p, m, ret)
               \/ \E rpid \in Pid \cup {PID_ALL} : sys_reply_recv(p, m, ret, rpid)
        PROVE  Contract!RpcNext
    BY <2>2, ReplySeen DEF Answered, Contract!RpcNext
  <2>3. CASE sys_proc_create
    BY <2>3, ProcCreateSeen DEF Contract!RpcNext
  <2> QED
    BY <1>2, <2>1, <2>2, <2>3, QuietUnseen DEF SyscallStep
<1>3. CASE KernelStep
  <2>1. CASE krecv_take
    BY <2>1, KrecvTakeSeen, RunningFacts DEF krecv_take, Contract!RpcNext
  <2>2. CASE start_copy
    BY <2>2, StartCopySeen, RunningFacts DEF start_copy, Contract!RpcNext
  <2>3. CASE start_reply
    BY <2>3, StartReplySeen DEF Answered, Contract!RpcNext
  <2> QED
    BY <1>3, <2>1, <2>2, <2>3, QuietUnseen, StartUnseen, RecvBlockUnseen,
       StartSchedUnseen DEF KernelStep
<1>4. CASE UNCHANGED vars
  <2>1. \A p \in Pid : SameCall(p)
    BY <1>4 DEF vars, page, SameCall
  <2> QED
    BY <1>4, <2>1, StutterStep DEF vars, page
<1> QED
  BY <1>1, <1>2, <1>3, <1>4 DEF Next

(* The kernel implements the message-passing contract: every call is taken *)
(* once, by the process it was sent to, with the message it was sent with, *)
(* and answered once, by that process; for any number of processes and     *)
(* queue nodes, any workload, and ticks wherever they may fall.            *)
THEOREM SpecImplementsRpc == Spec => ImplementsRpc
<1>1. Init => Contract!RpcInit
  BY InitSeen
<1>2. IInv /\ [Next]_vars => [Contract!RpcNext]_Contract!rpcVars
  BY StepSeen
<1> QED
  BY <1>1, <1>2, SpecIInv, PTL DEF Spec, ImplementsRpc, Contract!RpcSpec

-----------------------------------------------------------------------------
(* The sequences of this model are the queues of SenderQueues, which the   *)
(* linked lists of ProcList implement as well: the two models agree on     *)
(* what the lists of senders do.                                           *)

InStart == {p \in Pid : label[p].at \in {"s_recv", "s_block", "s_sched", "s_copy"}}

Queues == INSTANCE SenderQueues WITH
            Client <- Pid, queue <- waiting, starting <- InStart

(* The instance means the same by its operators on sequences. *)
LEMMA SameOperators ==
  ASSUME NEW s, NEW k, NEW pid
  PROVE  /\ Queues!ToSet(s) = ToSet(s)
         /\ Queues!RemoveAt(s, k) = RemoveAt(s, k)
         /\ Queues!Picked(s, pid) = Picked(s, pid)
  BY DEF Queues!ToSet, ToSet, Queues!RemoveAt, RemoveAt, Queues!Picked, Picked,
         Queues!SelectInSeq, SelectInSeq, Queues!Min, Min

(* A step that moves at most one process on, and not across the end of     *)
(* krecv in proc_start, leaves the same processes in it.                   *)
LEMMA StillInStart ==
  ASSUME IInv, NEW p \in Pid, NEW l, label' = [label EXCEPT ![p] = l],
         l.at \in {"s_recv", "s_block", "s_sched", "s_copy"} <=> p \in InStart
  PROVE  InStart' = InStart
<1>1. \A q \in Pid : label'[q] = IF q = p THEN l ELSE label[q]
  BY DEF IInv, TypeOK
<1>2. \A q \in Pid : q \in InStart' <=> q \in InStart
  BY <1>1 DEF InStart
<1> QED
  BY <1>2 DEF InStart

(* What the system calls but send, and the rest of the kernel, leave alone.*)
LEMMA QueuesUnseen ==
  ASSUME IInv,
         \/ Tick
         \/ \E p \in Pid, m \in Msg :
              sys_send_dead(p, m) \/ sys_send_full(p, m) \/ sys_reply_err(p, m)
         \/ \E pid \in Pid \cup {PID_ALL} : sys_recv(pid)
         \/ \E p \in Pid, m \in Msg, ret \in Ret :
              \/ sys_reply(p, m, ret)
              \/ \E rpid \in Pid \cup {PID_ALL} : sys_reply_recv(p, m, ret, rpid)
         \/ ksend_return \/ krecv_block \/ kreply_return
         \/ start_block \/ start_sched \/ start_reply \/ drop_to_user
  PROVE  UNCHANGED Queues!queueVars
<1>1. waiting' = waiting
  BY DEF Tick, sys_send_dead, sys_send_full, sys_reply_err, sys_recv, sys_reply,
     sys_reply_recv, ksend_return, krecv_block, kreply_return, start_block,
     start_sched, start_reply, drop_to_user
<1>2. CASE label' = label
  BY <1>1, <1>2 DEF InStart, Queues!queueVars
<1>3. ASSUME NEW a \in {"user", "krecv", "kreply", "s_drop"}, NEW x,
             label' = [label EXCEPT ![up] = At(a, x)],
             \/ Running("user") \/ Running("ksend") \/ Running("kreply")
             \/ Running("s_reply") \/ Running("s_drop") \/ Running("start0")
      PROVE  UNCHANGED Queues!queueVars
  <2>2. up \in Pid /\ up \notin InStart
    BY <1>3, RunningFacts DEF InStart
  <2>3. At(a, x).at = a
    BY AtFacts
  <2>4. InStart' = InStart
    BY <1>3, <2>2, <2>3, StillInStart
  <2> QED
    BY <1>1, <2>4 DEF Queues!queueVars
<1>4. CASE start_block \/ start_sched
  <2>1. PICK a \in {"s_recv", "s_sched"} : label' = [label EXCEPT ![up] = At(a, PID_ALL)]
    BY <1>4 DEF start_block, start_sched, Continue
  <2>2. up \in Pid /\ up \in InStart
    BY <1>4, RunningFacts DEF InStart, start_block, start_sched
  <2>3. At(a, PID_ALL).at = a
    BY AtFacts
  <2>4. InStart' = InStart
    BY <2>1, <2>2, <2>3, StillInStart
  <2> QED
    BY <1>1, <2>4 DEF Queues!queueVars
<1>5. Tick \/ krecv_block => label' = label
  BY DEF Tick, krecv_block
<1>6. ASSUME \/ \E p \in Pid, m \in Msg :
                  sys_send_dead(p, m) \/ sys_send_full(p, m) \/ sys_reply_err(p, m)
             \/ \E pid \in Pid \cup {PID_ALL} : sys_recv(pid)
             \/ \E p \in Pid, m \in Msg, ret \in Ret :
                  \/ sys_reply(p, m, ret)
                  \/ \E rpid \in Pid \cup {PID_ALL} : sys_reply_recv(p, m, ret, rpid)
      PROVE  /\ Running("user")
             /\ \E a \in {"user", "krecv", "kreply"} : \E x : label' = [label EXCEPT ![up] = At(a, x)]
  BY <1>6 DEF sys_send_dead, sys_send_full, sys_reply_err, sys_recv, sys_reply,
     sys_reply_recv, Enter, Return, Continue, User
<1>7. ASSUME ksend_return \/ kreply_return \/ start_reply \/ drop_to_user
      PROVE  /\ Running("ksend") \/ Running("kreply") \/ Running("s_reply")
                  \/ Running("s_drop") \/ Running("start0")
             /\ \E a \in {"user", "s_drop"} : label' = [label EXCEPT ![up] = At(a, PID_ALL)]
  BY <1>7 DEF ksend_return, kreply_return, start_reply, drop_to_user, Return, Continue, User
<1> QED
  BY <1>2, <1>3, <1>4, <1>5, <1>6, <1>7

(* ksend puts its caller, which is in no queue, at the end of one. *)
LEMMA SendJoins ==
  \A p \in Pid, m \in Msg : IInv /\ sys_send(p, m) => Queues!Join(p, up) /\ up \in Pid
<1> SUFFICES ASSUME NEW p \in Pid, NEW m \in Msg, IInv, sys_send(p, m)
             PROVE  Queues!Join(p, up) /\ up \in Pid
  OBVIOUS
<1>1. up \in Pid /\ state[up] = "oncpu" /\ up \notin InStart
  BY RunningFacts DEF sys_send, Enter, InStart
<1>2. InStart' = InStart
  <2>1. label' = [label EXCEPT ![up] = At("ksend", PID_ALL)] /\ At("ksend", PID_ALL).at = "ksend"
    BY AtFacts DEF sys_send, Continue
  <2> QED
    BY <1>1, <2>1, StillInStart
<1>3. ~ Queues!Blocked(up)
  <2> SUFFICES ASSUME NEW q \in Pid, up \in ToSet(waiting[q]) PROVE FALSE
    BY SameOperators DEF Queues!Blocked
  <2>1. waiting[q] \in Seq(Pid)
    BY DEF IInv, TypeOK
  <2>2. PICK i \in 1 .. Len(waiting[q]) : waiting[q][i] = up
    BY <2>1 DEF ToSet
  <2>3. state[waiting[q][i]] = "send"
    BY DEF IInv, QueueConsistent, QueuedAreSenders
  <2> QED
    BY <1>1, <2>2, <2>3
<1> QED
  BY <1>1, <1>2, <1>3 DEF sys_send, Queues!Join

(* krecv takes the sender that proc_list_remove picks. *)
LEMMA TakeReceives ==
  IInv /\ krecv_take => up \in Pid /\ \E pid \in Pid \cup {-1} : Queues!Receive(up, pid)
<1> SUFFICES ASSUME IInv, krecv_take
             PROVE  up \in Pid /\ \E pid \in Pid \cup {-1} : Queues!Receive(up, pid)
  OBVIOUS
<1>1. up \in Pid /\ up \notin InStart
  BY RunningFacts DEF krecv_take, InStart
<1>2. InStart' = InStart
  <2>1. label' = [label EXCEPT ![up] = User] /\ User.at = "user"
    BY AtFacts DEF krecv_take, Return, Continue, User
  <2> QED
    BY <1>1, <2>1, StillInStart
<1>3. label[up].arg \in Pid \cup {-1}
  BY <1>1 DEF IInv, TypeOK, PID_ALL
<1>4. Queues!Picked(waiting[up], label[up].arg) = Picked(waiting[up], label[up].arg)
  BY SameOperators
<1>5. waiting' = [waiting EXCEPT ![up] =
                    Queues!RemoveAt(waiting[up], Picked(waiting[up], label[up].arg))]
  BY SameOperators DEF krecv_take, Unlink
<1>6. Queues!Receive(up, label[up].arg)
  BY <1>1, <1>2, <1>4, <1>5 DEF krecv_take, Queues!Receive
<1> QED
  BY <1>1, <1>3, <1>6

(* proc_start takes the newest, or finds nobody. *)
LEMMA StartReceives ==
  IInv /\ start_recv =>
    \/ UNCHANGED Queues!queueVars
    \/ up \in Pid /\ \E i \in 1 .. Len(waiting[up]) : Queues!FirstReceive(up, i)
<1> SUFFICES ASSUME IInv, start_recv
             PROVE  \/ UNCHANGED Queues!queueVars
                    \/ up \in Pid /\ \E i \in 1 .. Len(waiting[up]) : Queues!FirstReceive(up, i)
  OBVIOUS
<1>1. up \in Pid /\ up \in InStart
  BY RunningFacts DEF start_recv, InStart
<1>2. CASE waiting[up] = <<>>
  <2>1. /\ label' = [label EXCEPT ![up] = At("s_block", PID_ALL)] /\ waiting' = waiting
        /\ At("s_block", PID_ALL).at = "s_block"
    BY <1>2, AtFacts DEF start_recv, Continue
  <2>2. InStart' = InStart
    BY <1>1, <2>1, StillInStart
  <2> QED
    BY <2>1, <2>2 DEF Queues!queueVars
<1>3. CASE waiting[up] # <<>>
  <2> DEFINE i == Picked(waiting[up], PID_ALL)
  <2>1. /\ label' = [label EXCEPT ![up] = At("s_copy", waiting[up][i])]
        /\ waiting' = [waiting EXCEPT ![up] = RemoveAt(@, i)]
        /\ At("s_copy", waiting[up][i]).at = "s_copy"
    BY <1>3, AtFacts DEF start_recv, Continue, Unlink
  <2>2. i \in 1 .. Len(waiting[up])
    BY <1>1, <1>3, PickedFacts DEF IInv, TypeOK
  <2> HIDE DEF i
  <2>3. InStart' = InStart
    BY <1>1, <2>1, StillInStart
  <2>4. waiting' = [waiting EXCEPT ![up] = Queues!RemoveAt(waiting[up], i)]
    BY <2>1, SameOperators
  <2>5. Queues!FirstReceive(up, i)
    BY <1>1, <2>3, <2>4 DEF Queues!FirstReceive
  <2> QED
    BY <1>1, <2>2, <2>5
<1> QED
  BY <1>2, <1>3

LEMMA CopyStarts == IInv /\ start_copy => up \in Pid /\ Queues!Started(up)
<1> SUFFICES ASSUME IInv, start_copy PROVE up \in Pid /\ Queues!Started(up)
  OBVIOUS
<1>1. up \in Pid
  BY RunningFacts DEF start_copy
<1>2. PICK w : label' = [label EXCEPT ![up] = At("s_reply", w)]
  BY DEF start_copy, Continue
<1>3. \A q \in Pid : label'[q] = IF q = up THEN At("s_reply", w) ELSE label[q]
  BY <1>2 DEF IInv, TypeOK
<1>4. At("s_reply", w).at = "s_reply"
  BY AtFacts
<1>5. InStart' = InStart \ {up}
  <2>1. \A q \in Pid : q \in InStart' <=> q \in InStart \ {up}
    BY <1>1, <1>3, <1>4 DEF InStart
  <2> QED
    BY <2>1 DEF InStart
<1> QED
  BY <1>1, <1>5 DEF start_copy, Queues!Started

(* proc_new takes a slot nobody is queued at, whose label it restores. *)
LEMMA ProcCreateUnseen == IInv /\ sys_proc_create => UNCHANGED Queues!queueVars
<1> SUFFICES ASSUME IInv, sys_proc_create PROVE UNCHANGED Queues!queueVars
  OBVIOUS
<1>1. nextpid \in Pid /\ state[nextpid] = "dead"
  BY CreatedWasDead
<1>2. up \in Pid /\ label[up].at = "user" /\ state[up] = "oncpu"
  BY RunningFacts DEF sys_proc_create, Enter
<1>3. waiting' = waiting
  <2>1. waiting[nextpid] = <<>>
    BY <1>1 DEF IInv, QueueConsistent, NobodyAwaitsDead
  <2> QED
    BY <1>1, <2>1 DEF sys_proc_create, IInv, TypeOK
<1>4. InStart' = InStart
  <2>1. label[nextpid] = At("s_recv", PID_ALL)
    BY <1>1 DEF IInv, ResumePoints
  <2>2. \A q \in Pid : label'[q] = IF q = up THEN User ELSE label[q]
    BY <1>1, <1>2, <2>1 DEF sys_proc_create, IInv, TypeOK
  <2>3. User.at = "user"
    BY AtFacts DEF User
  <2>4. \A q \in Pid : q \in InStart' <=> q \in InStart
    BY <1>2, <2>2, <2>3 DEF InStart
  <2> QED
    BY <2>4 DEF InStart
<1> QED
  BY <1>3, <1>4 DEF Queues!queueVars

(* The lists of senders of Kern are the queues of SenderQueues: a sender   *)
(* joins one queue at its end and leaves it only when the process it waits *)
(* for takes it, the one proc_list_remove picks, whatever the workload.    *)
THEOREM KernImplementsQueues == Spec => Queues!QueuesSpec
<1>1. Init => Queues!QueuesInit
  BY DEF Init, Queues!QueuesInit, InStart
<1>2. IInv /\ [Next]_vars => [Queues!QueuesNext]_Queues!queueVars
  <2> SUFFICES ASSUME IInv, [Next]_vars
               PROVE  Queues!QueuesNext \/ UNCHANGED Queues!queueVars
    OBVIOUS
  <2>1. CASE UNCHANGED vars
    BY <2>1 DEF vars, InStart, Queues!queueVars
  <2>2. ASSUME NEW p \in Pid, NEW m \in Msg, sys_send(p, m) PROVE Queues!QueuesNext
    BY <2>2, SendJoins DEF Queues!QueuesNext
  <2>3. CASE krecv_take
    BY <2>3, TakeReceives DEF Queues!QueuesNext
  <2>4. CASE start_recv
    BY <2>4, StartReceives DEF Queues!QueuesNext
  <2>5. CASE start_copy
    BY <2>5, CopyStarts DEF Queues!QueuesNext
  <2> QED
    BY <2>1, <2>2, <2>3, <2>4, <2>5, QueuesUnseen, ProcCreateUnseen
       DEF Next, SyscallStep, KernelStep
<1> QED
  BY <1>1, <1>2, SpecIInv, PTL DEF Spec, Queues!QueuesSpec

-----------------------------------------------------------------------------
(* The order in which schedule serves the ready processes. *)

(* How many steps along the list, from up and round, until p is met.       *)
Ahead(p) == IF p > up THEN p - up ELSE p - up + Len(alive)

(* The steps in which schedule chooses for itself: a quantum ends, or the  *)
(* process on the CPU blocks and has nobody to hand it to.                 *)
ByTurn ==
  \/ Tick \/ krecv_block \/ start_sched
  \/ \E p \in Pid, m \in Msg : sys_send(p, m) /\ state[p] # "recv"

(* The CPU goes to a process that was waiting for a message or for the     *)
(* answer of the one that had it.                                          *)
HandedOver == up' # nil /\ (state[up'] = "recv" \/ AwaitsReplyFrom(up', up))

(* Whenever schedule chooses, every ready process gets the CPU or moves up *)
(* in the order, so that it is passed over by less than Len(alive) choices *)
(* in a row.  No other step takes the CPU away except to hand it over, and *)
(* none unreadies a process; but a handoff, or a new process, may set      *)
(* others back in the order.                                               *)
RoundRobin ==
  [][/\ ByTurn => \A p \in Pid : state[p] = "ready" =>
          /\ up # nil
          /\ up' = p \/ (state'[p] = "ready" /\ Ahead(p)' < Ahead(p))
     /\ ~ ByTurn =>
          /\ up' = up \/ HandedOver
          /\ \A p \in Pid : state[p] = "ready" => state'[p] = "ready"]_vars

(* next_proc stops at the first ready process it meets. *)
LEMMA NearestReady ==
  ASSUME AliveInOrder, alive \in Seq(Pid), NEW st,
         up \in 0 .. Len(alive) - 1, NEW p \in 0 .. Len(alive) - 1, st[p] = "ready"
  PROVE  /\ NextProc(st) \in 0 .. Len(alive) - 1
         /\ Ahead(NextProc(st)) <= Ahead(p)
<1> DEFINE n     == Len(alive)
           here  == CHOOSE i \in 1 .. n : alive[i] = up
           At_(k) == alive[IF here + k <= n THEN here + k ELSE here + k - n]
           ready == {k \in 1 .. n : st[At_(k)] = "ready"}
           first == CHOOSE k \in ready : \A j \in ready : k <= j
<1>1. n \in Nat /\ up # nil /\ \A i \in 1 .. n : alive[i] = i - 1
  BY KernAssumption DEF AliveInOrder
<1>2. NextProc(st) = IF ready = {} THEN nil ELSE At_(first)
  BY <1>1 DEF NextProc
<1>3. here = up + 1
  <2>1. up + 1 \in 1 .. n /\ alive[up + 1] = up
    BY <1>1
  <2>2. here \in 1 .. n /\ alive[here] = up
    BY <2>1
  <2> QED
    BY <1>1, <2>2
<1> HIDE DEF here
<1>4. ASSUME NEW k \in 1 .. n PROVE At_(k) \in 0 .. n - 1 /\ Ahead(At_(k)) = k
  <2>1. CASE here + k <= n
    <3>1. At_(k) = up + k
      BY <1>1, <1>3, <2>1
    <3> QED
      BY <1>1, <1>3, <2>1, <3>1 DEF Ahead
  <2>2. CASE ~ (here + k <= n)
    <3>1. At_(k) = up + k - n
      BY <1>1, <1>3, <2>2
    <3> QED
      BY <1>1, <1>3, <2>2, <3>1 DEF Ahead
  <2> QED
    BY <2>1, <2>2
<1>5. Ahead(p) \in 1 .. n /\ At_(Ahead(p)) = p
  <2>1. CASE p > up
    <3>1. Ahead(p) = p - up /\ here + Ahead(p) = p + 1 /\ p + 1 \in 1 .. n
      BY <1>1, <1>3, <2>1 DEF Ahead
    <3> QED
      BY <1>1, <1>3, <2>1, <3>1
  <2>2. CASE ~ (p > up)
    <3>1. Ahead(p) = p - up + n /\ here + Ahead(p) = p + 1 + n /\ p + 1 \in 1 .. n
      BY <1>1, <1>3, <2>2 DEF Ahead
    <3> QED
      BY <1>1, <1>3, <2>2, <3>1
  <2> QED
    BY <2>1, <2>2
<1>6. Ahead(p) \in ready
  BY <1>5
<1>7. first \in ready /\ first <= Ahead(p)
  <2>1. ready \subseteq Nat /\ ready # {}
    BY <1>1, <1>6
  <2>2. \E k \in ready : \A j \in ready : k <= j
    BY <2>1, LeastNat
  <2> QED
    BY <1>6, <2>2
<1> HIDE DEF first
<1>8. NextProc(st) = At_(first) /\ first \in 1 .. n
  BY <1>2, <1>6, <1>7
<1> QED
  BY <1>4, <1>7, <1>8

(* A call of schedule(nil) with a process on the CPU. *)
LEMMA ScheduleInTurn ==
  ASSUME IInv, up \in Pid, NEW st, Schedule(st, nil), UNCHANGED alive,
         NEW p \in Pid, state[p] = "ready", st[p] = "ready"
  PROVE  up' = p \/ (state'[p] = "ready" /\ Ahead(p)' < Ahead(p))
<1> DEFINE st1 == YieldCpu(st)
           next == NextProc(st1)
<1>1. alive \in Seq(Pid) /\ AliveInOrder /\ Len(alive) \in Nat
  BY DEF IInv, TypeOK
<1>2. up \in 0 .. Len(alive) - 1 /\ p \in 0 .. Len(alive) - 1 /\ p # up
  <2>1. state[up] \in {"oncpu", "recv"}
    BY DEF IInv, CpuOwnership
  <2> QED
    BY <1>1, <2>1, KernAssumption DEF AliveInOrder, Pid
<1>3. st1[p] = "ready"
  BY <1>2 DEF YieldCpu
<1>4. up' = next /\ state' = IF next = nil THEN st1 ELSE [st1 EXCEPT ![next] = "oncpu"]
  BY DEF Schedule
<1> HIDE DEF st1
<1>5. next \in 0 .. Len(alive) - 1 /\ Ahead(next) <= Ahead(p)
  BY <1>1, <1>2, <1>3, NearestReady
<1> HIDE DEF next
<1>6. next # p => state'[p] = "ready"
  BY <1>3, <1>4
<1>7. next # p => Ahead(p)' < Ahead(p)
  <2>1. Ahead(p)' = IF p > next THEN p - next ELSE p - next + Len(alive)
    BY <1>4 DEF Ahead
  <2> QED
    BY <1>1, <1>2, <1>5, <2>1 DEF Ahead
<1> QED
  BY <1>4, <1>6, <1>7

(* A call of schedule(n) with a process to hand the CPU to. *)
LEMMA HandOver ==
  ASSUME IInv, NEW st \in [Pid -> State], NEW n \in Pid, Schedule(st, n),
         state[n] = "recv" \/ AwaitsReplyFrom(n, up),
         \A p \in Pid : state[p] = "ready" => st[p] = "ready"
  PROVE  /\ up' = n /\ HandedOver
         /\ \A p \in Pid : state[p] = "ready" => state'[p] = "ready"
<1>1. n # nil /\ up' = n
  BY KernAssumption DEF Schedule, Pid
<1>2. state' = [YieldCpu(st) EXCEPT ![n] = "oncpu"]
  BY <1>1 DEF Schedule
<1>3. ASSUME NEW p \in Pid, state[p] = "ready" PROVE state'[p] = "ready"
  <2>1. p # n /\ st[p] = "ready"
    BY <1>3 DEF AwaitsReplyFrom
  <2>2. YieldCpu(st)[p] = "ready"
    BY <2>1 DEF YieldCpu
  <2> QED
    BY <1>2, <2>1, <2>2 DEF YieldCpu
<1> QED
  BY <1>1, <1>3 DEF HandedOver

(* A system call that is no choice of schedule. *)
LEMMA SyscallHandsOver ==
  ASSUME IInv, SyscallStep, ~ ByTurn
  PROVE  /\ up' = up \/ HandedOver
         /\ \A p \in Pid : state[p] = "ready" => state'[p] = "ready"
<1>1. state \in [Pid -> State]
  BY DEF IInv, TypeOK
<1>2. ASSUME NEW p \in Pid, NEW m \in Msg,
             sys_send_dead(p, m) \/ sys_send_full(p, m) \/ sys_reply_err(p, m)
      PROVE  up' = up /\ state' = state
  BY <1>2 DEF sys_send_dead, sys_send_full, sys_reply_err
<1>3. ASSUME NEW p \in Pid, NEW m \in Msg, sys_send(p, m)
      PROVE  HandedOver /\ \A c \in Pid : state[c] = "ready" => state'[c] = "ready"
  <2> DEFINE st == [state EXCEPT ![up] = "send"]
  <2>1. state[p] = "recv" /\ up \in Pid /\ state[up] = "oncpu"
    <3>1. state[p] = "recv"
      BY <1>3 DEF ByTurn
    <3>2. up \in Pid /\ state[up] = "oncpu"
      BY <1>3, RunningFacts DEF sys_send, Enter
    <3> QED
      BY <3>1, <3>2
  <2>2. st \in [Pid -> State] /\ \A c \in Pid : c # up => st[c] = state[c]
    BY <1>1, <2>1 DEF State
  <2>3. Handoff(st, p) = p
    BY <2>1, <2>2 DEF Handoff
  <2>4. Schedule(st, p)
    BY <1>3, <2>3 DEF sys_send
  <2> HIDE DEF st
  <2> QED
    BY <2>1, <2>2, <2>4, HandOver
<1>4. ASSUME NEW pid \in Pid \cup {PID_ALL}, sys_recv(pid) PROVE up' = up /\ state' = state
  BY <1>4 DEF sys_recv
<1>5. ASSUME NEW p \in Pid, NEW m \in Msg, NEW ret \in Ret, sys_reply(p, m, ret)
      PROVE  HandedOver /\ \A c \in Pid : state[c] = "ready" => state'[c] = "ready"
  BY <1>1, <1>5, HandOver DEF sys_reply
<1>6. ASSUME NEW p \in Pid, NEW m \in Msg, NEW ret \in Ret,
             NEW rpid \in Pid \cup {PID_ALL}, sys_reply_recv(p, m, ret, rpid)
      PROVE  HandedOver /\ \A c \in Pid : state[c] = "ready" => state'[c] = "ready"
  <2> DEFINE st == [state EXCEPT ![up] = "recv"]
  <2>1. AwaitsReplyFrom(p, up) /\ Schedule(st, p) /\ state[up] = "oncpu" /\ up \in Pid
    BY <1>6, RunningFacts DEF sys_reply_recv, Enter
  <2>2. st \in [Pid -> State] /\ \A c \in Pid : c # up => st[c] = state[c]
    BY <1>1, <2>1 DEF State
  <2> HIDE DEF st
  <2> QED
    BY <2>1, <2>2, HandOver
<1>7. ASSUME sys_proc_create
      PROVE  up' = up /\ \A c \in Pid : state[c] = "ready" => state'[c] = "ready"
  BY <1>1, <1>7 DEF sys_proc_create
<1> QED
  BY <1>2, <1>3, <1>4, <1>5, <1>6, <1>7 DEF SyscallStep

(* Kernel code that is no choice of schedule. *)
LEMMA KernelHandsOver ==
  ASSUME IInv, KernelStep, ~ ByTurn
  PROVE  /\ up' = up \/ HandedOver
         /\ \A p \in Pid : state[p] = "ready" => state'[p] = "ready"
<1>1. state \in [Pid -> State] /\ label \in [Pid -> [at : Points, arg : Pid \cup {PID_ALL}]]
  BY DEF IInv, TypeOK
<1>2. ASSUME ksend_return \/ kreply_return \/ start_recv \/ drop_to_user
      PROVE  up' = up /\ state' = state
  BY <1>2 DEF ksend_return, kreply_return, start_recv, drop_to_user
<1>3. ASSUME krecv_take
      PROVE  up' = up /\ \A c \in Pid : state[c] = "ready" => state'[c] = "ready"
  <2> DEFINE i == Picked(waiting[up], label[up].arg)
             w == waiting[up][i]
  <2>1. up' = up /\ state' = [state EXCEPT ![w] = "reply"] /\ waiting[up] # <<>> /\ up \in Pid
    BY <1>3, RunningFacts DEF krecv_take
  <2>2. waiting[up] \in Seq(Pid) /\ QueuedAreSenders
    BY <2>1 DEF IInv, TypeOK, QueueConsistent
  <2>3. i \in 1 .. Len(waiting[up])
    BY <2>1, <2>2, PickedFacts
  <2>4. w \in Pid /\ state[w] = "send"
    BY <2>1, <2>2, <2>3 DEF QueuedAreSenders
  <2> HIDE DEF i, w
  <2> QED
    BY <1>1, <2>1, <2>4
<1>4. ASSUME start_block
      PROVE  up' = up /\ \A c \in Pid : state[c] = "ready" => state'[c] = "ready"
  <2>1. up \in Pid /\ state[up] # "ready" /\ up' = up /\ state' = [state EXCEPT ![up] = "recv"]
    BY <1>4, RunningFacts DEF start_block
  <2> QED
    BY <1>1, <2>1
<1>5. ASSUME start_copy
      PROVE  up' = up /\ \A c \in Pid : state[c] = "ready" => state'[c] = "ready"
  <2>1. up \in Pid /\ label[up].at = "s_copy" /\ up' = up
        /\ state' = [state EXCEPT ![label[up].arg] = "reply"]
    BY <1>5, RunningFacts DEF start_copy
  <2>2. label[up].arg \in Pid /\ label[up] = At("s_copy", label[up].arg)
    BY <1>1, <2>1 DEF IInv, ResumePoints, At
  <2>3. state[label[up].arg] = "send"
    BY <2>1, <2>2 DEF IInv, ResumePoints
  <2> QED
    BY <1>1, <2>1, <2>3
<1>6. ASSUME start_reply
      PROVE  /\ up' = up \/ HandedOver
             /\ \A c \in Pid : state[c] = "ready" => state'[c] = "ready"
  <2>1. up \in Pid /\ label[up].arg \in Pid
    BY <1>6, RunningFacts DEF start_reply, IInv, ResumePoints
  <2>2. CASE AwaitsReplyFrom(label[up].arg, up)
    <3>1. Schedule(state, label[up].arg)
      BY <1>6, <2>2 DEF start_reply
    <3> QED
      BY <1>1, <2>1, <2>2, <3>1, HandOver
  <2>3. CASE ~ AwaitsReplyFrom(label[up].arg, up)
    BY <1>6, <2>3 DEF start_reply
  <2> QED
    BY <2>2, <2>3
<1> QED
  BY <1>2, <1>3, <1>4, <1>5, <1>6 DEF KernelStep, ByTurn

(* schedule is fair: what bounds the wait of a ready process, behind the   *)
(* liveness that ReadyRuns asks for.                                       *)
THEOREM SpecRoundRobin == Spec => RoundRobin
<1> DEFINE InTurn ==
       /\ ByTurn => \A p \in Pid : state[p] = "ready" =>
            /\ up # nil
            /\ up' = p \/ (state'[p] = "ready" /\ Ahead(p)' < Ahead(p))
       /\ ~ ByTurn =>
            /\ up' = up \/ HandedOver
            /\ \A p \in Pid : state[p] = "ready" => state'[p] = "ready"
<1>1. ASSUME IInv, ByTurn, NEW p \in Pid, state[p] = "ready"
      PROVE  /\ up # nil
             /\ up' = p \/ (state'[p] = "ready" /\ Ahead(p)' < Ahead(p))
  <2>1. up \in Pid /\ up # nil
    BY <1>1, KernAssumption DEF IInv, TypeOK, IdleOnlyWhenStuck, Proc, Pid
  <2>2. UNCHANGED alive
    BY <1>1 DEF ByTurn, Tick, krecv_block, start_sched, sys_send
  <2>3. CASE Tick \/ start_sched
    BY <1>1, <2>1, <2>2, <2>3, ScheduleInTurn DEF Tick, start_sched
  <2>4. CASE krecv_block
    <3>1. Schedule([state EXCEPT ![up] = "recv"], nil) /\ state[up] = "oncpu"
      BY <1>1, <2>4, RunningFacts DEF krecv_block
    <3>2. [state EXCEPT ![up] = "recv"][p] = "ready"
      BY <1>1, <3>1 DEF IInv, TypeOK
    <3> QED
      BY <1>1, <2>1, <2>2, <3>1, <3>2, ScheduleInTurn
  <2>5. ASSUME NEW q \in Pid, NEW m \in Msg, sys_send(q, m), state[q] # "recv"
        PROVE  up' = p \/ (state'[p] = "ready" /\ Ahead(p)' < Ahead(p))
    <3> DEFINE st == [state EXCEPT ![up] = "send"]
    <3>1. state[up] = "oncpu"
      BY <1>1, <2>5, RunningFacts DEF sys_send, Enter
    <3>2. st[p] = "ready" /\ st[q] # "recv"
      BY <1>1, <2>5, <3>1 DEF IInv, TypeOK
    <3>3. Schedule(st, nil)
      BY <2>5, <3>2 DEF sys_send, Handoff
    <3> HIDE DEF st
    <3> QED
      BY <1>1, <2>1, <2>2, <3>2, <3>3, ScheduleInTurn
  <2> QED
    BY <1>1, <2>1, <2>3, <2>4, <2>5 DEF ByTurn
<1>2. ASSUME IInv, Next, ~ ByTurn
      PROVE  /\ up' = up \/ HandedOver
             /\ \A p \in Pid : state[p] = "ready" => state'[p] = "ready"
  BY <1>2, SyscallHandsOver, KernelHandsOver DEF Next, ByTurn
<1>3. IInv /\ [Next]_vars => [InTurn]_vars
  BY <1>1, <1>2
<1> QED
  BY <1>3, SpecIInv, PTL DEF Spec, RoundRobin
=============================================================================
