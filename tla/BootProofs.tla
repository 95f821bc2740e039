----------------------------- MODULE BootProofs -----------------------------
(***************************************************************************)
(* Proofs about Boot: the programs run on the kernel of Kern, and proc0    *)
(* never answers a process that does not await it.  A program is started   *)
(* by the request proc0 made for it and by no other message, although      *)
(* proc_start takes the first that comes from anybody.                     *)
(***************************************************************************)
EXTENDS Boot, KernProofs

(* The inductive invariant: where proc0 is in the kernel at each of its    *)
(* places, and whom it holds there.                                        *)
Proc0Inv ==
  /\ pc = [p \in Pid |-> pc[p]] /\ rv = [p \in Pid |-> rv[p]]
  /\ pc[0] \in {"create", "start", "serve", "accept", "reply"}
  /\ ret \in Ret
  /\ pc[0] \in {"start", "accept", "reply"} => label[0].at = "user"
  /\ pc[0] = "start" => rv[0] \in Pid
  /\ pc[0] = "serve" =>
       \/ label[0].at = "krecv"
       \/ label[0].at = "user" /\ rv[0] \in Pid /\ AwaitsReplyFrom(rv[0], 0)
  /\ AnswersPending

-----------------------------------------------------------------------------
(* What the kernel does to the callers a server holds: nothing, until the  *)
(* server itself takes a step.                                             *)

KeepsCallers(s) == \A p \in Pid : AwaitsReplyFrom(p, s) => AwaitsReplyFrom(p, s)'

LEMMA SwitchHolds ==
  ASSUME IInv, NEW s \in Pid, NEW st \in [Pid -> State], NEW n \in Proc,
         Schedule(st, n),
         \A p \in Pid : st[p] = "oncpu" => p = up,
         n # nil => ~AwaitsReplyFrom(n, s),
         \A p \in Pid : state[p] = "reply" =>
           st[p] = "reply" /\ waiting_on'[p] = waiting_on[p]
  PROVE  KeepsCallers(s)
<1>1. nil \notin Pid
  BY KernAssumption DEF Pid
<1>2. Switched(st, n)
  BY ScheduleFacts DEF IInv
<1>3. SUFFICES ASSUME NEW p \in Pid, AwaitsReplyFrom(p, s)
               PROVE  state'[p] = "reply" /\ waiting_on'[p] = s
  BY DEF KeepsCallers, AwaitsReplyFrom
<1>4. st[p] = "reply" /\ waiting_on'[p] = s
  BY <1>3 DEF AwaitsReplyFrom
<1>5. up' # p
  BY <1>1, <1>2, <1>3, <1>4 DEF Switched
<1> QED
  BY <1>2, <1>4, <1>5 DEF Switched

LEMMA QuietHolds ==
  ASSUME IInv, NEW s \in Pid, up \in Pid, state[up] = "oncpu", UNCHANGED state,
         \A p \in Pid \ {up} : waiting_on'[p] = waiting_on[p]
  PROVE  KeepsCallers(s)
  BY DEF KeepsCallers, AwaitsReplyFrom

(* A caller that has been queued is taken.                                 *)
LEMMA TakeHolds ==
  ASSUME IInv, NEW s \in Pid, NEW w \in Pid, UNCHANGED waiting_on,
         state' = [state EXCEPT ![w] = "reply"]
  PROVE  KeepsCallers(s)
  BY DEF KeepsCallers, AwaitsReplyFrom, IInv, TypeOK

(* The slot that proc_new takes is nobody's.                               *)
LEMMA SlotIsDead ==
  ASSUME IInv, sys_proc_create
  PROVE  nextpid \in Pid /\ state[nextpid] = "dead"
<1>1. Len(alive) \in Nat /\ Len(alive) < MAX_PROCS
  BY KernAssumption DEF sys_proc_create, IInv, AliveInOrder, TypeOK
<1>2. Len(alive) % MAX_PROCS = Len(alive)
  BY <1>1, KernAssumption
<1>3. nextpid = Len(alive) /\ nextpid \in Pid
  BY <1>2 DEF IInv, TypeOK, AliveInOrder
<1> QED
  BY <1>1, <1>3 DEF IInv, AliveInOrder

LEMMA SyscallHolds ==
  ASSUME IInv, SyscallStep, NEW s \in Pid, up # s
  PROVE  KeepsCallers(s)
<1>1. up \in Pid /\ state[up] = "oncpu"
  BY RunningFacts DEF SyscallStep, Enter, sys_send_dead, sys_send_full, sys_send,
     sys_reply_err, sys_recv, sys_reply, sys_reply_recv, sys_proc_create
<1>2. nil \notin Pid /\ nil \in Proc /\ Pid \subseteq Proc
  BY KernAssumption DEF Pid, Proc
<1>3. state \in [Pid -> State] /\ waiting_on \in [Pid -> Proc]
  BY DEF IInv, TypeOK
<1>4. \A p \in Pid : state[p] = "oncpu" => p = up
  BY DEF IInv, CpuOwnership
<1>5. ASSUME NEW p \in Pid, NEW m \in Msg,
             sys_send_dead(p, m) \/ sys_send_full(p, m) \/ sys_reply_err(p, m)
      PROVE  KeepsCallers(s)
  <2>1. UNCHANGED state /\ \A q \in Pid \ {up} : waiting_on'[q] = waiting_on[q]
    BY <1>3, <1>5 DEF sys_send_dead, sys_send_full, sys_reply_err, WaitOn
  <2> QED
    BY <1>1, <2>1, QuietHolds
<1>6. ASSUME NEW p \in Pid, NEW m \in Msg, sys_send(p, m)
      PROVE  KeepsCallers(s)
  <2> DEFINE st == [state EXCEPT ![up] = "send"]
             n  == Handoff(st, p)
  <2>1. st \in [Pid -> State] /\ \A q \in Pid : st[q] = IF q = up THEN "send" ELSE state[q]
    BY <1>1, <1>3 DEF State
  <2>2. Schedule(st, n) /\ waiting_on' = [waiting_on EXCEPT ![up] = p]
    BY <1>6 DEF sys_send, WaitOn
  <2>3. n \in Proc /\ (n # nil => n = p /\ st[p] = "recv")
    BY <1>2 DEF Handoff
  <2>4. n # nil => ~AwaitsReplyFrom(n, s)
    BY <1>1, <2>1, <2>3 DEF AwaitsReplyFrom
  <2> HIDE DEF st, n
  <2>5. \A q \in Pid : st[q] = "oncpu" => q = up
    BY <1>4, <2>1
  <2>6. \A q \in Pid : state[q] = "reply" =>
          st[q] = "reply" /\ waiting_on'[q] = waiting_on[q]
    BY <1>1, <1>3, <2>1, <2>2
  <2> QED
    BY <2>1, <2>2, <2>3, <2>4, <2>5, <2>6, SwitchHolds
<1>7. ASSUME NEW pid_ \in Pid \cup {PID_ALL}, sys_recv(pid_)
      PROVE  KeepsCallers(s)
  <2>1. UNCHANGED <<state, waiting_on>>
    BY <1>7 DEF sys_recv
  <2> QED
    BY <1>1, <2>1, QuietHolds
<1>8. ASSUME NEW p \in Pid, AwaitsReplyFrom(p, up), UNCHANGED waiting_on,
             NEW t \in {"oncpu", "recv"}, NEW st \in [Pid -> State],
             \A q \in Pid : st[q] = IF q = up THEN t ELSE state[q],
             Schedule(st, p)
      PROVE  KeepsCallers(s)
  <2>1. ~AwaitsReplyFrom(p, s)
    BY <1>8 DEF AwaitsReplyFrom
  <2>2. \A q \in Pid : st[q] = "oncpu" => q = up
    BY <1>4, <1>8
  <2>3. \A q \in Pid : state[q] = "reply" =>
          st[q] = "reply" /\ waiting_on'[q] = waiting_on[q]
    BY <1>1, <1>8
  <2> QED
    BY <1>2, <1>8, <2>1, <2>2, <2>3, SwitchHolds
<1>9. ASSUME NEW p \in Pid, NEW m \in Msg, NEW r \in Ret, sys_reply(p, m, r)
      PROVE  KeepsCallers(s)
  <2>1. AwaitsReplyFrom(p, up) /\ UNCHANGED waiting_on /\ Schedule(state, p)
    BY <1>9 DEF sys_reply
  <2>2. \A q \in Pid : state[q] = IF q = up THEN "oncpu" ELSE state[q]
    BY <1>1
  <2> QED
    BY <1>3, <1>8, <2>1, <2>2
<1>10. ASSUME NEW p \in Pid, NEW m \in Msg, NEW r \in Ret,
              NEW rpid \in Pid \cup {PID_ALL}, sys_reply_recv(p, m, r, rpid)
       PROVE  KeepsCallers(s)
  <2> DEFINE st == [state EXCEPT ![up] = "recv"]
  <2>1. AwaitsReplyFrom(p, up) /\ UNCHANGED waiting_on /\ Schedule(st, p)
    BY <1>10 DEF sys_reply_recv
  <2>2. /\ st \in [Pid -> State]
        /\ \A q \in Pid : st[q] = IF q = up THEN "recv" ELSE state[q]
    BY <1>1, <1>3 DEF State
  <2> HIDE DEF st
  <2> QED
    BY <1>8, <2>1, <2>2
<1>11. CASE sys_proc_create
  <2>1. nextpid \in Pid /\ state[nextpid] # "reply"
    BY <1>11, SlotIsDead
  <2>2. \A p \in Pid \ {nextpid} : state'[p] = state[p] /\ waiting_on'[p] = waiting_on[p]
    BY <1>3, <1>11 DEF sys_proc_create
  <2> QED
    BY <2>1, <2>2 DEF KeepsCallers, AwaitsReplyFrom
<1> QED
  BY <1>5, <1>6, <1>7, <1>9, <1>10, <1>11 DEF SyscallStep

LEMMA KernelHolds ==
  ASSUME IInv, KernelStep, NEW s \in Pid, up # s
  PROVE  KeepsCallers(s)
<1>1. up \in Pid /\ nil \notin Pid /\ nil \in Proc /\ Pid \subseteq Proc
  BY RunningFacts, KernAssumption DEF KernelStep, ksend_return, krecv_take, krecv_block,
     kreply_return, start_recv, start_block, start_sched, start_copy, start_reply,
     drop_to_user, Pid, Proc
<1>2. state \in [Pid -> State] /\ waiting_on \in [Pid -> Proc]
  BY DEF IInv, TypeOK
<1>3. \A p \in Pid : state[p] = "oncpu" => p = up
  BY DEF IInv, CpuOwnership
<1>4. CASE ksend_return \/ kreply_return \/ drop_to_user \/ start_recv
  <2>1. UNCHANGED <<state, waiting_on>>
    BY <1>4 DEF ksend_return, kreply_return, drop_to_user, start_recv
  <2> QED
    BY <2>1 DEF KeepsCallers, AwaitsReplyFrom
<1>5. CASE krecv_take
  <2> DEFINE i == Picked(waiting[up], label[up].arg)
  <2>1. i \in 1 .. Len(waiting[up])
    BY <1>1, <1>5, PickedFacts DEF krecv_take, IInv, TypeOK
  <2>2. /\ state' = [state EXCEPT ![waiting[up][i]] = "reply"]
        /\ UNCHANGED waiting_on
    BY <1>5 DEF krecv_take
  <2> HIDE DEF i
  <2>3. waiting[up][i] \in Pid
    BY <1>1, <2>1 DEF IInv, TypeOK
  <2> QED
    BY <2>2, <2>3, TakeHolds
<1>6. CASE krecv_block
  <2> DEFINE st == [state EXCEPT ![up] = "recv"]
  <2>1. state[up] = "oncpu"
    BY <1>6, RunningFacts DEF krecv_block
  <2>2. Schedule(st, nil) /\ UNCHANGED waiting_on
    BY <1>6 DEF krecv_block
  <2>3. st \in [Pid -> State] /\ \A q \in Pid : st[q] = IF q = up THEN "recv" ELSE state[q]
    BY <1>1, <1>2 DEF State
  <2> HIDE DEF st
  <2>4. /\ \A q \in Pid : st[q] = "oncpu" => q = up
        /\ \A q \in Pid : state[q] = "reply" => st[q] = "reply" /\ waiting_on'[q] = waiting_on[q]
    BY <1>3, <2>1, <2>2, <2>3
  <2> QED
    BY <1>1, <2>2, <2>3, <2>4, SwitchHolds
<1>7. CASE start_block
  <2>1. state[up] = "oncpu" /\ state' = [state EXCEPT ![up] = "recv"] /\ UNCHANGED waiting_on
    BY <1>7, RunningFacts DEF start_block
  <2> QED
    BY <1>1, <1>2, <2>1 DEF KeepsCallers, AwaitsReplyFrom
<1>8. CASE start_sched
  <2>1. Schedule(state, nil) /\ UNCHANGED waiting_on
    BY <1>8 DEF start_sched
  <2> QED
    BY <1>1, <1>2, <1>3, <2>1, SwitchHolds
<1>9. CASE start_copy
  <2>1. label[up].arg \in Pid
    BY <1>1, <1>9 DEF start_copy, Running, IInv, ResumePoints
  <2>2. state' = [state EXCEPT ![label[up].arg] = "reply"] /\ UNCHANGED waiting_on
    BY <1>9 DEF start_copy
  <2> QED
    BY <2>1, <2>2, TakeHolds
<1>10. CASE start_reply
  <2> DEFINE w == label[up].arg
  <2>1. w \in Pid /\ UNCHANGED waiting_on
    BY <1>1, <1>10 DEF start_reply, Running, IInv, ResumePoints
  <2>2. \/ AwaitsReplyFrom(w, up) /\ Schedule(state, w)
        \/ UNCHANGED state
    BY <1>10 DEF start_reply
  <2> HIDE DEF w
  <2>3. AwaitsReplyFrom(w, up) => ~AwaitsReplyFrom(w, s)
    BY DEF AwaitsReplyFrom
  <2> QED
    BY <1>1, <1>2, <1>3, <2>1, <2>2, <2>3, SwitchHolds DEF KeepsCallers, AwaitsReplyFrom
<1> QED
  BY <1>4, <1>5, <1>6, <1>7, <1>8, <1>9, <1>10 DEF KernelStep

LEMMA TickHolds == ASSUME IInv, Tick, NEW s \in Pid PROVE KeepsCallers(s)
<1>1. /\ state \in [Pid -> State] /\ nil \in Proc
      /\ \A p \in Pid : state[p] = "oncpu" => p = up
  BY DEF IInv, TypeOK, CpuOwnership, Proc
<1>2. Schedule(state, nil) /\ UNCHANGED waiting_on
  BY DEF Tick
<1> QED
  BY <1>1, <1>2, SwitchHolds

(* The place of a process is moved by nobody but itself.                   *)
LEMMA PlaceKept ==
  ASSUME IInv, Next, NEW s \in Pid, Tick \/ up # s, state[s] # "dead"
  PROVE  label'[s] = label[s]
<1>1. label \in [Pid -> [at : Points, arg : Pid \cup {PID_ALL}]]
  BY DEF IInv, TypeOK
<1>2. CASE Tick
  BY <1>2 DEF Tick
<1>3. CASE KernelStep /\ up # s
  BY <1>1, <1>3 DEF KernelStep, ksend_return, krecv_take, krecv_block,
     kreply_return, start_recv, start_block, start_sched, start_copy, start_reply,
     drop_to_user, Return, Continue
<1>4. CASE SyscallStep /\ ~sys_proc_create /\ up # s
  BY <1>1, <1>4 DEF SyscallStep, sys_send_dead, sys_send_full, sys_send,
     sys_reply_err, sys_recv, sys_reply, sys_reply_recv, Return, Continue
<1>5. CASE sys_proc_create /\ up # s
  <2>1. s # nextpid
    BY <1>5, SlotIsDead
  <2> QED
    BY <1>1, <1>5, <2>1 DEF sys_proc_create
<1> QED
  BY <1>2, <1>3, <1>4, <1>5 DEF Next

(* A caller that has been taken is released only by the process that took  *)
(* it: no step of another process, and no tick, ends its wait.             *)
LEMMA OnlyHolderReleases ==
  ASSUME IInv, Next, NEW s \in Pid, Tick \/ up # s
  PROVE  KeepsCallers(s)
  BY SyscallHolds, KernelHolds, TickHolds DEF Next

-----------------------------------------------------------------------------
(* proc0 is created before anything else and stays.                        *)
LEMMA ZeroPid == 0 \in Pid /\ (IInv => state[0] # "dead")
<1>1. 0 \in Pid
  BY KernAssumption DEF Pid
<1>2. ASSUME IInv PROVE state[0] # "dead"
  <2>1. Len(alive) \in Nat /\ Len(alive) >= 1
    BY <1>2, KernAssumption DEF IInv, AliveInOrder
  <2> QED
    BY <1>1, <1>2, <2>1 DEF IInv, AliveInOrder
<1> QED
  BY <1>1, <1>2

(* A step of the programs is a step of the kernel.                         *)
LEMMA StepIsKern == IInv /\ Proc0Inv /\ [BootNext]_bootVars => [Next]_vars
<1> SUFFICES ASSUME IInv, Proc0Inv, BootNext PROVE [Next]_vars
  BY DEF bootVars
<1>1. /\ 0 \in Pid /\ InitMsg \in Msg /\ AddrMsg \in Msg /\ m_out[0] \in Msg
      /\ ret \in Ret
  BY ZeroPid, BootAssumption DEF IInv, TypeOK, Proc0Inv
<1>2. CASE InKernel
  BY <1>2 DEF InKernel, Next
<1>3. CASE BootTick
  BY <1>3 DEF BootTick, Next
<1>4. ASSUME NEW q \in Pid, NEW x \in Msg, Send(q, x) PROVE SyscallStep
  BY <1>4 DEF Send, SyscallStep
<1>5. CASE p0_start
  <2>1. rv[0] \in Pid
    BY <1>5 DEF p0_start, AtUser, Proc0Inv
  <2> QED
    BY <1>1, <1>4, <1>5, <2>1 DEF p0_start, StartMsg, Next
<1>6. CASE p0_create \/ p0_recv
  BY <1>6 DEF p0_create, p0_recv, SyscallStep, Next
<1>7. CASE p0_reply
  <2>1. pid \in Pid
    BY <1>7 DEF p0_reply, AtUser, Proc0Inv, AnswersPending
  <2>2. sys_reply_recv(pid, m_out[0], ret, PID_ALL) \/ sys_reply_err(pid, m_out[0])
    BY <1>7 DEF p0_reply
  <2> QED
    BY <1>1, <2>1, <2>2 DEF SyscallStep, Next
<1>8. CASE p0_serve \/ p0_accept
  BY <1>8 DEF p0_serve, p0_accept, Keeps
<1>9. ASSUME NEW p \in Uarts, UartStep(p) PROVE [Next]_vars
  BY <1>1, <1>4, <1>9 DEF UartStep, uart_offer, uart_call, uart_check, Keeps, Next
<1> QED
  BY <1>2, <1>3, <1>5, <1>6, <1>7, <1>8, <1>9 DEF BootNext, Proc0Step

(* What a step of another process, or a tick, leaves of proc0.             *)
LEMMA OthersKeepProc0 ==
  ASSUME IInv, Proc0Inv, [Next]_vars, Tick \/ up # 0,
         pc'[0] = pc[0], rv'[0] = rv[0], UNCHANGED <<pid, ret>>,
         pc' = [p \in Pid |-> pc'[p]], rv' = [p \in Pid |-> rv'[p]]
  PROVE  Proc0Inv'
<1>1. 0 \in Pid /\ state[0] # "dead"
  BY ZeroPid
<1>2. label'[0] = label[0] /\ KeepsCallers(0)
  <2>1. CASE Next
    BY <1>1, <2>1, PlaceKept, OnlyHolderReleases
  <2>2. CASE UNCHANGED vars
    BY <2>2 DEF vars, KeepsCallers, AwaitsReplyFrom
  <2> QED
    BY <2>1, <2>2
<1> QED
  BY <1>2 DEF Proc0Inv, AnswersPending, KeepsCallers

LEMMA ReturnedFacts ==
  ASSUME Proc0Inv, Returned, up \in Pid
  PROVE  /\ rv' = [p \in Pid |-> rv'[p]]
         /\ \A p \in Pid \ {up} : rv'[p] = rv[p]
         /\ rv'[up] = IF label'[up].at = "user" THEN r0' ELSE rv[up]
  BY DEF Returned, Proc0Inv

LEMMA GotoFacts ==
  ASSUME Proc0Inv, NEW where, Goto(where), up \in Pid
  PROVE  /\ pc' = [p \in Pid |-> pc'[p]]
         /\ pc'[up] = where
         /\ \A p \in Pid \ {up} : pc'[p] = pc[p]
  BY DEF Goto, Proc0Inv

(* proc0's own kernel steps: only its recv can lead to a request.          *)
LEMMA Proc0InKernel ==
  ASSUME IInv, Proc0Inv, InKernel, up = 0
  PROVE  Proc0Inv'
<1>1. /\ 0 \in Pid /\ UNCHANGED <<pc, pid, ret>> /\ Returned
      /\ label \in [Pid -> [at : Points, arg : Pid \cup {PID_ALL}]]
  BY KernAssumption DEF Pid, InKernel, proc0Vars, IInv, TypeOK
<1>2. label[0].at # "user"
  BY DEF InKernel, KernelStep, ksend_return, krecv_take, krecv_block,
     kreply_return, start_recv, start_block, start_sched, start_copy,
     start_reply, drop_to_user, Running
<1>3. pc[0] \in {"create", "serve"} /\ pc' = pc
  BY <1>1, <1>2 DEF Proc0Inv
<1>4. /\ rv' = [p \in Pid |-> rv'[p]]
      /\ rv'[0] = IF label'[0].at = "user" THEN r0' ELSE rv[0]
  BY <1>1, ReturnedFacts
<1>5. CASE pc[0] = "create"
  BY <1>1, <1>3, <1>4, <1>5 DEF Proc0Inv, AnswersPending
<1>6. CASE pc[0] = "serve"
  <2>1. label[0].at = "krecv"
    BY <1>2, <1>6 DEF Proc0Inv
  <2>2. krecv_take \/ krecv_block
    BY <2>1 DEF InKernel, KernelStep, ksend_return, kreply_return, start_recv,
       start_block, start_sched, start_copy, start_reply, drop_to_user, Running
  <2>3. CASE krecv_block
    <3>1. label' = label
      BY <2>3 DEF krecv_block
    <3> QED
      BY <1>1, <1>3, <1>4, <1>6, <2>1, <3>1 DEF Proc0Inv, AnswersPending
  <2>4. CASE krecv_take
    <3> DEFINE k == Picked(waiting[0], label[0].arg)
    <3>1. /\ waiting[0] # <<>>
          /\ state' = [state EXCEPT ![waiting[0][k]] = "reply"]
          /\ label' = [label EXCEPT ![0] = User] /\ r0' = waiting[0][k]
          /\ UNCHANGED waiting_on
      BY <2>4 DEF krecv_take, Return, Continue
    <3>2. k \in 1 .. Len(waiting[0])
      BY <1>1, <3>1, PickedFacts DEF IInv, TypeOK
    <3> HIDE DEF k
    <3>3. PICK w \in Pid : w = waiting[0][k] /\ waiting_on[w] = 0
      BY <1>1, <3>2 DEF IInv, TypeOK, QueueConsistent, QueuedAreSenders
    <3>4. label'[0].at = "user" /\ rv'[0] = w /\ AwaitsReplyFrom(w, 0)'
      <4>1. label'[0] = User /\ User.at = "user"
        BY <1>1, <3>1 DEF User, At
      <4>2. state'[w] = "reply" /\ waiting_on'[w] = 0
        BY <3>1, <3>3 DEF IInv, TypeOK
      <4> QED
        BY <1>4, <3>1, <3>3, <4>1, <4>2 DEF AwaitsReplyFrom
    <3> QED
      BY <1>1, <1>3, <1>4, <1>6, <3>3, <3>4 DEF Proc0Inv, AnswersPending
  <2> QED
    BY <2>2, <2>3, <2>4
<1> QED
  BY <1>3, <1>5, <1>6

-----------------------------------------------------------------------------
(* proc0's program.                                                        *)

LEMMA CreateKeeps == ASSUME IInv, Proc0Inv, p0_create PROVE Proc0Inv'
<1>1. up = 0 /\ 0 \in Pid /\ label[0].at = "user" /\ sys_proc_create
  BY ZeroPid DEF p0_create, AtUser, Running
<1>2. UNCHANGED <<pid, ret>> /\ Goto("start") /\ Returned
  BY DEF p0_create, proc0Vars
<1>3. /\ label' = [label EXCEPT ![nextpid] = At("s_recv", PID_ALL), ![0] = User]
      /\ r0' = nextpid /\ nextpid \in Pid
  BY <1>1, SlotIsDead DEF sys_proc_create
<1>4. label'[0].at = "user"
  BY <1>1, <1>3 DEF IInv, TypeOK, User, At
<1>5. rv'[0] \in Pid /\ rv' = [p \in Pid |-> rv'[p]]
  BY <1>1, <1>2, <1>3, <1>4, ReturnedFacts
<1>6. pc'[0] = "start" /\ pc' = [p \in Pid |-> pc'[p]]
  BY <1>1, <1>2, GotoFacts
<1> QED
  BY <1>2, <1>4, <1>5, <1>6 DEF Proc0Inv, AnswersPending

LEMMA StartKeeps == ASSUME IInv, Proc0Inv, p0_start PROVE Proc0Inv'
<1>1. /\ up = 0 /\ 0 \in Pid
      /\ UNCHANGED <<pid, ret>> /\ Goto("create") /\ Returned
  BY ZeroPid DEF p0_start, AtUser, Send
<1>2. rv' = [p \in Pid |-> rv'[p]]
  BY <1>1, ReturnedFacts
<1>3. pc'[0] = "create" /\ pc' = [p \in Pid |-> pc'[p]]
  BY <1>1, GotoFacts
<1> QED
  BY <1>1, <1>2, <1>3 DEF Proc0Inv, AnswersPending

LEMMA RecvKeeps == ASSUME IInv, Proc0Inv, p0_recv PROVE Proc0Inv'
<1>1. /\ up = 0 /\ 0 \in Pid /\ label' = [label EXCEPT ![0] = At("krecv", PID_ALL)]
      /\ UNCHANGED <<pid, ret>> /\ Goto("serve") /\ Returned
  BY ZeroPid DEF p0_recv, AtUser, sys_recv, Continue, proc0Vars
<1>2. rv' = [p \in Pid |-> rv'[p]]
  BY <1>1, ReturnedFacts
<1>3. pc'[0] = "serve" /\ pc' = [p \in Pid |-> pc'[p]]
  BY <1>1, GotoFacts
<1>4. label'[0].at = "krecv"
  BY <1>1 DEF At, IInv, TypeOK
<1> QED
  BY <1>1, <1>2, <1>3, <1>4 DEF Proc0Inv, AnswersPending

(* The program takes the pid that recv or reply_recv returned.             *)
LEMMA ServeKeeps == ASSUME IInv, Proc0Inv, p0_serve PROVE Proc0Inv'
<1>1. /\ up = 0 /\ 0 \in Pid /\ label[0].at = "user" /\ pc[0] = "serve"
      /\ pid' = rv[0] /\ rv' = rv /\ ret' \in {ret, ERR}
      /\ UNCHANGED <<state, waiting_on, label>>
  BY ZeroPid DEF p0_serve, AtUser, Running, Caller, Keeps, vars
<1>2. rv[0] \in Pid /\ AwaitsReplyFrom(rv[0], 0)
  BY <1>1 DEF Proc0Inv
<1>3. pc'[0] \in {"accept", "reply"} /\ pc' = [p \in Pid |-> pc'[p]]
  BY <1>1, GotoFacts DEF p0_serve
<1>4. ret' \in Ret
  BY <1>1, BootAssumption DEF Proc0Inv
<1>5. pid' \in Pid /\ state[pid'] = "reply" /\ waiting_on[pid'] = 0
  BY <1>1, <1>2 DEF AwaitsReplyFrom
<1>6. AnswersPending'
  BY <1>1, <1>5 DEF AnswersPending, AwaitsReplyFrom
<1> QED
  BY <1>1, <1>3, <1>4, <1>6 DEF Proc0Inv

LEMMA AcceptKeeps == ASSUME IInv, Proc0Inv, p0_accept PROVE Proc0Inv'
<1>1. /\ up = 0 /\ 0 \in Pid /\ pc[0] = "accept" /\ pid' = pid /\ ret' = rv'[0]
      /\ Goto("reply") /\ UNCHANGED <<state, waiting_on, label>>
      /\ sys_addr_accept(pid, 1, {"read", "write"})
  BY ZeroPid DEF p0_accept, AtUser, Keeps, vars
<1>2. Yields(OK) \/ Yields(ERR)
  BY <1>1 DEF sys_addr_accept
<1>3. rv' = [p \in Pid |-> rv'[p]] /\ rv'[0] \in Ret
  BY <1>1, <1>2, KernAssumption, BootAssumption DEF Yields, Proc0Inv
<1>4. pc'[0] = "reply" /\ pc' = [p \in Pid |-> pc'[p]]
  BY <1>1, GotoFacts
<1>5. AnswersPending'
  BY <1>1 DEF Proc0Inv, AnswersPending, AwaitsReplyFrom
<1> QED
  BY <1>1, <1>3, <1>4, <1>5 DEF Proc0Inv

(* The reply finds its caller waiting, so it does not fail and is followed *)
(* by the wait for the next request.                                       *)
LEMMA ReplyKeeps == ASSUME IInv, Proc0Inv, p0_reply PROVE Proc0Inv'
<1>1. /\ up = 0 /\ 0 \in Pid /\ pc[0] = "reply"
      /\ UNCHANGED <<pid, ret>> /\ Goto("serve") /\ Returned
      /\ sys_reply_recv(pid, m_out[0], ret, PID_ALL) \/ sys_reply_err(pid, m_out[0])
  BY ZeroPid DEF p0_reply, AtUser, proc0Vars
<1>2. AwaitsReplyFrom(pid, up)
  BY <1>1 DEF Proc0Inv, AnswersPending
<1>3. label' = [label EXCEPT ![0] = At("krecv", PID_ALL)]
  BY <1>1, <1>2 DEF sys_reply_recv, sys_reply_err, Continue
<1>4. label'[0].at = "krecv"
  BY <1>1, <1>3 DEF At, IInv, TypeOK
<1>5. rv' = [p \in Pid |-> rv'[p]]
  BY <1>1, ReturnedFacts
<1>6. pc'[0] = "serve" /\ pc' = [p \in Pid |-> pc'[p]]
  BY <1>1, GotoFacts
<1> QED
  BY <1>1, <1>4, <1>5, <1>6 DEF Proc0Inv, AnswersPending

-----------------------------------------------------------------------------
LEMMA UartKeeps ==
  ASSUME IInv, Proc0Inv, [Next]_vars, NEW p \in Uarts, UartStep(p)
  PROVE  Proc0Inv'
<1>1. up = p /\ up \in Pid /\ up # 0 /\ UNCHANGED <<pid, ret>>
  BY DEF UartStep, uart_offer, uart_call, uart_check, AtUser, Uarts, proc0Vars
<1>2. /\ rv' = [q \in Pid |-> rv'[q]]
      /\ \A q \in Pid \ {up} : rv'[q] = rv[q]
  BY <1>1, ReturnedFacts DEF UartStep, uart_offer, uart_call, uart_check,
     sys_addr_offer, Yields, Send, Proc0Inv
<1>3. /\ pc' = [q \in Pid |-> pc'[q]]
      /\ \A q \in Pid \ {up} : pc'[q] = pc[q]
  BY <1>1, GotoFacts DEF UartStep, uart_offer, uart_call, uart_check
<1> QED
  BY <1>1, <1>2, <1>3, ZeroPid, OthersKeepProc0

LEMMA InitProc0Inv == BootInit => IInv /\ Proc0Inv
  BY InitIInv, ZeroPid, KernAssumption DEF BootInit, Proc0Inv, AnswersPending

LEMMA NextProc0Inv ==
  IInv /\ Proc0Inv /\ [BootNext]_bootVars => IInv' /\ Proc0Inv'
<1> SUFFICES ASSUME IInv, Proc0Inv, [BootNext]_bootVars PROVE IInv' /\ Proc0Inv'
  OBVIOUS
<1>1. [Next]_vars
  BY StepIsKern
<1>2. IInv'
  BY <1>1, NextIInv
<1> SUFFICES Proc0Inv'
  BY <1>2
<1>3. CASE InKernel
  <2>1. CASE up = 0
    BY <1>3, <2>1, Proc0InKernel
  <2>2. CASE up # 0
    <3>1. up \in Pid
      BY <1>3, RunningFacts DEF InKernel, KernelStep, ksend_return, krecv_take,
         krecv_block, kreply_return, start_recv, start_block, start_sched,
         start_copy, start_reply, drop_to_user
    <3>2. UNCHANGED <<pc, pid, ret>> /\ Returned
      BY <1>3 DEF InKernel, proc0Vars
    <3>3. rv'[0] = rv[0] /\ rv' = [p \in Pid |-> rv'[p]]
      BY <2>2, <3>1, <3>2, ReturnedFacts, ZeroPid
    <3>4. pc'[0] = pc[0] /\ pc' = [p \in Pid |-> pc'[p]]
      BY <3>2 DEF Proc0Inv
    <3> QED
      BY <1>1, <2>2, <3>2, <3>3, <3>4, OthersKeepProc0
  <2> QED
    BY <2>1, <2>2
<1>4. CASE BootTick
  <2>1. Tick /\ UNCHANGED <<pc, rv, pid, ret>>
    BY <1>4 DEF BootTick, userVars, proc0Vars
  <2> QED
    BY <1>1, <2>1, OthersKeepProc0 DEF Proc0Inv
<1>5. CASE Proc0Step
  BY <1>5, CreateKeeps, StartKeeps, RecvKeeps, ServeKeeps, AcceptKeeps, ReplyKeeps
     DEF Proc0Step
<1>6. CASE \E p \in Uarts : UartStep(p)
  BY <1>1, <1>6, UartKeeps
<1>7. CASE UNCHANGED bootVars
  <2>1. UNCHANGED <<state, waiting_on, label, pc, rv, pid, ret>>
    BY <1>7 DEF bootVars, vars, userVars, proc0Vars
  <2> QED
    BY <2>1 DEF Proc0Inv, AnswersPending, AwaitsReplyFrom
<1> QED
  BY <1>3, <1>4, <1>5, <1>6, <1>7 DEF BootNext

LEMMA BootInv == BootSpec => [](IInv /\ Proc0Inv)
  BY InitProc0Inv, NextProc0Inv, PTL DEF BootSpec

(* The programs with their kernel are one of the workloads of Kern, so all *)
(* that is proved of Kern, the contract of messages included, holds of the *)
(* running system.                                                         *)
THEOREM BootImplementsKern == BootSpec => Spec
<1>1. BootInit => Init
  BY DEF BootInit
<1> QED
  BY <1>1, BootInv, StepIsKern, PTL DEF BootSpec, Spec

(* proc0 answers only a process that awaits its answer: its reply_recv     *)
(* never returns an error, which it would take for the next caller's pid.  *)
THEOREM BootAnswersPending == BootSpec => []AnswersPending
  BY BootInv, PTL DEF Proc0Inv

-----------------------------------------------------------------------------
(* Who can be in the queue of a program that is starting: proc0 alone,     *)
(* with its request in hand; the programs send to proc0 only.              *)
SendersKnown ==
  /\ \A p \in Uarts : state[p] = "send" => waiting_on[p] = 0
  /\ state[0] = "send" => m_out[0] = InitMsg

StartInv == SendersKnown /\ StartsFromInit

(* What every step but a send and the receipt of a message in proc_start   *)
(* has in common: no new caller, and what has been received stays.         *)
NoNewSender ==
  \A p \in Pid : state'[p] = "send" =>
    state[p] = "send" /\ waiting_on'[p] = waiting_on[p] /\ m_out'[p] = m_out[p]

StartKept ==
  \A p \in Uarts : label'[p].at \in {"s_reply", "s_drop"} =>
    /\ label[p].at \in {"s_reply", "s_drop"} /\ m_in'[p] = m_in[p]
    /\ label'[p].at = "s_reply" => label'[p] = label[p]

LEMMA StaysStarted ==
  ASSUME StartInv, NoNewSender, StartKept PROVE StartInv'
  BY ZeroPid DEF StartInv, SendersKnown, StartsFromInit, NoNewSender, StartKept, Uarts

LEMMA PagesAlone ==
  ASSUME IInv, UNCHANGED m_in, NEW l, l.at \notin {"s_reply", "s_drop"},
         label' = [label EXCEPT ![up] = l]
  PROVE  StartKept
  BY DEF StartKept, IInv, TypeOK, Uarts

(* The answer goes to a process inside ksend.                              *)
LEMMA AnswerKeeps ==
  ASSUME IInv, up \in Pid, NEW w \in Pid, AwaitsReplyFrom(w, up), label[up].at # "ksend",
         NEW m, NEW r, Deliver(w, m, r), NEW l, l.at # "s_reply",
         l.at = "s_drop" => label[up].at = "s_reply",
         label' = [label EXCEPT ![up] = l]
  PROVE  StartKept
<1>1. label[w].at = "ksend" /\ w # up
  BY DEF AwaitsReplyFrom, IInv, ResumePoints
<1>2. \A p \in Pid \ {w} : m_in'[p] = m_in[p]
  BY DEF Deliver, IInv, TypeOK
<1>3. \A p \in Pid : label'[p] = IF p = up THEN l ELSE label[p]
  BY DEF IInv, TypeOK
<1>4. ASSUME NEW p \in Uarts, label'[p].at \in {"s_reply", "s_drop"}
      PROVE  /\ label[p].at \in {"s_reply", "s_drop"} /\ m_in'[p] = m_in[p]
             /\ label'[p].at = "s_reply" => label'[p] = label[p]
  <2>1. p \in Pid
    BY DEF Uarts
  <2>2. CASE p = up
    BY <1>1, <1>2, <1>3, <1>4, <2>1, <2>2
  <2>3. CASE p # up
    BY <1>1, <1>2, <1>3, <1>4, <2>1, <2>3
  <2> QED
    BY <2>2, <2>3
<1> QED
  BY <1>4 DEF StartKept

(* schedule makes nobody a caller; when the caller's page is the only one  *)
(* that changes, and the caller is not one.                                *)
LEMMA SwitchSends ==
  ASSUME IInv, NEW st \in [Pid -> State], NEW n \in Proc, Schedule(st, n),
         \A p \in Pid : st[p] = "oncpu" => p = up,
         \A p \in Pid : st[p] = "send" =>
           state[p] = "send" /\ waiting_on'[p] = waiting_on[p] /\ m_out'[p] = m_out[p]
  PROVE  NoNewSender
<1>1. Switched(st, n)
  BY ScheduleFacts DEF IInv
<1> QED
  BY <1>1 DEF Switched, NoNewSender

-----------------------------------------------------------------------------
LEMMA TickStarts == ASSUME IInv, StartInv, Tick PROVE StartInv'
<1>1. /\ state \in [Pid -> State] /\ nil \in Proc
      /\ \A p \in Pid : state[p] = "oncpu" => p = up
  BY DEF IInv, TypeOK, CpuOwnership, Proc
<1>2. Schedule(state, nil) /\ UNCHANGED <<waiting_on, m_out, m_in, label>>
  BY DEF Tick, page
<1>3. NoNewSender
  BY <1>1, <1>2, SwitchSends
<1>4. StartKept
  BY <1>2 DEF StartKept
<1> QED
  BY <1>3, <1>4, StaysStarted

LEMMA KernelStarts == ASSUME IInv, StartInv, KernelStep PROVE StartInv'
<1>1. up \in Pid /\ nil \notin Pid /\ nil \in Proc /\ Pid \subseteq Proc
  BY RunningFacts, KernAssumption DEF KernelStep, ksend_return, krecv_take, krecv_block,
     kreply_return, start_recv, start_block, start_sched, start_copy, start_reply,
     drop_to_user, Pid, Proc
<1>2. /\ state \in [Pid -> State] /\ waiting_on \in [Pid -> Proc]
      /\ label \in [Pid -> [at : Points, arg : Pid \cup {PID_ALL}]]
      /\ m_in \in [Pid -> Msg] /\ m_out \in [Pid -> Msg]
      /\ \A p \in Pid : state[p] = "oncpu" => p = up
  BY DEF IInv, TypeOK, CpuOwnership
<1>3. CASE ksend_return \/ kreply_return \/ drop_to_user
  <2>1. /\ UNCHANGED <<state, waiting_on, m_in, m_out>>
        /\ label' = [label EXCEPT ![up] = User] /\ User.at = "user"
    BY <1>3, AtFacts DEF ksend_return, kreply_return, drop_to_user, Return, Continue, page, User
  <2>2. NoNewSender
    BY <2>1 DEF NoNewSender
  <2>3. StartKept
    BY <2>1, PagesAlone
  <2> QED
    BY <2>2, <2>3, StaysStarted
<1>4. CASE krecv_take
  <2> DEFINE i == Picked(waiting[up], label[up].arg)
  <2>1. /\ state' = [state EXCEPT ![waiting[up][i]] = "reply"]
        /\ \E m : m_in' = [m_in EXCEPT ![up] = m]
        /\ UNCHANGED <<waiting_on, m_out>>
        /\ label' = [label EXCEPT ![up] = User] /\ User.at = "user"
    BY <1>4, AtFacts DEF krecv_take, Return, Continue, User
  <2> HIDE DEF i
  <2>2. NoNewSender
    BY <1>2, <2>1 DEF NoNewSender
  <2>3. StartKept
    BY <1>1, <1>2, <2>1 DEF StartKept, Uarts
  <2> QED
    BY <2>2, <2>3, StaysStarted
<1>5. CASE krecv_block
  <2> DEFINE st == [state EXCEPT ![up] = "recv"]
  <2>1. Schedule(st, nil) /\ UNCHANGED <<waiting_on, m_in, m_out, label>>
    BY <1>5 DEF krecv_block, page
  <2>2. st \in [Pid -> State] /\ \A q \in Pid : st[q] = IF q = up THEN "recv" ELSE state[q]
    BY <1>1, <1>2 DEF State
  <2> HIDE DEF st
  <2>3. /\ \A q \in Pid : st[q] = "oncpu" => q = up
        /\ \A q \in Pid : st[q] = "send" =>
             state[q] = "send" /\ waiting_on'[q] = waiting_on[q] /\ m_out'[q] = m_out[q]
    BY <1>2, <2>1, <2>2
  <2>4. NoNewSender
    BY <1>1, <2>1, <2>2, <2>3, SwitchSends
  <2>5. StartKept
    BY <2>1 DEF StartKept
  <2> QED
    BY <2>4, <2>5, StaysStarted
<1>6. CASE start_recv
  <2>1. /\ UNCHANGED <<state, waiting_on, m_in, m_out>>
        /\ \/ label' = [label EXCEPT ![up] = At("s_block", PID_ALL)]
           \/ \E x : label' = [label EXCEPT ![up] = At("s_copy", x)]
    BY <1>6 DEF start_recv, Continue, page
  <2>2. NoNewSender
    BY <2>1 DEF NoNewSender
  <2>3. StartKept
    BY <2>1, PagesAlone, AtFacts
  <2> QED
    BY <2>2, <2>3, StaysStarted
<1>7. CASE start_block
  <2>1. /\ state' = [state EXCEPT ![up] = "recv"] /\ UNCHANGED <<waiting_on, m_in, m_out>>
        /\ label' = [label EXCEPT ![up] = At("s_sched", PID_ALL)]
        /\ At("s_sched", PID_ALL).at = "s_sched"
    BY <1>7, AtFacts DEF start_block, Continue, page
  <2>2. NoNewSender
    BY <1>1, <1>2, <2>1 DEF NoNewSender
  <2>3. StartKept
    BY <2>1, PagesAlone
  <2> QED
    BY <2>2, <2>3, StaysStarted
<1>8. CASE start_sched
  <2>1. /\ Schedule(state, nil) /\ UNCHANGED <<waiting_on, m_in, m_out>>
        /\ label' = [label EXCEPT ![up] = At("s_recv", PID_ALL)]
        /\ At("s_recv", PID_ALL).at = "s_recv"
    BY <1>8, AtFacts DEF start_sched, Continue, page
  <2>2. NoNewSender
    BY <1>1, <1>2, <2>1, SwitchSends
  <2>3. StartKept
    BY <2>1, PagesAlone
  <2> QED
    BY <2>2, <2>3, StaysStarted
<1>9. CASE start_copy
  <2> DEFINE w == label[up].arg
  <2>1. /\ m_in' = [m_in EXCEPT ![up] = m_out[w]]
        /\ state' = [state EXCEPT ![w] = "reply"] /\ UNCHANGED <<waiting_on, m_out>>
        /\ label' = [label EXCEPT ![up] = At("s_reply", w)] /\ label[up].at = "s_copy"
        /\ At("s_reply", w).at = "s_reply" /\ At("s_reply", w).arg = w
    BY <1>9, AtFacts DEF start_copy, Running, Continue
  <2>2. w \in Pid /\ label[up] = At("s_copy", w)
    BY <1>1, <1>2, <2>1 DEF IInv, ResumePoints, At
  <2> HIDE DEF w
  <2>3. state[w] = "send" /\ waiting_on[w] = up
    BY <1>1, <2>2 DEF IInv, ResumePoints
  <2>4. NoNewSender
    BY <1>2, <2>1 DEF NoNewSender
  <2>5. SendersKnown'
    BY <2>4, ZeroPid DEF StartInv, SendersKnown, NoNewSender, Uarts
  <2>6. up \in Uarts => w = 0 /\ m_out[w] = InitMsg
    BY <2>2, <2>3 DEF StartInv, SendersKnown, Uarts
  <2>7. ASSUME NEW p \in Uarts, label'[p].at \in {"s_reply", "s_drop"}
        PROVE  m_in'[p] = InitMsg /\ (label'[p].at = "s_reply" => label'[p].arg = 0)
    <3>1. p \in Pid
      BY DEF Uarts
    <3>2. CASE p = up
      BY <1>1, <1>2, <2>1, <2>6, <2>7, <3>2
    <3>3. CASE p # up
      <4>1. label'[p] = label[p] /\ m_in'[p] = m_in[p]
        BY <1>1, <1>2, <2>1, <3>1, <3>3
      <4> QED
        BY <2>7, <4>1 DEF StartInv, StartsFromInit
    <3> QED
      BY <3>2, <3>3
  <2> QED
    BY <2>5, <2>7 DEF StartInv, StartsFromInit
<1>10. CASE start_reply
  <2> DEFINE w == label[up].arg
             l == At("s_drop", PID_ALL)
  <2>1. /\ UNCHANGED waiting_on /\ label[up].at = "s_reply" /\ l.at = "s_drop"
        /\ label' = [label EXCEPT ![up] = l]
        /\ \/ /\ AwaitsReplyFrom(w, up) /\ Deliver(w, m_out[up], OK) /\ Schedule(state, w)
           \/ UNCHANGED <<m_in, m_out, state>>
    BY <1>10, AtFacts DEF start_reply, Running, Continue, page
  <2>2. w \in Pid
    BY <1>1, <2>1 DEF IInv, ResumePoints
  <2> HIDE DEF w, l
  <2>3. CASE AwaitsReplyFrom(w, up) /\ Deliver(w, m_out[up], OK) /\ Schedule(state, w)
    <3>1. m_out' = m_out
      BY <1>1, <1>2, <2>3 DEF Deliver
    <3>2. NoNewSender
      BY <1>1, <1>2, <2>1, <2>2, <2>3, <3>1, SwitchSends
    <3>3. StartKept
      BY <1>1, <2>1, <2>2, <2>3, AnswerKeeps
    <3> QED
      BY <3>2, <3>3, StaysStarted
  <2>4. CASE UNCHANGED <<m_in, m_out, state>>
    <3>1. NoNewSender
      BY <2>1, <2>4 DEF NoNewSender
    <3>2. StartKept
      BY <1>1, <1>2, <2>1, <2>4 DEF StartKept, Uarts
    <3> QED
      BY <3>1, <3>2, StaysStarted
  <2> QED
    BY <2>1, <2>3, <2>4
<1> QED
  BY <1>3, <1>4, <1>5, <1>6, <1>7, <1>8, <1>9, <1>10 DEF KernelStep

-----------------------------------------------------------------------------
(* A send: from proc0 it is the start request, from a program it goes to   *)
(* proc0.                                                                  *)
LEMMA SendStarts ==
  ASSUME IInv, StartInv, NEW q \in Pid, NEW x \in Msg, Send(q, x),
         up = 0 => x = InitMsg, up # 0 => q = 0
  PROVE  StartInv'
<1>1. /\ up \in Pid /\ state[up] = "oncpu" /\ label[up].at = "user"
      /\ nil \notin Pid /\ nil \in Proc /\ Pid \subseteq Proc
  BY RunningFacts, KernAssumption DEF Send, Enter, sys_send_dead, sys_send_full,
     sys_send, Pid, Proc
<1>2. /\ state \in [Pid -> State] /\ waiting_on \in [Pid -> Proc]
      /\ m_out \in [Pid -> Msg] /\ \A p \in Pid : state[p] = "oncpu" => p = up
  BY DEF IInv, TypeOK, CpuOwnership
<1>3. m_in' = m_in /\ m_out' = [m_out EXCEPT ![up] = x]
  BY DEF Send, sys_send_dead, sys_send_full, sys_send
<1>4. CASE sys_send_dead(q, x) \/ sys_send_full(q, x)
  <2>1. /\ state' = state /\ label' = [label EXCEPT ![up] = User] /\ User.at = "user"
        /\ \A p \in Pid \ {up} : waiting_on'[p] = waiting_on[p]
    BY <1>2, <1>4, AtFacts DEF sys_send_dead, sys_send_full, Return, Continue, User, WaitOn
  <2>2. NoNewSender
    BY <1>1, <1>2, <1>3, <2>1 DEF NoNewSender
  <2>3. StartKept
    BY <1>3, <2>1, PagesAlone
  <2> QED
    BY <2>2, <2>3, StaysStarted
<1>5. CASE sys_send(q, x)
  <2> DEFINE st == [state EXCEPT ![up] = "send"]
             n  == Handoff(st, q)
  <2>1. /\ Schedule(st, n) /\ waiting_on' = [waiting_on EXCEPT ![up] = q]
        /\ label' = [label EXCEPT ![up] = At("ksend", PID_ALL)]
        /\ At("ksend", PID_ALL).at = "ksend"
    BY <1>5, AtFacts DEF sys_send, Continue, WaitOn
  <2>2. /\ st \in [Pid -> State]
        /\ \A p \in Pid : st[p] = IF p = up THEN "send" ELSE state[p]
    BY <1>1, <1>2 DEF State
  <2>3. n \in Proc
    BY <1>1 DEF Handoff
  <2> HIDE DEF st, n
  <2>4. Switched(st, n)
    <3>1. \A p \in Pid : st[p] = "oncpu" => p = up
      BY <1>2, <2>2
    <3> QED
      BY <2>1, <2>2, <2>3, <3>1, ScheduleFacts DEF IInv
  <2>5. \A p \in Pid : state'[p] = "send" =>
          \/ p = up
          \/ state[p] = "send" /\ waiting_on'[p] = waiting_on[p] /\ m_out'[p] = m_out[p]
    BY <1>2, <1>3, <2>1, <2>2, <2>4 DEF Switched
  <2>6. waiting_on'[up] = q /\ m_out'[up] = x
    BY <1>1, <1>2, <1>3, <2>1
  <2>7. SendersKnown'
    BY <2>5, <2>6, ZeroPid DEF StartInv, SendersKnown, Uarts
  <2>8. StartKept
    BY <1>3, <2>1, PagesAlone
  <2> QED
    BY <2>7, <2>8 DEF StartInv, StartsFromInit, StartKept
<1> QED
  BY <1>4, <1>5 DEF Send

(* proc0's other calls.                                                    *)
LEMMA CreateStarts == ASSUME IInv, StartInv, sys_proc_create PROVE StartInv'
<1>1. /\ up \in Pid /\ label[up].at = "user"
      /\ nextpid \in Pid /\ state[nextpid] = "dead"
  BY RunningFacts, SlotIsDead DEF sys_proc_create, Enter
<1>2. /\ state' = [state EXCEPT ![nextpid] = "ready"]
      /\ waiting_on' = [waiting_on EXCEPT ![nextpid] = nil]
      /\ m_in' = [m_in EXCEPT ![nextpid] = ZeroMsg]
      /\ m_out' = [m_out EXCEPT ![nextpid] = ZeroMsg]
      /\ label' = [label EXCEPT ![nextpid] = At("s_recv", PID_ALL), ![up] = User]
      /\ User.at = "user" /\ At("s_recv", PID_ALL).at = "s_recv"
  BY AtFacts DEF sys_proc_create, User
<1>3. NoNewSender
  BY <1>1, <1>2 DEF NoNewSender, IInv, TypeOK
<1>4. StartKept
  BY <1>1, <1>2 DEF StartKept, IInv, TypeOK, Uarts
<1> QED
  BY <1>3, <1>4, StaysStarted

LEMMA RecvStarts == ASSUME IInv, StartInv, sys_recv(PID_ALL) PROVE StartInv'
<1>1. /\ UNCHANGED <<state, waiting_on, m_in, m_out>>
      /\ label' = [label EXCEPT ![up] = At("krecv", PID_ALL)]
      /\ At("krecv", PID_ALL).at = "krecv"
  BY AtFacts DEF sys_recv, Continue, page
<1>2. NoNewSender
  BY <1>1 DEF NoNewSender
<1>3. StartKept
  BY <1>1, PagesAlone
<1> QED
  BY <1>2, <1>3, StaysStarted

LEMMA ReplyStarts ==
  ASSUME IInv, Proc0Inv, StartInv, p0_reply
  PROVE  StartInv'
<1>1. /\ up = 0 /\ 0 \in Pid /\ label[0].at = "user" /\ state[0] = "oncpu"
      /\ pid \in Pid /\ AwaitsReplyFrom(pid, 0)
  BY ZeroPid, RunningFacts DEF p0_reply, AtUser, Running, Proc0Inv, AnswersPending
<1>2. sys_reply_recv(pid, m_out[0], ret, PID_ALL)
  BY <1>1 DEF p0_reply, sys_reply_err
<1> DEFINE st == [state EXCEPT ![up] = "recv"]
           l  == At("krecv", PID_ALL)
<1>3. /\ Schedule(st, pid) /\ waiting_on' = waiting_on /\ Deliver(pid, m_out[0], ret)
      /\ label' = [label EXCEPT ![up] = l] /\ l.at = "krecv"
  BY <1>2, AtFacts DEF sys_reply_recv, Continue
<1>4. /\ st \in [Pid -> State] /\ pid \in Proc
      /\ \A q \in Pid : st[q] = IF q = up THEN "recv" ELSE state[q]
      /\ \A q \in Pid : state[q] = "oncpu" => q = up
      /\ m_out' = m_out
  BY <1>1, <1>3 DEF State, Proc, IInv, TypeOK, CpuOwnership, Deliver
<1> HIDE DEF st, l
<1>5. NoNewSender
  <2>1. /\ \A q \in Pid : st[q] = "oncpu" => q = up
        /\ \A q \in Pid : st[q] = "send" =>
             state[q] = "send" /\ waiting_on'[q] = waiting_on[q] /\ m_out'[q] = m_out[q]
    BY <1>3, <1>4
  <2> QED
    BY <1>3, <1>4, <2>1, SwitchSends
<1>6. StartKept
  BY <1>1, <1>3, AnswerKeeps
<1> QED
  BY <1>5, <1>6, StaysStarted

-----------------------------------------------------------------------------
LEMMA StartInit == BootInit => StartInv
  BY ZeroPid DEF BootInit, Init, StartInv, SendersKnown, StartsFromInit, Uarts, At

LEMMA StartNext == IInv /\ Proc0Inv /\ StartInv /\ [BootNext]_bootVars => StartInv'
<1> SUFFICES ASSUME IInv, Proc0Inv, StartInv, [BootNext]_bootVars PROVE StartInv'
  OBVIOUS
<1>1. CASE UNCHANGED vars
  BY <1>1 DEF vars, page, StartInv, SendersKnown, StartsFromInit
<1>2. CASE InKernel
  BY <1>2, KernelStarts DEF InKernel
<1>3. CASE BootTick
  BY <1>3, TickStarts DEF BootTick
<1>4. CASE p0_create \/ p0_recv
  BY <1>4, CreateStarts, RecvStarts DEF p0_create, p0_recv
<1>5. CASE p0_start
  <2>1. up = 0 /\ rv[0] \in Pid /\ Send(rv[0], InitMsg)
    BY <1>5 DEF p0_start, AtUser, StartMsg, Proc0Inv
  <2> QED
    BY <2>1, SendStarts, BootAssumption
<1>6. CASE p0_serve \/ p0_accept
  BY <1>1, <1>6 DEF p0_serve, p0_accept, Keeps
<1>7. CASE p0_reply
  BY <1>7, ReplyStarts
<1>8. ASSUME NEW p \in Uarts, UartStep(p) PROVE StartInv'
  <2>1. CASE uart_call(p)
    <3>1. up # 0 /\ Send(0, AddrMsg)
      BY <2>1 DEF uart_call, AtUser, Uarts
    <3> QED
      BY <3>1, SendStarts, ZeroPid, BootAssumption
  <2>2. CASE uart_offer(p) \/ uart_check(p)
    BY <1>1, <2>2 DEF uart_offer, uart_check, Keeps
  <2> QED
    BY <1>8, <2>1, <2>2 DEF UartStep
<1>9. CASE UNCHANGED bootVars
  BY <1>1, <1>9 DEF bootVars
<1> QED
  BY <1>2, <1>3, <1>4, <1>5, <1>6, <1>7, <1>8, <1>9 DEF BootNext, Proc0Step

(* proc_start of a program takes the request of proc0, whatever the other  *)
(* programs have sent by then, and answers proc0.                          *)
THEOREM BootStartsFromInit == BootSpec => []StartsFromInit
<1>1. StartInv => StartsFromInit
  BY DEF StartInv
<1> QED
  BY <1>1, StartInit, StartNext, BootInv, PTL DEF BootSpec
-----------------------------------------------------------------------------
(* The types of the programs' variables.  proc0 does not start more        *)
(* programs than there are: it begins a turn only with one left.           *)
Places == {"create", "start", "serve", "accept", "reply",
           "offer", "call", "check", "print", "hang"}

BootTyped == BootTypeOK /\ (pc[0] = "start" => started < programs)

LEMMA ReturnTyped ==
  ASSUME IInv', BootTypeOK, Returned
  PROVE  rv' \in [Pid -> Ret \cup Pid]
<1>1. r0' \in Ret \cup Pid
  BY KernAssumption, BootAssumption DEF IInv, TypeOK
<1> QED
  BY <1>1 DEF BootTypeOK, Returned

LEMMA GotoTyped ==
  ASSUME BootTypeOK, NEW where, Goto(where),
         where \in Places
  PROVE  /\ pc' \in [Pid -> Places]
         /\ up = 0 => pc'[0] = where
         /\ up # 0 => pc'[0] = pc[0]
  BY ZeroPid DEF BootTypeOK, Goto, Places

LEMMA InitTyped == BootInit => BootTyped
<1> SUFFICES ASSUME BootInit PROVE BootTyped
  OBVIOUS
<1>1. OK \in Ret /\ nil \in Proc /\ 0 \in Pid /\ programs \in Nat
  BY ZeroPid, KernAssumption, BootAssumption DEF BootInit, Proc
<1> QED
  BY <1>1 DEF BootInit, BootTyped, BootTypeOK, NoOffer, Fresh, Places

LEMMA CreateTyped == ASSUME IInv, IInv', BootTyped, p0_create PROVE BootTyped'
<1>1. /\ UNCHANGED proc0Vars /\ Goto("start") /\ Returned /\ started < programs
      /\ offer' = [offer EXCEPT ![nextpid] = NoOffer]
      /\ space' = [space EXCEPT ![nextpid] = Fresh]
  BY DEF p0_create, MoreToStart
<1>2. 0 \in Pid /\ BootTypeOK
  BY ZeroPid DEF BootTyped
<1>3. rv' \in [Pid -> Ret \cup Pid]
  BY <1>1, <1>2, ReturnTyped
<1>4. /\ offer' \in [Pid -> [to : Pid, pages : {0, 1}, flags : SUBSET Flags]]
      /\ space' \in [Pid -> [table : BOOLEAN, entry : {nil, Registers}]]
  BY <1>1, <1>2 DEF BootTypeOK, NoOffer, Fresh
<1>5. pc' \in [Pid -> Places]
  BY <1>1, <1>2, GotoTyped DEF Places
<1> QED
  BY <1>1, <1>2, <1>3, <1>4, <1>5 DEF BootTyped, BootTypeOK, Places, proc0Vars

LEMMA StartTyped == ASSUME IInv, IInv', BootTyped, p0_start PROVE BootTyped'
<1>1. /\ UNCHANGED <<programs, pid, ret, free, offer, space>> /\ Goto("create")
      /\ up = 0 /\ Returned /\ started' = started + 1 /\ pc[0] = "start"
  BY DEF p0_start, AtUser, Send, addrVars
<1>2. BootTypeOK /\ started < programs
  BY <1>1 DEF BootTyped
<1>3. rv' \in [Pid -> Ret \cup Pid]
  BY <1>1, <1>2, ReturnTyped
<1>4. started' \in 0 .. programs'
  BY <1>1, <1>2, BootAssumption DEF BootTypeOK
<1>5. /\ pc' \in [Pid -> Places]
      /\ pc'[0] = "create"
  BY <1>1, <1>2, GotoTyped DEF Places
<1> QED
  BY <1>1, <1>2, <1>3, <1>4, <1>5 DEF BootTyped, BootTypeOK, Places

(* The steps that start nothing.                                           *)
SpacesTyped ==
  /\ offer \in [Pid -> [to : Pid, pages : {0, 1}, flags : SUBSET Flags]]
  /\ space \in [Pid -> [table : BOOLEAN, entry : {nil, Registers}]]

LEMMA OtherTyped ==
  ASSUME BootTyped, UNCHANGED <<programs, started>>, SpacesTyped',
         NEW where, Goto(where),
         where \in {"serve", "accept", "reply", "call", "check", "print", "hang"},
         rv' \in [Pid -> Ret \cup Pid], pid' \in Proc, ret' \in Ret, free' \in BOOLEAN
  PROVE  BootTyped'
<1>1. BootTypeOK
  BY DEF BootTyped
<1>2. /\ pc' \in [Pid -> Places]
      /\ pc'[0] = "start" => pc[0] = "start"
  BY <1>1, GotoTyped DEF Places
<1> QED
  BY <1>1, <1>2 DEF BootTyped, BootTypeOK, Places, SpacesTyped

LEMMA RecvTyped == ASSUME IInv, IInv', BootTyped, p0_recv PROVE BootTyped'
<1>1. UNCHANGED <<proc0Vars, addrVars>> /\ Goto("serve") /\ Returned /\ BootTypeOK
  BY DEF p0_recv, BootTyped
<1>2. rv' \in [Pid -> Ret \cup Pid]
  BY <1>1, ReturnTyped
<1>3. /\ UNCHANGED <<programs, started>> /\ SpacesTyped'
      /\ pid' \in Proc /\ ret' \in Ret /\ free' \in BOOLEAN
  BY <1>1 DEF proc0Vars, addrVars, BootTypeOK, SpacesTyped
<1> QED
  BY <1>1, <1>2, <1>3, OtherTyped DEF Places

LEMMA ServeTyped == ASSUME IInv, Proc0Inv, BootTyped, p0_serve PROVE BootTyped'
<1>1. /\ UNCHANGED <<programs, started, offer, space, rv>> /\ pid' = rv[0]
      /\ Goto("accept") \/ Goto("reply")
      /\ BootTypeOK /\ pc[0] = "serve" /\ label[0].at = "user"
  BY DEF p0_serve, AtUser, Running, Caller, addrVars, BootTyped
<1>2. pid' \in Proc
  BY <1>1 DEF Proc0Inv, Proc
<1>3. ret' \in Ret /\ free' \in BOOLEAN
  BY <1>1, BootAssumption DEF p0_serve, BootTypeOK
<1>4. rv' \in [Pid -> Ret \cup Pid] /\ SpacesTyped'
  BY <1>1 DEF BootTypeOK, SpacesTyped
<1> QED
  BY <1>1, <1>2, <1>3, <1>4, OtherTyped DEF Places

LEMMA AcceptTyped == ASSUME IInv, BootTyped, p0_accept PROVE BootTyped'
<1>1. /\ UNCHANGED <<programs, started, pid, free>> /\ ret' = rv'[0]
      /\ Goto("reply") /\ BootTypeOK /\ up = 0 /\ 0 \in Pid
      /\ sys_addr_accept(pid, 1, {"read", "write"})
  BY ZeroPid DEF p0_accept, AtUser, BootTyped
<1>2. ASSUME NEW a \in Pid, NEW b, space' = Moved(a, b), UNCHANGED offer
      PROVE  SpacesTyped'
  BY <1>1, <1>2 DEF Moved, SpacesTyped, BootTypeOK
<1>3. SpacesTyped'
  BY <1>1, <1>2 DEF sys_addr_accept, SpacesTyped, BootTypeOK, addrVars
<1>4. rv' \in [Pid -> Ret \cup Pid] /\ rv'[0] \in Ret
  BY <1>1, KernAssumption, BootAssumption DEF sys_addr_accept, Yields, BootTypeOK
<1>5. pid' \in Proc /\ ret' \in Ret /\ free' \in BOOLEAN
  BY <1>1, <1>4 DEF BootTypeOK
<1> QED
  BY <1>1, <1>3, <1>4, <1>5, OtherTyped DEF Places

LEMMA ReplyTyped == ASSUME IInv, IInv', BootTyped, p0_reply PROVE BootTyped'
<1>1. UNCHANGED <<proc0Vars, addrVars>> /\ Goto("serve") /\ Returned /\ BootTypeOK
  BY DEF p0_reply, BootTyped
<1>2. rv' \in [Pid -> Ret \cup Pid]
  BY <1>1, ReturnTyped
<1>3. /\ UNCHANGED <<programs, started>> /\ SpacesTyped'
      /\ pid' \in Proc /\ ret' \in Ret /\ free' \in BOOLEAN
  BY <1>1 DEF proc0Vars, addrVars, BootTypeOK, SpacesTyped
<1> QED
  BY <1>1, <1>2, <1>3, OtherTyped DEF Places

LEMMA UartTyped ==
  ASSUME IInv, IInv', BootTyped, NEW p \in Uarts, UartStep(p)
  PROVE  BootTyped'
<1>1. BootTypeOK /\ UNCHANGED proc0Vars /\ up = p /\ p \in Pid /\ 0 \in Pid
  BY ZeroPid DEF BootTyped, UartStep, uart_offer, uart_call, uart_check, AtUser, Uarts
<1>2. rv' \in [Pid -> Ret \cup Pid]
  <2>1. CASE uart_call(p)
    BY <1>1, <2>1, ReturnTyped DEF uart_call, Send
  <2>2. CASE uart_offer(p) \/ uart_check(p)
    BY <1>1, <2>2, KernAssumption DEF uart_offer, uart_check, sys_addr_offer, Yields,
       BootTypeOK
  <2> QED
    BY <2>1, <2>2 DEF UartStep
<1>3. SpacesTyped'
  <2>1. CASE uart_offer(p)
    <3>1. [to |-> 0, pages |-> 1, flags |-> {"read", "write", "take"}]
            \in [to : Pid, pages : {0, 1}, flags : SUBSET Flags]
      BY <1>1 DEF Flags
    <3> QED
      BY <1>1, <2>1, <3>1 DEF uart_offer, sys_addr_offer, SpacesTyped, BootTypeOK
  <2>2. CASE uart_call(p) \/ uart_check(p)
    BY <1>1, <2>2 DEF uart_call, uart_check, SpacesTyped, BootTypeOK, addrVars
  <2> QED
    BY <2>1, <2>2 DEF UartStep
<1>4. \/ Goto("call") \/ Goto("check") \/ Goto("print") \/ Goto("hang")
  BY DEF UartStep, uart_offer, uart_call, uart_check
<1>5. /\ UNCHANGED <<programs, started>>
      /\ pid' \in Proc /\ ret' \in Ret /\ free' \in BOOLEAN
  BY <1>1 DEF proc0Vars, BootTypeOK
<1> QED
  BY <1>1, <1>2, <1>3, <1>4, <1>5, OtherTyped DEF Places

LEMMA NextTyped ==
  IInv /\ IInv' /\ Proc0Inv /\ BootTyped /\ [BootNext]_bootVars => BootTyped'
<1> SUFFICES ASSUME IInv, IInv', Proc0Inv, BootTyped, [BootNext]_bootVars
             PROVE  BootTyped'
  OBVIOUS
<1>1. CASE InKernel
  <2>1. UNCHANGED <<pc, programs, started, pid, ret, free, offer, space>>
    BY <1>1 DEF InKernel, proc0Vars, addrVars
  <2>2. rv' \in [Pid -> Ret \cup Pid]
    BY <1>1, ReturnTyped DEF InKernel, BootTyped
  <2> QED
    BY <2>1, <2>2 DEF BootTyped, BootTypeOK
<1>2. CASE UNCHANGED userVars
  BY <1>2 DEF userVars, proc0Vars, addrVars, BootTyped, BootTypeOK
<1>3. CASE Proc0Step
  BY <1>3, CreateTyped, StartTyped, RecvTyped, ServeTyped, AcceptTyped, ReplyTyped
     DEF Proc0Step
<1>4. CASE \E p \in Uarts : UartStep(p)
  BY <1>4, UartTyped
<1> QED
  BY <1>1, <1>2, <1>3, <1>4 DEF BootNext, BootTick, bootVars

(* The variables of the programs keep the types of the code's; proc0       *)
(* starts no more programs than procs[] has.                               *)
THEOREM SpecBootTypeOK == BootSpec => []BootTypeOK
<1>1. IInv /\ Proc0Inv /\ BootTyped /\ [BootNext]_bootVars /\ IInv' /\ Proc0Inv' => BootTyped'
  BY NextTyped
<1>2. BootTyped => BootTypeOK
  BY DEF BootTyped
<1> QED
  BY <1>1, <1>2, InitTyped, BootInv, PTL DEF BootSpec
=============================================================================
