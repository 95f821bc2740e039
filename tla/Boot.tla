-------------------------------- MODULE Boot --------------------------------
(***************************************************************************)
(* The user programs of omb on its kernel: proc0 starts the programs of    *)
(* procs[] and serves their requests (am335x/proc0/main.c); each program   *)
(* is uart, which asks for its registers (am335x/base/uart/main.c).  Their *)
(* system calls are those of Kern, and addr_offer and addr_accept.         *)
(*                                                                         *)
(* There is one range of registers, a page, which every uart asks for.     *)
(* Each address space is reduced to the one address the range has in it.   *)
(***************************************************************************)
EXTENDS Kern

CONSTANTS
  Programs,   (* the lengths of procs[] of an instance: {1} in the code    *)
  InitMsg,    (* a message of type MESSAGE_proc_init                       *)
  AddrMsg,    (* a message of type MESSAGE_addr that asks for the range    *)
  Registers   (* the page of registers                                     *)

ASSUME BootAssumption ==
  /\ Programs \subseteq Nat
  /\ \A k \in Programs : k < CREATE_LIMIT
  /\ InitMsg \in Msg /\ AddrMsg \in Msg
  /\ ZeroMsg # InitMsg /\ ZeroMsg # AddrMsg /\ InitMsg # AddrMsg
  /\ ERR \in Ret
  /\ {"send", "recv", "reply_recv", "proc_create"} \subseteq Syscalls
  /\ Registers # nil

VARIABLES
  pc,        (* the place of each program                                  *)
  rv,        (* what its last system call returned to it                   *)
  programs,  (* the length of procs[]                                      *)
  started,   (* local i of init_procs                                      *)
  pid,       (* locals pid and ret of proc0's main                         *)
  ret,
  free,      (* is the range in proc0's list?                              *)
  offer,     (* procs[p].addr_offer                                        *)
  space      (* procs[p].space at the address: is there a second-level     *)
             (* table, and what does its entry map                         *)

proc0Vars == <<programs, started, pid, ret, free>>
addrVars  == <<offer, space>>
userVars  == <<pc, rv, proc0Vars, addrVars>>
bootVars  == <<vars, userVars>>

(* The first field of a message; MESSAGE_addr is 0, the type of ZeroMsg.   *)
Type(m) == IF m = InitMsg THEN "proc_init" ELSE "addr"

Flags   == {"take", "read", "write", "cache"}
NoOffer == [to |-> 0, pages |-> 0, flags |-> {}]
Fresh   == [table |-> FALSE, entry |-> nil]

-----------------------------------------------------------------------------
(* The address space calls of up, which return at once.                    *)

Keeps     == UNCHANGED vars
Yields(v) == rv' = [rv EXCEPT ![up] = v]

(* get_page of sys_addr_accept has no page to give.                        *)
GetPage == nil

sys_addr_offer(to, pages, flags) ==
  /\ offer' = [offer EXCEPT ![up] = [to |-> to, pages |-> pages, flags |-> flags]]
  /\ Yields(OK)
  /\ UNCHANGED space

Agrees(p, pages, flags) ==
  /\ offer[p].to = up /\ offer[p].pages = pages
  /\ flags \ {"take"} = offer[p].flags \ {"take"}
  /\ ("take" \in flags) # ("take" \in offer[p].flags)

(* space_map makes a second-level table of the page it asks for.           *)
space_map_works(to) == space[to].table \/ GetPage # nil

(* space_find in from, space_map in to, space_unmap in from. *)
Moved(from, to) ==
  [space EXCEPT ![to]   = [table |-> TRUE, entry |-> space[from].entry],
                ![from].entry = nil]

(* One page, as offered by p, goes from one space to the other.            *)
sys_addr_accept(p, pages, flags) ==
  LET from == IF "take" \in flags THEN p ELSE up
      to   == IF "take" \in flags THEN up ELSE p
  IN  IF Agrees(p, pages, flags) /\ space_map_works(to)
      THEN Yields(OK) /\ space' = Moved(from, to) /\ UNCHANGED offer
      ELSE Yields(ERR) /\ UNCHANGED addrVars

-----------------------------------------------------------------------------
(* proc0, and the returns of its calls. *)

AtUser(p, where) == up = p /\ Running("user") /\ pc[p] = where
Goto(where)      == pc' = [pc EXCEPT ![up] = where]

(* What the program finds in r0 when a kernel step brings it back.         *)
Returned ==
  rv' = IF label'[up].at = "user" THEN [rv EXCEPT ![up] = r0'] ELSE rv

Send(q, m) ==
  (sys_send(q, m) \/ sys_send_dead(q, m) \/ sys_send_full(q, m)) /\ Returned

(* Fault: the type is not filled in. *)
FaultUntyped == ZeroMsg

StartMsg == InitMsg

(* Fault: the last entry of procs[] is taken for its end. *)
FaultOneLess == started + 1 < programs

(* Fault: the nil at the end of procs[] is taken for a program. *)
FaultOneMore == started <= programs

MoreToStart == started < programs

(* A turn of init_procs: create the program ...                            *)
p0_create ==
  /\ AtUser(0, "create") /\ MoreToStart
  /\ sys_proc_create /\ Returned
  /\ offer' = [offer EXCEPT ![nextpid] = NoOffer]
  /\ space' = [space EXCEPT ![nextpid] = Fresh]
  /\ Goto("start")
  /\ UNCHANGED proc0Vars

(* ... and start it.  What send returns is not looked at.                  *)
p0_start ==
  /\ AtUser(0, "start")
  /\ Send(rv[0], StartMsg)
  /\ started' = started + 1
  /\ Goto("create")
  /\ UNCHANGED <<programs, pid, ret, free, addrVars>>

p0_recv ==
  /\ AtUser(0, "create") /\ ~MoreToStart
  /\ sys_recv(PID_ALL) /\ Returned
  /\ Goto("serve")
  /\ UNCHANGED <<proc0Vars, addrVars>>

(* Fault: the pid that reply_recv returns is not kept. *)
FaultKeepsPid == IF pid = nil THEN rv[0] ELSE pid

Caller == rv[0]

(* Is m an addr request?  That of ZeroMsg is for no bytes.                 *)
Asks(m) == Type(m) = "addr" /\ m # ZeroMsg

(* The switch of main, and handle_addr_request up to addr_accept: get_io   *)
(* takes the range out of the list.                                        *)
p0_serve ==
  /\ AtUser(0, "serve")
  /\ pid' = Caller
  /\ IF Asks(m_in[0]) /\ free
     THEN Goto("accept") /\ free' = FALSE /\ UNCHANGED ret
     ELSE Goto("reply") /\ ret' = ERR /\ UNCHANGED free
  /\ Keeps
  /\ UNCHANGED <<rv, programs, started, addrVars>>

p0_accept ==
  /\ AtUser(0, "accept")
  /\ sys_addr_accept(pid, 1, {"read", "write"})
  /\ ret' = rv'[0]
  /\ Goto("reply")
  /\ Keeps
  /\ UNCHANGED <<programs, started, pid, free>>

(* The message buffer is what init_procs left in it.                       *)
p0_reply ==
  /\ AtUser(0, "reply")
  /\ sys_reply_recv(pid, m_out[0], ret, PID_ALL) \/ sys_reply_err(pid, m_out[0])
  /\ Returned
  /\ Goto("serve")
  /\ UNCHANGED <<proc0Vars, addrVars>>

-----------------------------------------------------------------------------
(* uart, from its start to the test of the answer.                         *)

Uarts == Pid \ {0}

uart_offer(p) ==
  /\ AtUser(p, "offer")
  /\ sys_addr_offer(0, 1, {"read", "write", "take"})
  /\ Goto("call")
  /\ Keeps
  /\ UNCHANGED proc0Vars

uart_call(p) ==
  /\ AtUser(p, "call")
  /\ Send(0, AddrMsg)
  /\ Goto("check")
  /\ UNCHANGED <<proc0Vars, addrVars>>

(* With the registers it goes on to print; without it loops for ever.      *)
uart_check(p) ==
  /\ AtUser(p, "check")
  /\ Goto(IF rv[p] = OK THEN "print" ELSE "hang")
  /\ Keeps
  /\ UNCHANGED <<rv, proc0Vars, addrVars>>

-----------------------------------------------------------------------------
BootInit ==
  /\ Init
  /\ pc = [p \in Pid |-> IF p = 0 THEN "create" ELSE "offer"]
  /\ rv = [p \in Pid |-> OK]
  /\ programs \in Programs
  /\ started = 0
  /\ pid = nil
  /\ ret = OK
  /\ free = TRUE
  /\ offer = [p \in Pid |-> NoOffer]
  /\ space = [p \in Pid |-> Fresh]

InKernel  == KernelStep /\ Returned /\ UNCHANGED <<pc, proc0Vars, addrVars>>
BootTick  == Tick /\ UNCHANGED userVars
Proc0Step == \/ p0_create \/ p0_start \/ p0_recv
             \/ p0_serve \/ p0_accept \/ p0_reply
UartStep(p) == uart_offer(p) \/ uart_call(p) \/ uart_check(p)

BootNext == InKernel \/ BootTick \/ Proc0Step \/ \E p \in Uarts : UartStep(p)

BootSpec == BootInit /\ [][BootNext]_bootVars

(* A process that is given the CPU again and again gets on with its code,  *)
(* in the kernel and in its program: at most one tick is due when it gets  *)
(* it, and the next is a quantum away.                                     *)
FairBoot ==
  /\ BootSpec
  /\ \A p \in Pid : SF_bootVars(up = p /\ InKernel)
  /\ SF_bootVars(Proc0Step)
  /\ \A p \in Uarts : SF_bootVars(UartStep(p))
  /\ \A p \in Pid : WF_bootVars(up = p /\ BootTick)
-----------------------------------------------------------------------------
(* Properties. *)

BootTypeOK ==
  /\ pc \in [Pid -> {"create", "start", "serve", "accept", "reply",
                     "offer", "call", "check", "print", "hang"}]
  /\ rv \in [Pid -> Ret \cup Pid]
  /\ programs \in Programs /\ started \in 0 .. programs
  /\ pid \in Proc /\ ret \in Ret /\ free \in BOOLEAN
  /\ offer \in [Pid -> [to : Pid, pages : {0, 1}, flags : SUBSET Flags]]
  /\ space \in [Pid -> [table : BOOLEAN, entry : {nil, Registers}]]

(* proc_start takes the first message of any process for its start         *)
(* request; it is always the request proc0 made.                           *)
StartsFromInit ==
  \A p \in Uarts : label[p].at \in {"s_reply", "s_drop"} =>
    m_in[p] = InitMsg /\ (label[p].at = "s_reply" => label[p].arg = 0)

(* While proc0 handles a request, the process in its pid is blocked until  *)
(* proc0 answers it: reply_recv never fails, and proc0 never runs on with  *)
(* the pid -1 in hand.                                                     *)
AnswersPending ==
  pc[0] \in {"accept", "reply"} => pid \in Pid /\ AwaitsReplyFrom(pid, 0)

(* Every program of procs[] that is to be started is started.              *)
AllStarted == \A p \in Uarts : (p <= programs) ~> (pc[p] # "offer")

(* The only program of the system gets an answer to its request.           *)
SoleClientAnswered == (programs = 1) ~> (pc[1] \in {"print", "hang"})

(* An answer has the type of the request it answers.                       *)
AnswerTyped ==
  [][\A p \in Pid : (/\ label[p].at = "ksend" /\ label'[p].at = "user")
       => Type(m_in[p]) = Type(m_out[p])]_bootVars

(* uart gets to the line that prints its greeting.                         *)
UartGreets == (programs = 1) ~> (pc[1] = "print")
=============================================================================
