--------------------------------- MODULE Rpc ---------------------------------
(***************************************************************************)
(* What the omb kernel promises a user program about message passing,      *)
(* without scheduler, queues or kernel stacks: a synchronous call that is  *)
(* taken once and answered once, by the process it was sent to.            *)
(*                                                                         *)
(* A caller does nothing until it is answered.  Nothing is promised about  *)
(* the order in which a server takes its callers, nor that it takes them.  *)
(***************************************************************************)
CONSTANTS
  Client,   (* the processes, each both a possible caller and server *)
  Msg,      (* message contents                                      *)
  Ret,      (* return codes of an answer                             *)
  NoOne,    (* the callee of a process that has no call outstanding  *)
  ZeroMsg,  (* contents of a fresh message buffer                    *)
  OkRet     (* return code in a fresh process page                   *)

VARIABLES
  call,     (* the outstanding call of each process                  *)
  inbox,    (* the message each process was last handed              *)
  result    (* the return code of each process's last answered call  *)

rpcVars == <<call, inbox, result>>

Idle         == [phase |-> "idle",   to |-> NoOne, msg |-> ZeroMsg]
Queued(s, m) == [phase |-> "queued", to |-> s,     msg |-> m]
Taken(s, m)  == [phase |-> "taken",  to |-> s,     msg |-> m]

Call(c, s, m) ==
  /\ call[c] = Idle
  /\ call' = [call EXCEPT ![c] = Queued(s, m)]
  /\ UNCHANGED <<inbox, result>>

Take(s, c, m) ==
  /\ call[s] = Idle
  /\ call[c] = Queued(s, m)
  /\ call' = [call EXCEPT ![c] = Taken(s, m)]
  /\ inbox' = [inbox EXCEPT ![s] = m]
  /\ UNCHANGED result

Answer(s, c, m, r) ==
  /\ call[s] = Idle
  /\ \E q \in Msg : call[c] = Taken(s, q)
  /\ call' = [call EXCEPT ![c] = Idle]
  /\ inbox' = [inbox EXCEPT ![c] = m]
  /\ result' = [result EXCEPT ![c] = r]

(* A process starts with a cleared page. *)
Born(c) ==
  /\ call[c] = Idle
  /\ inbox' = [inbox EXCEPT ![c] = ZeroMsg]
  /\ result' = [result EXCEPT ![c] = OkRet]
  /\ UNCHANGED call

RpcInit ==
  /\ call = [c \in Client |-> Idle]
  /\ inbox = [c \in Client |-> ZeroMsg]
  /\ result = [c \in Client |-> OkRet]

RpcNext ==
  \E s, c \in Client :
    \/ \E m \in Msg : Call(c, s, m) \/ Take(s, c, m)
    \/ \E m \in Msg, r \in Ret : Answer(s, c, m, r)
    \/ Born(c)

RpcSpec == RpcInit /\ [][RpcNext]_rpcVars
=============================================================================
