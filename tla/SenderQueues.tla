---------------------------- MODULE SenderQueues ----------------------------
(***************************************************************************)
(* What the lists of senders of kern/proc.c amount to, without nodes and   *)
(* pointers: a queue of blocked senders for each process.                  *)
(*                                                                         *)
(* A process that runs with interrupts masked takes one sender and leaves  *)
(* the others.  A process still in proc_start may be interrupted after it  *)
(* has chosen a sender: the one it takes need not be the newest any more,  *)
(* and those that joined after its choice either all stay or all vanish.   *)
(***************************************************************************)
EXTENDS SenderList

CONSTANT Client

VARIABLES
  queue,     (* the senders blocked at each process, oldest first        *)
  starting   (* the processes that are in proc_start                     *)

queueVars == <<queue, starting>>

Blocked(p) == \E q \in Client : p \in ToSet(queue[q])

Join(q, p) ==
  /\ ~Blocked(p)
  /\ queue' = [queue EXCEPT ![q] = Append(@, p)]
  /\ UNCHANGED starting

Receive(q, pid) ==
  /\ q \notin starting
  /\ queue[q] # <<>>
  /\ queue' = [queue EXCEPT ![q] = RemoveAt(@, Picked(@, pid))]
  /\ UNCHANGED starting

FirstReceive(q, i) ==
  /\ q \in starting
  /\ \/ queue' = [queue EXCEPT ![q] = RemoveAt(@, i)]
     \/ queue' = [queue EXCEPT ![q] = SubSeq(@, 1, i - 1)]
  /\ UNCHANGED starting

Started(q) ==
  /\ starting' = starting \ {q}
  /\ UNCHANGED queue

QueuesInit ==
  /\ queue = [p \in Client |-> <<>>]
  /\ starting \subseteq Client

QueuesNext ==
  \E q \in Client :
    \/ \E p \in Client : Join(q, p)
    \/ \E pid \in Client \cup {-1} : Receive(q, pid)
    \/ \E i \in 1 .. Len(queue[q]) : FirstReceive(q, i)
    \/ Started(q)

QueuesSpec == QueuesInit /\ [][QueuesNext]_queueVars
=============================================================================
