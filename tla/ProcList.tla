------------------------------ MODULE ProcList ------------------------------
(***************************************************************************)
(* The lists of senders and their pool of nodes (kern/proc.c), with the    *)
(* pointers and compare-and-swaps of the code.                             *)
(*                                                                         *)
(* proc_list_add is called by ksend only, and ksend and the recv of a user *)
(* program run with interrupts masked: each is one step.  proc_start calls *)
(* proc_list_remove with interrupts unmasked, and a tick may let others    *)
(* run after every load and store of it.  Which process runs when is left  *)
(* open here.                                                              *)
(***************************************************************************)
EXTENDS SenderList, FiniteSets

CONSTANTS
  Pid,              (* the processes, a set of naturals                    *)
  MAX_PROC_LISTS,   (* length of proc_lists[]                              *)
  Starting,         (* the processes that have yet to run proc_start       *)
  nil               (* the null pointer                                    *)

PID_ALL == -1
Node    == 0 .. MAX_PROC_LISTS - 1
Link    == Node \cup {nil}

ASSUME ProcListAssumption ==
  /\ Pid \subseteq Nat /\ IsFiniteSet(Pid)
  /\ MAX_PROC_LISTS \in Nat
  /\ Starting \subseteq Pid
  /\ nil \notin Int

VARIABLES
  lproc,     (* proc_lists[i].proc, nil when the node is free              *)
  lnext,     (* proc_lists[i].next                                         *)
  waiting,   (* procs[p].waiting: the first node of p's list               *)
  where,     (* what p is doing                                            *)
  l,         (* local l of proc_list_remove: the node whose next is *l, or *)
             (* nil when l is the head of the list                         *)
  n,         (* local n of proc_list_remove                                *)
  nx         (* n->next as loaded for the compare-and-swap                 *)

nodes == <<lproc, lnext>>
local == <<l, n, nx>>
vars  == <<nodes, waiting, where, local>>

Removing == {"first", "walk", "load", "cas", "free"}
Where    == {"user", "sent", "taken"} \cup Removing

Init ==
  /\ lproc = [i \in Node |-> nil]
  /\ lnext = [i \in Node |-> nil]
  /\ waiting = [p \in Pid |-> nil]
  /\ where = [p \in Pid |-> IF p \in Starting THEN "first" ELSE "user"]
  /\ l = [p \in Pid |-> nil]
  /\ n = [p \in Pid |-> nil]
  /\ nx = [p \in Pid |-> nil]

(* The nodes met on the way from the pointer head, followed long enough to *)
(* see that a list is no list but a cycle.                                 *)
ChainFrom(head, next) ==
  LET node[k \in Nat] == IF k = 0 THEN head
                         ELSE IF node[k - 1] = nil THEN nil ELSE next[node[k - 1]]
      met == {k \in 0 .. MAX_PROC_LISTS : node[k] # nil}
  IN  [k \in 1 .. Cardinality(met) |-> node[k - 1]]

(* The list of q.                                                          *)
Chain(q) == ChainFrom(waiting[q], lnext)

Senders(q) == [k \in DOMAIN Chain(q) |-> lproc[Chain(q)[k]]]

(* *l and *l = m, for the pointer l into the list of q.                    *)
Deref(q, at)    == IF at = nil THEN waiting[q] ELSE lnext[at]
Store(q, at, m) ==
  IF at = nil THEN waiting' = [waiting EXCEPT ![q] = m] /\ UNCHANGED lnext
              ELSE lnext' = [lnext EXCEPT ![at] = m] /\ UNCHANGED waiting

-----------------------------------------------------------------------------

(* Fault: the search goes one node past the end of the pool. *)
FaultPastEnd == {i \in Node : lproc[i] = nil} \cup {MAX_PROC_LISTS}

FreeNodes == {i \in Node : lproc[i] = nil}

(* Fault: the node keeps the next it had when it was last used. *)
FaultStaleNext(i) == lnext

(* n->next = nil, for the node just claimed.                               *)
Cleared(i) == [lnext EXCEPT ![i] = nil]

(* Fault: the walk to the end stops at the first node. *)
FaultStopsEarly(q) == Head(Chain(q))

End(q) == Last(Chain(q))

(* ksend to q and proc_list_add: the first free node goes to the end.      *)
send(p, q) ==
  /\ where[p] = "user"
  /\ FreeNodes # {}
  /\ LET i == CHOOSE i \in FreeNodes : \A j \in FreeNodes : i <= j
     IN  /\ lproc' = [lproc EXCEPT ![i] = p]
         /\ IF waiting[q] = nil
            THEN waiting' = [waiting EXCEPT ![q] = i] /\ lnext' = Cleared(i)
            ELSE /\ lnext' = [Cleared(i) EXCEPT ![End(q)] = i]
                 /\ UNCHANGED waiting
  /\ where' = [where EXCEPT ![p] = "sent"]
  /\ UNCHANGED local

(* Fault: the node stays claimed. *)
FaultNotReleased(i) == lproc

(* n->proc = nil, which gives the node back to the pool.                   *)
Released(i) == [lproc EXCEPT ![i] = nil]

(* The recv of a user program that finds a sender: the whole of            *)
(* proc_list_remove at once.                                               *)
recv(q, pid) ==
  /\ where[q] = "user"
  /\ waiting[q] # nil
  /\ LET c == Chain(q)
         k == Picked(Senders(q), pid)
     IN  /\ Store(q, IF k = 1 THEN nil ELSE c[k - 1], lnext[c[k]])
         /\ lproc' = Released(c[k])
         /\ where' = [where EXCEPT ![lproc[c[k]]] = "taken"]
  /\ UNCHANGED local

(* The answer to p, from whoever took it.                                  *)
answer(p) ==
  /\ where[p] = "taken"
  /\ where' = [where EXCEPT ![p] = "user"]
  /\ UNCHANGED <<nodes, waiting, local>>

-----------------------------------------------------------------------------
(* proc_list_remove(&up->waiting, PID_ALL) in proc_start.  No process has  *)
(* the pid PID_ALL, so the walk goes to the last node.                     *)

(* The first load of the list head.  An empty list makes krecv block and start over.             *)
remove_first(p) ==
  /\ where[p] = "first"
  /\ waiting[p] # nil
  /\ l' = [l EXCEPT ![p] = nil]
  /\ n' = [n EXCEPT ![p] = waiting[p]]
  /\ where' = [where EXCEPT ![p] = "walk"]
  /\ UNCHANGED <<nodes, waiting, nx>>

(* Fault: n goes to the next node, l stays. *)
FaultKeepsL(p) == UNCHANGED l

Advance(p) == l' = [l EXCEPT ![p] = n[p]]

(* The test of n->next, and the step to the next node.                     *)
remove_walk(p) ==
  /\ where[p] = "walk"
  /\ IF lnext[n[p]] = nil
     THEN where' = [where EXCEPT ![p] = "load"] /\ UNCHANGED <<l, n>>
     ELSE Advance(p) /\ n' = [n EXCEPT ![p] = lnext[n[p]]] /\ UNCHANGED where
  /\ UNCHANGED <<nodes, waiting, nx>>

(* The third argument of cas(l, n, n->next).                               *)
remove_load(p) ==
  /\ where[p] = "load"
  /\ nx' = [nx EXCEPT ![p] = lnext[n[p]]]
  /\ where' = [where EXCEPT ![p] = "cas"]
  /\ UNCHANGED <<nodes, waiting, l, n>>

(* The swap.  It also fails, and is retried, when a tick falls between its *)
(* ldrex and its strex (clrex in vectors.S).                               *)
remove_cas(p) ==
  /\ where[p] = "cas"
  /\ \/ /\ Deref(p, l[p]) = n[p]
        /\ Store(p, l[p], nx[p])
        /\ where' = [where EXCEPT ![p] = "free"]
     \/ /\ where' = [where EXCEPT ![p] = "first"]
        /\ UNCHANGED <<waiting, lnext>>
  /\ UNCHANGED <<lproc, local>>

(* p = n->proc; n->proc = nil; and proc_start goes on to answer.  The      *)
(* locals are gone: their variables go back to nil.                        *)
remove_free(p) ==
  /\ where[p] = "free"
  /\ lproc' = Released(n[p])
  /\ where' = [where EXCEPT ![p] = "user", ![lproc[n[p]]] = "taken"]
  /\ l' = [l EXCEPT ![p] = nil]
  /\ n' = [n EXCEPT ![p] = nil]
  /\ nx' = [nx EXCEPT ![p] = nil]
  /\ UNCHANGED <<lnext, waiting>>

Next ==
  \E p \in Pid :
    \/ \E q \in Pid : send(p, q)
    \/ \E pid \in Pid \cup {PID_ALL} : recv(p, pid)
    \/ answer(p)
    \/ remove_first(p) \/ remove_walk(p) \/ remove_load(p)
    \/ remove_cas(p) \/ remove_free(p)

Spec == Init /\ [][Next]_vars
-----------------------------------------------------------------------------
(* Properties. *)

(* Pointers point into the pool, and every process does one thing.         *)
TypeOK ==
  /\ lproc \in [Node -> Pid \cup {nil}]
  /\ lnext \in [Node -> Link]
  /\ waiting \in [Pid -> Link]
  /\ where \in [Pid -> Where]
  /\ l \in [Pid -> Link] /\ n \in [Pid -> Link] /\ nx \in [Pid -> Link]

(* No list is a cycle, no node is in two lists or given away twice: a node *)
(* is reached from at most one place, and is not free while it is.         *)
ListsDisjoint ==
  \A q \in Pid :
    /\ Len(Chain(q)) <= MAX_PROC_LISTS
    /\ \A i \in DOMAIN Chain(q) :
         /\ lproc[Chain(q)[i]] # nil
         /\ \A r \in Pid : \A j \in DOMAIN Chain(r) :
              Chain(r)[j] = Chain(q)[i] => r = q /\ j = i

(* The pool does not leak and no sender is dropped with its node: a        *)
(* process holds one node exactly while it is blocked in its send, also    *)
(* while proc_start has the node in its hands and when it has lost it.     *)
OneNodePerSender ==
  \A p \in Pid :
    Cardinality({i \in Node : lproc[i] = p}) = IF where[p] = "sent" THEN 1 ELSE 0

(* The compare-and-swap of remove never meets a changed *l: others only    *)
(* write the next of a last node, and l is not the last one.               *)
CasMeetsNode == \A p \in Pid : where[p] = "cas" => Deref(p, l[p]) = n[p]

(* The lists implement SenderQueues.  A sender that proc_start has         *)
(* unlinked has left its queue.                                            *)
Queues == INSTANCE SenderQueues WITH
            Client   <- Pid,
            queue    <- [q \in Pid |-> Senders(q)],
            starting <- {p \in Pid : where[p] \in Removing}
ImplementsQueues == Queues!QueuesSpec
=============================================================================
