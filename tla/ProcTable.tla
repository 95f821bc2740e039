----------------------------- MODULE ProcTable -----------------------------
(***************************************************************************)
(* The list of created processes as kern/proc.c keeps it: alive points at  *)
(* the first struct proc, next in each at the one created after it.  The   *)
(* rest of the kernel is Kern, in which the list is the sequence alive and *)
(* the search of next_proc a choice over it.                               *)
(***************************************************************************)
EXTENDS Kern

VARIABLES
  first,  (* the pointer alive *)
  next    (* procs[p].next     *)

table == <<vars, first, next>>

(* The longest walk any loop below needs: round the list, over its nil end *)
(* and once more past the start.                                           *)
LONGEST == 2 * MAX_PROCS + 2

-----------------------------------------------------------------------------
(* Fault: the walk stops at the first node. *)
FaultStopsAtFirst == first

(* The loop of add_to_list_back: the process whose next is nil.            *)
LastOfList ==
  LET pp[k \in 0 .. LONGEST] ==
        IF k = 0 THEN first
        ELSE LET p == pp[k - 1] IN IF next[p] = nil THEN p ELSE next[p]
  IN  pp[LONGEST]

add_to_list_back(p) ==
  IF first = nil THEN first' = p /\ next' = [next EXCEPT ![p] = nil]
  ELSE next' = [next EXCEPT ![p] = nil, ![LastOfList] = p] /\ UNCHANGED first

(* Fault: the end of the list is the end of the search. *)
FaultStopsAtEnd(p) == IF p = nil THEN up ELSE next[p]

(* One step of the search: at the end of the list it restarts.             *)
Onward(p) == IF p = nil THEN first ELSE next[p]

(* The do loop of next_proc, with the process states st: it is left at a   *)
(* ready process, or when it is back at up (nil for the idle loop).        *)
Search(st) ==
  LET Ready(p) == p # nil /\ st[p] = "ready"
      w[k \in 0 .. LONGEST] ==
        IF k = 0 THEN [p |-> IF up # nil THEN next[up] ELSE first, left |-> FALSE]
        ELSE LET v == w[k - 1]
             IN  IF v.left \/ Ready(v.p) THEN [v EXCEPT !.left = TRUE]
                 ELSE [p |-> Onward(v.p), left |-> Onward(v.p) = up]
  IN  w[LONGEST]

next_proc(st) ==
  IF first = nil THEN nil
  ELSE LET p == Search(st).p
       IN  IF p # nil /\ st[p] = "ready" THEN p ELSE nil

-----------------------------------------------------------------------------
(* kmain has put proc0 into the empty list.                                *)
TableInit ==
  /\ Init
  /\ first = 0
  /\ next = [p \in Pid |-> nil]

TableNext ==
  /\ Next
  /\ IF alive' = alive THEN UNCHANGED <<first, next>> ELSE add_to_list_back(nextpid)

TableSpec == TableInit /\ [][TableNext]_table

TableFairSpec ==
  TableSpec /\ WF_vars(KernelStep) /\ \A p \in Pid : WF_vars(Quantum(p))
-----------------------------------------------------------------------------
(* Properties. *)

(* Following next from alive meets every created process once, in the      *)
(* order of creation, and ends.                                            *)
ListIsAlive ==
  /\ first = Head(alive)
  /\ \A i \in 1 .. Len(alive) :
       next[alive[i]] = IF i < Len(alive) THEN alive[i + 1] ELSE nil

(* The states schedule may leave its caller in before it searches.         *)
Searched == IF up = nil THEN {state}
            ELSE {[state EXCEPT ![up] = s] : s \in {"ready", "send", "recv"}}

(* From wherever the CPU is given up, the loop of next_proc ends and finds *)
(* the process Kern chooses: the next ready one in the order of the list,  *)
(* the caller itself as the last resort.                                   *)
SearchAgrees ==
  \A st \in Searched : Search(st).left /\ next_proc(st) = NextProc(st)
=============================================================================
