----------------------------- MODULE SenderList -----------------------------
(***************************************************************************)
(* Which sender proc_list_remove (kern/proc.c) takes from a list, for the  *)
(* modules that see a list of senders as a sequence of their pids.         *)
(***************************************************************************)
EXTENDS Integers, Sequences, SequencesExt

(* Operators whose names begin with Fault are never used by a              *)
(* specification: each is a plausible mistake in the definition that       *)
(* follows it, for showing that a property notices the mistake.            *)

(* Fault: always the last node. *)
FaultTakesLast(list, pid) == Len(list)

(* proc_list_remove: the index of the node it unlinks.  The walk stops at  *)
(* a sender whose pid is pid, or else at the last node, whatever its pid.  *)
Picked(list, pid) ==
  IF \E i \in 1 .. Len(list) : list[i] = pid
  THEN SelectInSeq(list, LAMBDA q : q = pid)
  ELSE Len(list)
=============================================================================
