------------------------------- MODULE MCKern -------------------------------
(* Small instances of Kern for TLC. *)
EXTENDS Kern

CallsAll     == SyscallNames
CallsBasic   == SyscallNames \ {"reply_recv"}
CallsOneWay  == {"send", "recv", "proc_create"}

AllPoints == StartPoints
DuePoints == UnmaskPoints
=============================================================================
