----------------------------- MODULE MCProcList -----------------------------
(* A small instance of ProcList for TLC. *)
EXTENDS ProcList

MC_Pid      == 0 .. 3
MC_Starting == {2, 3}
=============================================================================
